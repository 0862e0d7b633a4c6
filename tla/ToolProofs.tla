----------------------------- MODULE ToolProofs -----------------------------
(***************************************************************************)
(* What lsof, tail, ss, the monitors and tcpdump print is true, for any    *)
(* handles, drives, files, sockets, processes and packets, and whatever    *)
(* other programs do meanwhile.                                            *)
(***************************************************************************)
EXTENDS Lsof, Tail, Sockets, Monitors, Capture, SequenceTheorems, FiniteSetTheorems,
        WellFoundedInduction, TLAPS

-----------------------------------------------------------------------------
(* lsof.  The invariant numbers each question by how many handles were left*)
(* when it was asked: all that are older than the current one have a       *)
(* greater number, so the channel waited on is the current question's      *)
(* alone; and while it is waited on, its slot holds the current handle, so *)
(* that what it finds there is this handle's name.                         *)

(* What is left to be looked at was listed.                                *)
FromList ==
  /\ listed \in Seq(Handle) /\ handles \in Seq(Handle)
  /\ \A i \in DOMAIN handles : \E j \in DOMAIN listed : handles[i] = listed[j]

Questions ==
  \A q \in asking :
    /\ q.id \in Nat /\ q.id >= Len(handles)
    /\ step = "next" => q.id > Len(handles)

Waited ==
  /\ step \in {"query", "close"} => handles # <<>>
  /\ step = "query" =>
       /\ waiting = Len(handles) /\ Current.file
       /\ wanted # {} => Current.pid \in wanted
       /\ \A q \in asking : q.id = waiting =>
            /\ table[q.slot] = Current
            /\ q.found \in {"nothing", "none", Current.name}

LsofShapes ==
  /\ DOMAIN table = Slots
  /\ \A q \in asking : q = [slot |-> q.slot, id |-> q.id, found |-> q.found] /\ q.slot \in Slots
  /\ step \in {"next", "query", "close", "done"}

LsofInv == FromList /\ Questions /\ Waited /\ LsofShapes /\ RowsAreTrue

-----------------------------------------------------------------------------
LEMMA HeadIsListed ==
  ASSUME FromList, handles # <<>>
  PROVE  /\ Current \in Handle /\ Len(handles) \in Nat \ {0}
         /\ \E j \in DOMAIN listed : Current = listed[j]
BY DEF FromList, Current

LEMMA TailIsListed ==
  ASSUME FromList, handles # <<>>, handles' = Tail(handles), listed' = listed
  PROVE  FromList' /\ Len(handles') = Len(handles) - 1
<1>1. handles' \in Seq(Handle) /\ Len(handles') = Len(handles) - 1
  BY DEF FromList
<1>2. \A i \in DOMAIN handles' : i + 1 \in DOMAIN handles /\ handles'[i] = handles[i + 1]
  BY <1>1 DEF FromList
<1> QED BY <1>1, <1>2 DEF FromList

LEMMA DriveOfPath ==
  ASSUME NEW n, NEW path \in NtToDos(n)
  PROVE  /\ path.name = n
         /\ \A d \in DOMAIN Devices :
              n \in Devices[d] => d = path.drive \/ n \in Devices[path.drive]
BY DEF NtToDos

LEMMA LsofInitInv ==
  ASSUME NEW lists, lists \subseteq Seq(Handle), LsofInit(lists)
  PROVE  LsofInv
BY DEF LsofInit, LsofInv, FromList, Questions, Waited, LsofShapes, RowsAreTrue

(* Only an answer adds a row.                                              *)
LEMMA SameRows ==
  ASSUME RowsAreTrue, UNCHANGED <<rows, wanted, listed>>
  PROVE  RowsAreTrue'
BY DEF RowsAreTrue

LEMMA SkipStep == ASSUME LsofInv, SkipHandle PROVE LsofInv'
<1>1. FromList' /\ Len(handles') = Len(handles) - 1
  BY TailIsListed DEF LsofInv, SkipHandle, Skip
<1>2. Questions' /\ Waited' /\ LsofShapes'
  BY <1>1, HeadIsListed DEF LsofInv, SkipHandle, Skip, Questions, Waited, LsofShapes
<1>3. RowsAreTrue'
  BY SameRows DEF LsofInv, SkipHandle, Skip
<1> QED BY <1>1, <1>2, <1>3 DEF LsofInv

LEMMA DuplicateStep == ASSUME LsofInv, Duplicate PROVE LsofInv'
<1>1. FromList' /\ Current' = Current /\ Len(handles') = Len(handles)
  BY DEF LsofInv, Duplicate, FromList, Current
<1>2. PICK s \in Slots :
        /\ table' = [table EXCEPT ![s] = Current]
        /\ IF Current.file
           THEN /\ asking' = asking \cup {[slot |-> s, id |-> Len(handles), found |-> "nothing"]}
                /\ waiting' = Len(handles) /\ step' = "query"
           ELSE waiting' = 0 /\ step' = "close" /\ UNCHANGED asking
  BY DEF Duplicate
<1>3. step = "next" /\ handles # <<>> /\ handles' = handles /\ wanted' = wanted
      /\ (wanted # {} => Current.pid \in wanted)
  BY DEF Duplicate, Filtered
<1>4. Len(handles) \in Nat
  BY <1>3, HeadIsListed DEF LsofInv
<1>5. Questions'
  BY <1>1, <1>2, <1>3, <1>4 DEF LsofInv, Questions
<1>6. LsofShapes'
  BY <1>2 DEF LsofInv, LsofShapes
<1>7. Waited'
  <2>1. CASE Current.file
    <3>1. \A q \in asking : q.id > Len(handles)
      BY <1>3 DEF LsofInv, Questions
    <3>2. \A q \in asking' : q.id = waiting' => q.slot = s /\ q.found = "nothing"
      BY <1>2, <1>4, <2>1, <3>1 DEF LsofInv, Questions
    <3>3. table'[s] = Current
      BY <1>2 DEF LsofInv, LsofShapes
    <3> QED BY <1>1, <1>2, <1>3, <2>1, <3>2, <3>3 DEF Waited
  <2>2. CASE ~Current.file
    BY <1>2, <1>3, <2>2 DEF Waited
  <2> QED BY <2>1, <2>2
<1>8. RowsAreTrue'
  BY SameRows DEF LsofInv, Duplicate
<1> QED BY <1>1, <1>5, <1>6, <1>7, <1>8 DEF LsofInv

LEMMA AskStep == ASSUME LsofInv, NEW q \in asking, Ask(q) PROVE LsofInv'
<1>1. PICK answer \in {"none"} \cup (IF table[q.slot] = Free THEN {} ELSE {table[q.slot].name}) :
        asking' = (asking \ {q}) \cup {[q EXCEPT !.found = answer]}
  BY DEF Ask
<1>2. UNCHANGED <<wanted, byName, listed, handles, table, waiting, rows, step>>
  BY DEF Ask
<1>3. /\ [q EXCEPT !.found = answer].id = q.id /\ [q EXCEPT !.found = answer].slot = q.slot
      /\ [q EXCEPT !.found = answer].found = answer
      /\ [q EXCEPT !.found = answer] = [slot |-> q.slot, id |-> q.id, found |-> answer]
  BY DEF LsofInv, LsofShapes
<1>4. FromList' /\ Current' = Current
  BY <1>2 DEF LsofInv, FromList, Current
<1>5. Questions' /\ LsofShapes'
  BY <1>1, <1>2, <1>3 DEF LsofInv, Questions, LsofShapes
<1>6. Waited'
  <2>1. SUFFICES ASSUME step = "query", NEW p \in asking', p.id = waiting
                 PROVE  table[p.slot] = Current /\ p.found \in {"nothing", "none", Current.name}
    BY <1>2, <1>4 DEF LsofInv, Waited
  <2>2. CASE p \in asking
    BY <2>1, <2>2 DEF LsofInv, Waited
  <2>3. CASE p = [q EXCEPT !.found = answer]
    BY <1>1, <1>3, <2>1, <2>3 DEF LsofInv, Waited
  <2> QED BY <1>1, <2>2, <2>3
<1>7. RowsAreTrue'
  BY SameRows, <1>2 DEF LsofInv
<1> QED BY <1>4, <1>5, <1>6, <1>7 DEF LsofInv

(* The answer that is waited for is the name of the current handle.        *)
LEMMA AnswerStep == ASSUME LsofInv, Answer PROVE LsofInv'
<1>1. PICK q \in asking :
        /\ q.id = waiting /\ q.found # "nothing" /\ asking' = asking \ {q}
        /\ IF q.found = "none" THEN UNCHANGED rows
           ELSE \E path \in NtToDos(q.found) : rows' = rows \cup {[pid |-> Current.pid, path |-> path]}
  BY DEF Answer, AnyAnswer
<1>2. step = "query" /\ step' = "close" /\ UNCHANGED <<wanted, byName, listed, handles, table, waiting>>
  BY DEF Answer, AnyAnswer
<1>3. FromList' /\ Current' = Current
  BY <1>2 DEF LsofInv, FromList, Current
<1>4. Questions' /\ LsofShapes' /\ Waited'
  BY <1>1, <1>2 DEF LsofInv, Questions, LsofShapes, Waited
<1>5. RowsAreTrue'
  <2>1. CASE UNCHANGED rows
    BY SameRows, <1>2, <2>1 DEF LsofInv
  <2>2. ASSUME NEW path \in NtToDos(q.found), q.found # "none",
               rows' = rows \cup {[pid |-> Current.pid, path |-> path]}
        PROVE  RowsAreTrue'
    <3>1. q.found = Current.name /\ Current.file /\ (wanted # {} => Current.pid \in wanted)
      BY <1>1, <1>2, <2>2 DEF LsofInv, Waited
    <3>2. PICK j \in DOMAIN listed : Current = listed[j]
      BY <1>2, HeadIsListed DEF LsofInv, Waited
    <3>3. /\ path.name = Current.name
          /\ \A d \in DOMAIN Devices :
               path.name \in Devices[d] => d = path.drive \/ path.name \in Devices[path.drive]
      BY <3>1, DriveOfPath
    <3>4. ASSUME NEW r \in rows'
          PROVE  /\ wanted # {} => r.pid \in wanted
                 /\ \E i \in DOMAIN listed :
                      /\ listed[i].file /\ listed[i].pid = r.pid /\ listed[i].name = r.path.name
                      /\ \A d \in DOMAIN Devices :
                           r.path.name \in Devices[d] =>
                             d = r.path.drive \/ r.path.name \in Devices[r.path.drive]
      <4>1. CASE r \in rows
        BY <4>1 DEF LsofInv, RowsAreTrue
      <4>2. CASE r = [pid |-> Current.pid, path |-> path]
        BY <3>1, <3>2, <3>3, <4>2
      <4> QED BY <2>2, <3>4, <4>1, <4>2
    <3> QED BY <1>2, <3>4 DEF RowsAreTrue
  <2> QED BY <1>1, <2>1, <2>2
<1> QED BY <1>3, <1>4, <1>5 DEF LsofInv

LEMMA TimeoutStep == ASSUME LsofInv, Timeout PROVE LsofInv'
<1>1. FromList' /\ Questions' /\ Waited' /\ LsofShapes'
  BY DEF LsofInv, Timeout, FromList, Questions, Waited, LsofShapes
<1>2. RowsAreTrue'
  BY SameRows DEF LsofInv, Timeout
<1> QED BY <1>1, <1>2 DEF LsofInv

LEMMA CloseStep == ASSUME LsofInv, Close PROVE LsofInv'
<1>1. FromList' /\ Len(handles') = Len(handles) - 1
  BY TailIsListed DEF LsofInv, Close, Waited
<1>2. Len(handles) \in Nat \ {0}
  BY HeadIsListed DEF LsofInv, Close, Waited
<1>3. Questions' /\ Waited' /\ LsofShapes'
  BY <1>1, <1>2 DEF LsofInv, Close, Questions, Waited, LsofShapes
<1>4. RowsAreTrue'
  BY SameRows DEF LsofInv, Close
<1> QED BY <1>1, <1>3, <1>4 DEF LsofInv

LEMMA FinishStep == ASSUME LsofInv, Finish PROVE LsofInv'
<1>1. FromList' /\ Questions' /\ Waited' /\ LsofShapes'
  BY DEF LsofInv, Finish, FromList, Questions, Waited, LsofShapes
<1>2. RowsAreTrue'
  BY SameRows DEF LsofInv, Finish
<1> QED BY <1>1, <1>2 DEF LsofInv

LEMMA LsofStutter == ASSUME LsofInv, UNCHANGED lsofVars PROVE LsofInv'
BY DEF LsofInv, lsofVars, FromList, Questions, Waited, LsofShapes, RowsAreTrue, Current

-----------------------------------------------------------------------------
(* However late the questions of earlier handles are asked and answered,   *)
(* and whatever is in their slots by then, every row is of a handle that   *)
(* was listed and asked for, with that handle's name and its drive.        *)
THEOREM RowsAreTrueTheorem ==
  ASSUME NEW lists, lists \subseteq Seq(Handle)
  PROVE  LsofInit(lists) /\ [][LsofNext]_lsofVars => []RowsAreTrue
<1>1. LsofInit(lists) => LsofInv
  BY LsofInitInv
<1>2. LsofInv /\ [LsofNext]_lsofVars => LsofInv'
  BY SkipStep, DuplicateStep, AskStep, AnswerStep, TimeoutStep, CloseStep, FinishStep, LsofStutter
  DEF LsofNext
<1>3. LsofInv => RowsAreTrue
  BY DEF LsofInv
<1> QED BY <1>1, <1>2, <1>3, PTL

-----------------------------------------------------------------------------
(* tail.  What is beyond the offset was written after all that is printed, *)
(* or, once the file was emptied, everything in it was; and while every    *)
(* emptying was noticed, what is before the offset is printed or was       *)
(* skipped at the start.                                                   *)

(* Bytes in the order in which they were written.                          *)
Ascending(s) == \A i, j \in DOMAIN s : i < j => s[i] < s[j]
Numbered(s) == s \in Seq(Nat) /\ \A i \in DOMAIN s : s[i] <= written
Beyond(n) ==
  \A i \in DOMAIN tailFile, j \in DOMAIN printed : i > n => printed[j] < tailFile[i]

TailShapes ==
  /\ written \in Nat /\ offset \in Nat /\ age \in Nat /\ seen \in Nat /\ seen <= age
  /\ Numbered(tailFile) /\ Ascending(tailFile)
  /\ Numbered(printed) /\ Ascending(printed)
  /\ spot \in {"last", "length"} => seen = age

Ahead == spot \in {"sleep", "read"} => (offset <= Len(tailFile) /\ Beyond(offset)) \/ Beyond(0)

TailComplete ==
  spot \in {"sleep", "read"} /\ seen = age =>
    /\ offset <= Len(tailFile)
    /\ \A i \in DOMAIN tailFile : i <= offset => tailFile[i] \in ToSet(printed) \cup skipped

TailInv == TailShapes /\ Ahead /\ TailComplete

-----------------------------------------------------------------------------
(* A set of numbers has a least one, and a bounded one a greatest.         *)
LEMMA LeastOf ==
  ASSUME NEW S \in SUBSET Nat, S # {}
  PROVE  Min(S) \in S /\ \A k \in S : Min(S) <= k
<1> DEFINE U == {0 .. k : k \in S}
<1>1. U \subseteq FiniteSubsetsOf(Nat) /\ U # {}
  <2>1. \A k \in S : 0 .. k \in SUBSET Nat /\ IsFiniteSet(0 .. k)
    BY FS_Interval
  <2> QED BY <2>1 DEF FiniteSubsetsOf
<1>2. PICK X \in U : \A Y \in U : <<Y, X>> \notin StrictSubsetOrdering(Nat)
  <2> HIDE DEF U
  <2> QED BY <1>1, FS_StrictSubsetOrderingWellFounded, WFMin
<1>3. PICK n \in S : X = 0 .. n
  OBVIOUS
<1>4. \A m \in S : n <= m
  <2>1. SUFFICES ASSUME NEW m \in S, m < n PROVE FALSE
    OBVIOUS
  <2>2. 0 .. m \subseteq 0 .. n /\ 0 .. m # 0 .. n /\ 0 .. m \in SUBSET Nat /\ 0 .. n \in SUBSET Nat
    BY <2>1
  <2>3. <<0 .. m, 0 .. n>> \in StrictSubsetOrdering(Nat)
    BY <2>2 DEF StrictSubsetOrdering
  <2> QED BY <1>2, <1>3, <2>3
<1> QED BY <1>4 DEF Min

LEMMA GreatestOf ==
  ASSUME NEW n \in Nat, NEW S \in SUBSET (1 .. n), S # {}
  PROVE  Max(S) \in S
<1> DEFINE T == {n - x : x \in S}
<1>1. T \in SUBSET Nat /\ T # {}
  <2>1. \A x \in S : n - x \in Nat
    OBVIOUS
  <2> QED BY <2>1
<1>2. PICK m \in T : \A k \in T : m <= k
  <2> HIDE DEF T
  <2>1. Min(T) \in T /\ \A k \in T : Min(T) <= k
    BY <1>1, LeastOf
  <2> QED BY <2>1
<1>3. PICK x \in S : m = n - x
  BY <1>2
<1>4. \A y \in S : x >= y
  <2>1. SUFFICES ASSUME NEW y \in S PROVE x >= y
    OBVIOUS
  <2>2. n - x <= n - y
    BY <1>2, <1>3
  <2>3. x \in Nat /\ y \in Nat
    OBVIOUS
  <2> HIDE DEF T
  <2> QED BY <2>2, <2>3
<1> QED BY <1>4 DEF Max

(* What is read from a place in the file on.                               *)
From(m) == SubSeq(tailFile, m + 1, Len(tailFile))

LEMMA FromIsPart ==
  ASSUME Numbered(tailFile), Ascending(tailFile), NEW m \in Nat
  PROVE  /\ Numbered(From(m)) /\ Ascending(From(m))
         /\ Len(From(m)) \in Nat /\ DOMAIN From(m) = 1 .. Len(From(m))
         /\ m <= Len(tailFile) => m + Len(From(m)) = Len(tailFile)
         /\ m > Len(tailFile) => Len(From(m)) = 0
         /\ \A i \in DOMAIN From(m) : i + m \in DOMAIN tailFile /\ From(m)[i] = tailFile[i + m]
<1> DEFINE t == From(m)
           n == Len(tailFile)
<1>1. DOMAIN tailFile = 1 .. n /\ n \in Nat /\ tailFile \in Seq(Nat)
  BY DEF Numbered
<1>2. /\ t \in Seq(Nat) /\ Len(t) = IF m + 1 <= n THEN n - (m + 1) + 1 ELSE 0
      /\ \A i \in 1 .. n - (m + 1) + 1 : t[i] = tailFile[(m + 1) + i - 1]
  <2>1. \A i \in m + 1 .. n : tailFile[i] \in Nat
    BY <1>1
  <2> QED BY <1>1, <2>1, SubSeqProperties DEF From
<1> HIDE DEF t, n
<1>3. Len(t) \in Nat /\ DOMAIN t = 1 .. Len(t)
  BY <1>2
<1>4. (m <= n => m + Len(t) = n) /\ (m > n => Len(t) = 0)
  <2>1. CASE m + 1 <= n
    BY <1>1, <1>2, <2>1
  <2>2. CASE ~(m + 1 <= n)
    BY <1>1, <1>2, <2>2
  <2> QED BY <2>1, <2>2
<1>5. ASSUME NEW i \in DOMAIN t PROVE i + m \in DOMAIN tailFile /\ t[i] = tailFile[i + m]
  <2>1. i \in 1 .. Len(t)
    BY <1>3
  <2>2. m + Len(t) = n
    BY <1>1, <1>3, <1>4, <2>1
  <2>3. (m + 1) + i - 1 = i + m /\ i \in 1 .. n - (m + 1) + 1 /\ i + m \in 1 .. n
    BY <1>1, <1>3, <2>1, <2>2
  <2> QED BY <1>1, <1>2, <2>3
<1>6. Ascending(t)
  <2>1. SUFFICES ASSUME NEW i \in DOMAIN t, NEW j \in DOMAIN t, i < j PROVE t[i] < t[j]
    BY DEF Ascending
  <2>2. i + m \in DOMAIN tailFile /\ j + m \in DOMAIN tailFile /\ i + m < j + m
    BY <1>3, <1>5, <2>1
  <2> QED BY <1>5, <2>1, <2>2 DEF Ascending
<1>7. Numbered(t)
  BY <1>2, <1>5 DEF Numbered
<1> QED BY <1>3, <1>4, <1>5, <1>6, <1>7 DEF t, n

(* The last lines of a file are its end, or nothing.                       *)
LEMMA LastLinesIsPart ==
  ASSUME NEW s, s \in Seq(Nat), NEW brk, NEW n
  PROVE  \/ LastLines(s, brk, n) = <<>>
         \/ \E m \in Nat : LastLines(s, brk, n) = SubSeq(s, m + 1, Len(s))
<1>1. Len(s) \in Nat /\ DOMAIN s = 1 .. Len(s)
  OBVIOUS
<1>2. \/ LastOfSmall(s, brk, n) = <<>>
      \/ \E m \in Nat : LastOfSmall(s, brk, n) = SubSeq(s, m + 1, Len(s))
  <2> DEFINE kept == {i \in LineStarts(s, brk) :
                        Cardinality({j \in LineStarts(s, brk) : j >= i}) <= n}
  <2>1. kept \in SUBSET (Nat \ {0})
    BY <1>1 DEF LineStarts
  <2>2. ASSUME kept # {} PROVE Min(kept) - 1 \in Nat /\ Min(kept) = (Min(kept) - 1) + 1
    <3> HIDE DEF kept
    <3>1. Min(kept) \in Nat \ {0}
      BY <2>1, <2>2, LeastOf
    <3> QED BY <3>1
  <2>3. LastOfSmall(s, brk, n) = IF kept = {} THEN <<>> ELSE SubSeq(s, Min(kept), Len(s))
    BY DEF LastOfSmall
  <2> HIDE DEF kept
  <2> QED BY <2>2, <2>3
<1>3. \E m \in Nat : LastOfLarge(s, brk, n) = SubSeq(s, m + 1, Len(s))
  <2> DEFINE stops == {i \in DOMAIN s : s[i] \in brk /\ Cardinality({j \in i .. Len(s) : s[j] \in brk}) > n}
  <2>1. stops \in SUBSET (1 .. Len(s))
    BY <1>1
  <2>2. stops # {} => Max(stops) \in Nat
    <3> HIDE DEF stops
    <3>1. ASSUME stops # {} PROVE Max(stops) \in 1 .. Len(s)
      BY <1>1, <2>1, <3>1, GreatestOf
    <3> QED BY <1>1, <3>1
  <2>3. LastOfLarge(s, brk, n) = IF stops = {} THEN s ELSE SubSeq(s, Max(stops) + 1, Len(s))
    BY DEF LastOfLarge
  <2>4. s = SubSeq(s, 0 + 1, Len(s))
    BY SubSeqFull
  <2> HIDE DEF stops
  <2> QED BY <2>2, <2>3, <2>4
<1> QED BY <1>2, <1>3 DEF LastLines

-----------------------------------------------------------------------------
LEMMA TailInitInv == TailInit => TailInv
<1> SUFFICES ASSUME TailInit PROVE TailInv
  OBVIOUS
<1>1. Numbered(tailFile) /\ Ascending(tailFile)
  <2>1. CASE tailFile = <<>>
    BY <2>1 DEF Numbered, Ascending
  <2>2. CASE tailFile = <<1, 2>>
    BY <2>2 DEF TailInit, Numbered, Ascending
  <2> QED BY <2>1, <2>2 DEF TailInit
<1>2. Numbered(printed) /\ Ascending(printed)
  BY DEF TailInit, Numbered, Ascending
<1> QED BY <1>1, <1>2 DEF TailInit, TailInv, TailShapes, Ahead, TailComplete

(* A byte is written behind all that there are.                            *)
LEMMA WriteStep == ASSUME TailInv, WriteMore PROVE TailInv'
<1> USE DEF TailInv
<1>1. /\ written' = written + 1 /\ tailFile' = Append(tailFile, written + 1)
      /\ UNCHANGED <<offset, printed, spot, skipped, age, seen>>
  BY DEF WriteMore
<1>2. /\ tailFile' \in Seq(Nat) /\ Len(tailFile') = Len(tailFile) + 1
      /\ DOMAIN tailFile' = 1 .. Len(tailFile) + 1 /\ DOMAIN tailFile = 1 .. Len(tailFile)
      /\ \A i \in DOMAIN tailFile : tailFile'[i] = tailFile[i]
      /\ tailFile'[Len(tailFile) + 1] = written + 1
  BY <1>1 DEF TailShapes, Numbered
<1>3. Numbered(tailFile)' /\ Numbered(printed)'
  BY <1>1, <1>2 DEF TailShapes, Numbered
<1>4. Ascending(tailFile)' /\ Ascending(printed)'
  BY <1>1, <1>2 DEF TailShapes, Numbered, Ascending
<1>5. TailShapes'
  BY <1>1, <1>3, <1>4 DEF TailShapes
<1>6. \A n \in Nat : Beyond(n) => Beyond(n)'
  BY <1>1, <1>2 DEF TailShapes, Numbered, Beyond
<1>7. Ahead'
  BY <1>1, <1>2, <1>6 DEF TailShapes, Numbered, Ahead
<1>8. TailComplete'
  BY <1>1, <1>2 DEF TailShapes, Numbered, TailComplete
<1> QED BY <1>5, <1>7, <1>8

(* After an emptying everything in the file is news, and seen tells.       *)
LEMMA EmptyStep == ASSUME TailInv, Empty PROVE TailInv'
<1> USE DEF TailInv, TailShapes, Empty
<1>1. Numbered(tailFile)' /\ Ascending(tailFile)' /\ Beyond(0)'
  BY DEF Numbered, Ascending, Beyond
<1>2. Numbered(printed)' /\ Ascending(printed)'
  BY DEF Numbered, Ascending
<1>3. age' \in Nat /\ seen' \in Nat /\ seen' <= age'
      /\ (spot' \in {"last", "length"} => seen' = age')
      /\ (spot' \in {"sleep", "read"} => seen' < age')
  OBVIOUS
<1>4. TailComplete'
  BY <1>3 DEF TailComplete
<1> QED BY <1>1, <1>2, <1>3, <1>4 DEF Ahead

(* The last lines are a part of the file, in its order.                    *)
LEMMA PrintLastStep == ASSUME TailInv, PrintLast PROVE TailInv'
<1>1. /\ printed' = LastLines(tailFile, ends, lines) /\ spot = "last" /\ spot' = "length"
      /\ UNCHANGED <<tailFile, ends, written, lines, offset, age, skipped, seen>>
  BY DEF PrintLast, writer
<1>2. Numbered(tailFile)' /\ Ascending(tailFile)'
  BY <1>1 DEF TailInv, TailShapes, Numbered, Ascending
<1>3. Numbered(printed)' /\ Ascending(printed)'
  <2>1. CASE printed' = <<>>
    BY <2>1 DEF Numbered, Ascending
  <2>2. ASSUME NEW m \in Nat, printed' = From(m)
        PROVE  Numbered(printed)' /\ Ascending(printed)'
    <3>1. Numbered(printed') /\ Ascending(printed')
      BY <2>2, FromIsPart DEF TailInv, TailShapes
    <3> QED BY <1>1, <3>1 DEF Numbered, Ascending
  <2> QED BY <1>1, <2>1, <2>2, LastLinesIsPart DEF TailInv, TailShapes, Numbered, From
<1> QED BY <1>1, <1>2, <1>3 DEF TailInv, TailShapes, Ahead, TailComplete

(* What is in the file is printed now, or skipped for good.                *)
LEMMA TakeLengthStep == ASSUME TailInv, TakeLength PROVE TailInv'
<1>1. /\ offset' = Len(tailFile) /\ skipped' = ToSet(tailFile) \ ToSet(printed)
      /\ spot = "length" /\ spot' = "sleep"
      /\ UNCHANGED <<tailFile, written, printed, age, seen>>
  BY DEF TakeLength, writer
<1>2. Numbered(tailFile)' /\ Ascending(tailFile)' /\ Numbered(printed)' /\ Ascending(printed)'
  BY <1>1 DEF TailInv, TailShapes, Numbered, Ascending
<1>3. Len(tailFile) \in Nat /\ DOMAIN tailFile = 1 .. Len(tailFile)
  BY DEF TailInv, TailShapes, Numbered
<1>4. Ahead'
  BY <1>1, <1>3 DEF Ahead, Beyond
<1>5. TailComplete'
  BY <1>1, <1>3 DEF TailComplete, ToSet
<1> QED BY <1>1, <1>2, <1>3, <1>4, <1>5 DEF TailInv, TailShapes

(* A file that is shorter than the offset was emptied since.               *)
LEMMA LookStep == ASSUME TailInv, Look PROVE TailInv'
<1>1. /\ spot = "sleep" /\ spot' \in {"sleep", "read"}
      /\ UNCHANGED <<tailFile, written, printed, age, skipped>>
  BY DEF Look, writer
<1>2. Numbered(tailFile)' /\ Ascending(tailFile)' /\ Numbered(printed)' /\ Ascending(printed)'
  BY <1>1 DEF TailInv, TailShapes, Numbered, Ascending
<1>3. \/ UNCHANGED <<offset, seen>>
      \/ offset' = 0 /\ seen' = age /\ (Len(tailFile) < offset \/ offset = 0)
  BY DEF Look, TailInv, TailShapes, Numbered
<1>4. CASE UNCHANGED <<offset, seen>>
  BY <1>1, <1>2, <1>4 DEF TailInv, TailShapes, Ahead, Beyond, TailComplete
<1>5. CASE offset' = 0 /\ seen' = age /\ (Len(tailFile) < offset \/ offset = 0)
  <2>1. Len(tailFile) \in Nat /\ DOMAIN tailFile = 1 .. Len(tailFile)
    BY DEF TailInv, TailShapes, Numbered
  <2>2. Beyond(0)
    BY <1>1, <1>5, <2>1 DEF TailInv, TailShapes, Ahead
  <2>3. Ahead'
    BY <1>1, <1>5, <2>2 DEF Ahead, Beyond
  <2>4. TailComplete'
    BY <1>1, <1>5, <2>1 DEF TailComplete
  <2> QED BY <1>1, <1>2, <1>5, <2>3, <2>4 DEF TailInv, TailShapes
<1> QED BY <1>3, <1>4, <1>5

(* A reading goes on at the offset, behind all that is printed, to the end.*)
LEMMA FollowStep == ASSUME TailInv, Follow PROVE TailInv'
<1> DEFINE new == From(offset)
<1>1. /\ spot = "read" /\ spot' = "sleep"
      /\ UNCHANGED <<tailFile, written, age, seen>>
  BY DEF Follow, AnyFollow, writer
<1>5. \/ \E n \in 0 .. Len(new) :
           /\ printed' = printed \o SubSeq(new, 1, n)
           /\ skipped' = skipped \cup {new[i] : i \in n + 1 .. Len(new)}
           /\ offset' = offset + Len(new)
      \/ UNCHANGED <<printed, skipped, offset>>
  BY DEF Follow, AnyFollow, From
<1>2. Numbered(tailFile)' /\ Ascending(tailFile)'
  BY <1>1 DEF TailInv, TailShapes, Numbered, Ascending
<1>3. CASE UNCHANGED <<printed, skipped, offset>>
  <2>1. Numbered(printed)' /\ Ascending(printed)'
    BY <1>1, <1>3 DEF TailInv, TailShapes, Numbered, Ascending
  <2> QED BY <1>1, <1>2, <1>3, <2>1 DEF TailInv, TailShapes, Ahead, Beyond, TailComplete
<1>4. ASSUME NEW n \in 0 .. Len(new), printed' = printed \o SubSeq(new, 1, n),
             skipped' = skipped \cup {new[i] : i \in n + 1 .. Len(new)},
             offset' = offset + Len(new)
      PROVE  TailInv'
  <2> DEFINE part == SubSeq(new, 1, n)
  <2>6. Len(tailFile) \in Nat /\ DOMAIN tailFile = 1 .. Len(tailFile) /\ offset \in Nat
    BY DEF TailInv, TailShapes, Numbered
  <2>1. /\ Numbered(new) /\ Ascending(new) /\ Len(new) \in Nat /\ DOMAIN new = 1 .. Len(new)
        /\ offset <= Len(tailFile) => offset + Len(new) = Len(tailFile)
        /\ offset > Len(tailFile) => Len(new) = 0
        /\ \A i \in DOMAIN new : i + offset \in DOMAIN tailFile /\ new[i] = tailFile[i + offset]
    BY <2>6, FromIsPart DEF TailInv, TailShapes
  <2> HIDE DEF new
  <2>10. /\ part \in Seq(Nat) /\ Len(part) = n /\ DOMAIN part = 1 .. n
         /\ n \in Nat /\ n <= Len(new)
         /\ \A i \in 1 .. n : i \in DOMAIN new /\ part[i] = new[i]
    <3>1. n \in Nat /\ n <= Len(new) /\ new \in Seq(Nat)
      BY <2>1 DEF Numbered
    <3>2. \A i \in 1 .. n : i \in 1 .. Len(new)
      BY <2>1, <3>1
    <3>3. /\ Len(part) = n /\ DOMAIN part = 1 .. n
          /\ \A i \in 1 .. n : part[i] = new[i]
      BY <3>1, <3>2
    <3>4. part = [i \in 1 .. n |-> new[i]]
      BY <3>1
    <3>5. part \in Seq(Nat)
      BY <2>1, <3>1, <3>2, <3>4 DEF Numbered
    <3> QED BY <2>1, <3>1, <3>2, <3>3, <3>5
  <2>11. printed' = printed \o part
    BY <1>4
  <2> HIDE DEF part
  <2>12. Numbered(part) /\ Ascending(part)
    <3>1. Numbered(part)
      BY <2>1, <2>10 DEF Numbered
    <3>2. ASSUME NEW i \in DOMAIN part, NEW j \in DOMAIN part, i < j PROVE part[i] < part[j]
      <4>1. i \in DOMAIN new /\ j \in DOMAIN new /\ part[i] = new[i] /\ part[j] = new[j]
        BY <2>10
      <4> QED BY <2>1, <3>2, <4>1 DEF Ascending
    <3> QED BY <3>1, <3>2 DEF Ascending
  <2>2. /\ printed' \in Seq(Nat) /\ Len(printed') = Len(printed) + Len(part)
        /\ DOMAIN printed' = 1 .. Len(printed) + Len(part)
        /\ DOMAIN printed = 1 .. Len(printed) /\ DOMAIN part = 1 .. Len(part)
        /\ Len(printed) \in Nat /\ Len(part) \in Nat
        /\ \A i \in DOMAIN printed : printed'[i] = printed[i]
        /\ \A i \in DOMAIN printed' \ DOMAIN printed :
             i - Len(printed) \in DOMAIN part /\ printed'[i] = part[i - Len(printed)]
    <3>1. printed \in Seq(Nat)
      BY DEF TailInv, TailShapes, Numbered
    <3>2. /\ printed' \in Seq(Nat) /\ Len(printed') = Len(printed) + Len(part)
          /\ \A i \in 1 .. Len(printed) + Len(part) :
               printed'[i] = IF i <= Len(printed) THEN printed[i] ELSE part[i - Len(printed)]
      BY <2>10, <2>11, <3>1, ConcatProperties DEF Numbered
    <3>3. /\ DOMAIN printed = 1 .. Len(printed) /\ DOMAIN part = 1 .. Len(part)
          /\ DOMAIN printed' = 1 .. Len(printed')
          /\ Len(printed) \in Nat /\ Len(part) \in Nat
      BY <2>10, <3>1, <3>2
    <3>4. ASSUME NEW i \in DOMAIN printed PROVE printed'[i] = printed[i]
      <4>1. i \in 1 .. Len(printed) + Len(part) /\ i <= Len(printed)
        BY <3>3
      <4> QED BY <3>2, <4>1
    <3>5. ASSUME NEW i \in DOMAIN printed' \ DOMAIN printed
          PROVE  i - Len(printed) \in DOMAIN part /\ printed'[i] = part[i - Len(printed)]
      <4>1. i \in 1 .. Len(printed) + Len(part) /\ ~(i <= Len(printed))
        BY <3>2, <3>3
      <4>2. i - Len(printed) \in DOMAIN part
        BY <3>3, <4>1
      <4> QED BY <3>2, <4>1, <4>2
    <3> QED BY <3>2, <3>3, <3>4, <3>5
  <2>3. Numbered(printed)'
    <3>1. /\ \A i \in DOMAIN printed : printed[i] <= written
          /\ \A i \in DOMAIN part : part[i] <= written
      BY <2>12 DEF TailInv, TailShapes, Numbered
    <3>2. ASSUME NEW i \in DOMAIN printed' PROVE printed'[i] <= written'
      <4>1. CASE i \in DOMAIN printed
        BY <1>1, <2>2, <3>1, <4>1
      <4>2. CASE i \notin DOMAIN printed
        BY <1>1, <2>2, <3>1, <4>2
      <4> QED BY <4>1, <4>2
    <3>3. printed' \in Seq(Nat)
      BY <2>2
    <3> QED BY <3>2, <3>3 DEF Numbered
  (* What is read lies beyond the offset, so behind what was printed. *)
  <2>4. \A i \in DOMAIN printed, j \in DOMAIN part : printed[i] < part[j]
    <3>1. SUFFICES ASSUME NEW i \in DOMAIN printed, NEW j \in DOMAIN part
                   PROVE  printed[i] < part[j]
      OBVIOUS
    <3>3. j + offset \in DOMAIN tailFile /\ part[j] = tailFile[j + offset]
      BY <2>1, <2>10
    <3>2. j \in 1 .. Len(part) /\ Len(part) \in Nat
      BY <2>10
    <3>4. j + offset > offset /\ j + offset > 0
      BY <2>6, <3>2
    <3>5. Beyond(offset) \/ Beyond(0)
      BY <1>1 DEF TailInv, Ahead
    <3> QED BY <3>3, <3>4, <3>5 DEF Beyond
  <2>5. Ascending(printed)'
    <3>1. SUFFICES ASSUME NEW i \in DOMAIN printed', NEW j \in DOMAIN printed', i < j
                   PROVE  printed'[i] < printed'[j]
      BY DEF Ascending
    <3>2. CASE j \in DOMAIN printed
      <4>1. i \in DOMAIN printed
        BY <2>2, <3>1, <3>2
      <4>2. printed'[i] = printed[i] /\ printed'[j] = printed[j]
        BY <2>2, <3>2, <4>1
      <4> QED BY <3>1, <3>2, <4>1, <4>2 DEF TailInv, TailShapes, Ascending
    <3>3. CASE i \in DOMAIN printed /\ j \notin DOMAIN printed
      BY <2>2, <2>4, <3>3
    <3>4. CASE i \notin DOMAIN printed /\ j \notin DOMAIN printed
      <4>1. /\ i - Len(printed) \in DOMAIN part /\ j - Len(printed) \in DOMAIN part
            /\ i - Len(printed) < j - Len(printed)
        BY <2>2, <3>1, <3>4
      <4> QED BY <2>12, <2>2, <3>4, <4>1 DEF Ascending
    <3> QED BY <2>2, <3>1, <3>2, <3>3, <3>4
  <2>7. Ahead'
    <3>1. CASE offset <= Len(tailFile)
      <4>1. offset' = Len(tailFile)
        BY <1>4, <2>1, <2>6, <3>1
      <4>2. offset' <= Len(tailFile) /\ \A i \in DOMAIN tailFile : ~(i > offset')
        BY <2>6, <4>1
      <4> QED BY <1>1, <4>2 DEF Ahead, Beyond
    <3>2. CASE ~(offset <= Len(tailFile))
      <4>1. Len(new) = 0 /\ Beyond(0)
        <5>1. offset > Len(tailFile)
          BY <2>6, <3>2
        <5> QED BY <1>1, <2>1, <3>2, <5>1 DEF TailInv, Ahead
      <4>2. \A j \in DOMAIN printed' : j \in DOMAIN printed /\ printed'[j] = printed[j]
        BY <2>2, <2>10, <4>1
      <4> QED BY <1>1, <4>1, <4>2 DEF Ahead, Beyond
    <3> QED BY <3>1, <3>2
  <2>8. TailComplete'
    <3>1. SUFFICES ASSUME seen = age
                   PROVE  /\ offset' <= Len(tailFile)
                          /\ \A i \in DOMAIN tailFile :
                               i <= offset' => tailFile[i] \in ToSet(printed') \cup skipped'
      BY <1>1 DEF TailComplete
    <3>2. offset <= Len(tailFile) /\ offset' = Len(tailFile)
      BY <1>1, <1>4, <2>1, <2>6, <3>1 DEF TailInv, TailComplete
    <3>3. ASSUME NEW i \in DOMAIN tailFile
          PROVE  tailFile[i] \in ToSet(printed') \cup skipped'
      <4>1. CASE i <= offset
        <5>1. tailFile[i] \in ToSet(printed) \cup skipped
          BY <1>1, <3>1, <4>1 DEF TailInv, TailComplete
        <5> QED BY <1>4, <2>2, <5>1 DEF ToSet
      <4>2. CASE i > offset
        <5>1. i - offset \in DOMAIN new /\ new[i - offset] = tailFile[i]
          <6>1. i - offset \in 1 .. Len(new) /\ (i - offset) + offset = i
            BY <2>1, <2>6, <3>2, <4>2
          <6> QED BY <2>1, <6>1
        <5> DEFINE k == i - offset
        <5>2. k \in 1 .. Len(new) /\ new[k] = tailFile[i]
          BY <2>1, <5>1
        <5> HIDE DEF k
        <5>4. CASE k > n
          BY <1>4, <2>10, <5>2, <5>4
        <5>5. CASE ~(k > n)
          <6>1. /\ k + Len(printed) \in DOMAIN printed' \ DOMAIN printed
                /\ (k + Len(printed)) - Len(printed) = k /\ part[k] = new[k]
            BY <2>2, <2>10, <5>2, <5>5
          <6> QED BY <2>2, <5>2, <6>1 DEF ToSet
        <5> QED BY <5>4, <5>5
      <4> QED BY <2>6, <4>1, <4>2
    <3> QED BY <3>2, <3>3, <2>6
  <2>9. offset' \in Nat
    BY <1>4, <2>2, <2>6
  <2> QED BY <1>1, <1>2, <2>3, <2>5, <2>7, <2>8, <2>9 DEF TailInv, TailShapes
<1> QED BY <1>3, <1>4, <1>5

LEMMA TailStutter == ASSUME TailInv, UNCHANGED tailVars PROVE TailInv'
<1>1. UNCHANGED <<tailFile, written, offset, printed, spot, skipped, age, seen>>
  BY DEF tailVars
<1> QED BY <1>1 DEF TailInv, TailShapes, Numbered, Ascending, Ahead, Beyond, TailComplete

(* However writes, emptyings and looks interleave with the readings, tail  *)
(* -f prints each byte once and in order, and between two looks, while no  *)
(* emptying went unnoticed, nothing before its offset is missing, but for  *)
(* what was there before it followed or stdout did not take.               *)
THEOREM FollowIsCompleteTheorem ==
  TailInit /\ [][TailNext]_tailVars => []FollowIsComplete
<1>1. TailInv /\ [TailNext]_tailVars => TailInv'
  BY WriteStep, EmptyStep, PrintLastStep, TakeLengthStep, LookStep, FollowStep, TailStutter
     DEF TailNext
<1>2. TailInv => FollowIsComplete
  BY DEF TailInv, TailShapes, Ascending, TailComplete, FollowIsComplete
<1> QED BY TailInitInv, <1>1, <1>2, PTL

-----------------------------------------------------------------------------
(* ss and lsof -i.  A socket that was open all the time is listed already, *)
(* or its table is still to be read, or was lost, or what the code makes   *)
(* of the options turns it down.                                           *)

TableSet == {"tcp", "udp"} \X {4, 6}

(* The tables that are read for the list, and a command that only counts.  *)
Offered == IF query.tool = "lsof" THEN LsofTables ELSE Tables(Flag("u") \/ Flag("a"))
OnlySummary == query.tool # "lsof" /\ Flag("s") /\ query.flags \cap {"t", "u", "a", "l"} = {}

(* What the code reads no table for, or filters out.                       *)
TurnedDown(s) ==
  IF query.tool = "lsof"
  THEN s.ip = 6 \/ (query.pids # {} /\ s.pid \notin query.pids)
  ELSE \/ s.ip = 4 /\ Flag("6")
       \/ s.ip = 6 /\ Flag("4")
       \/ s.proto = "udp" /\ ~Flag("u") /\ ~Flag("a")
       \/ s.proto = "tcp" /\ \/ ~Flag("a") /\ (Flag("l") <=> s.state # LISTEN)
                             \/ ~Flag("a") /\ s.state \in {1, 12}
                             \/ FilterState \notin {0, s.state}
       \/ FilterPort \notin {0, s.local, s.remote}

(* What was read was open, and a process keeps its name until it ends.     *)
SocketsSeen ==
  /\ stayed \subseteq open /\ open \subseteq ever /\ ever \subseteq SomeSockets
  /\ sockRows \subseteq ever
  /\ running = [p \in DOMAIN running |-> running[p]]
  /\ DOMAIN procs \subseteq DOMAIN running
  /\ \A p \in DOMAIN procs \ renamed : procs[p] = running[p]

SockPhase ==
  /\ sockStep \in {"begin", "read", "count", "filter", "names", "done"}
  /\ tables \in Seq(TableSet)
  /\ sockStep = "begin" => sockRows = {}
  /\ sockStep = "read" => ToSet(tables) \subseteq ToSet(Offered)
  /\ sockStep = "count" => query.tool = "ss" /\ Flag("s")

(* Rows come from the tables of the list, and those that are turned down   *)
(* are gone once they are filtered.                                        *)
RowsListed ==
  /\ \A s \in sockRows : Table(s) \in ToSet(Offered)
  /\ sockStep \in {"names", "done"} => \A s \in sockRows : ~TurnedDown(s)

(* No socket that was open all along is lost without a reason.             *)
StayedListed ==
  sockStep # "begin" /\ ~(sockStep = "done" /\ OnlySummary) =>
    \A s \in stayed : \/ s \in sockRows
                      \/ TurnedDown(s)
                      \/ Table(s) \in outgrown
                      \/ sockStep = "read" /\ Table(s) \in ToSet(tables)

SockInv == SocketsSeen /\ SockPhase /\ RowsListed /\ StayedListed

-----------------------------------------------------------------------------
(* Members of sequences, and of the lists of tables.                       *)
LEMMA ItemsOfConcat ==
  ASSUME NEW X, NEW s \in Seq(X), NEW t \in Seq(X)
  PROVE  s \o t \in Seq(X) /\ ToSet(s \o t) = ToSet(s) \cup ToSet(t)
<1>1. /\ Len(s) \in Nat /\ Len(t) \in Nat /\ s \o t \in Seq(X)
      /\ DOMAIN s = 1 .. Len(s) /\ DOMAIN t = 1 .. Len(t) /\ DOMAIN (s \o t) = 1 .. Len(s) + Len(t)
      /\ \A i \in 1 .. Len(s) + Len(t) :
           (s \o t)[i] = IF i <= Len(s) THEN s[i] ELSE t[i - Len(s)]
  OBVIOUS
<1>2. ASSUME NEW i \in DOMAIN (s \o t) PROVE (s \o t)[i] \in ToSet(s) \cup ToSet(t)
  <2>1. CASE i <= Len(s)
    BY <1>1, <2>1 DEF ToSet
  <2>2. CASE i > Len(s)
    <3>1. i - Len(s) \in DOMAIN t /\ (s \o t)[i] = t[i - Len(s)]
      BY <1>1, <2>2
    <3> QED BY <3>1 DEF ToSet
  <2> QED BY <1>1, <2>1, <2>2
<1>3. ASSUME NEW i \in DOMAIN s PROVE s[i] \in ToSet(s \o t)
  <2>1. i \in DOMAIN (s \o t) /\ (s \o t)[i] = s[i]
    BY <1>1
  <2> QED BY <2>1 DEF ToSet
<1>4. ASSUME NEW i \in DOMAIN t PROVE t[i] \in ToSet(s \o t)
  <2>1. i + Len(s) \in DOMAIN (s \o t) /\ (s \o t)[i + Len(s)] = t[i]
    BY <1>1
  <2> QED BY <2>1 DEF ToSet
<1>5. ToSet(s \o t) \subseteq ToSet(s) \cup ToSet(t)
  BY <1>2 DEF ToSet
<1>6. ToSet(s) \subseteq ToSet(s \o t) /\ ToSet(t) \subseteq ToSet(s \o t)
  BY <1>3, <1>4 DEF ToSet
<1> QED BY <1>1, <1>5, <1>6

LEMMA ItemsOfTail ==
  ASSUME NEW X, NEW s \in Seq(X), s # <<>>
  PROVE  Tail(s) \in Seq(X) /\ Head(s) \in ToSet(s) /\ ToSet(s) = {Head(s)} \cup ToSet(Tail(s))
<1>1. /\ Len(s) \in Nat \ {0} /\ DOMAIN s = 1 .. Len(s) /\ Tail(s) \in Seq(X) /\ Head(s) = s[1]
      /\ DOMAIN Tail(s) = 1 .. Len(s) - 1 /\ \A i \in 1 .. Len(s) - 1 : Tail(s)[i] = s[i + 1]
  OBVIOUS
<1>2. Head(s) \in ToSet(s)
  BY <1>1 DEF ToSet
<1>3. ASSUME NEW i \in DOMAIN s PROVE s[i] \in {Head(s)} \cup ToSet(Tail(s))
  <2>1. CASE i = 1
    BY <1>1, <2>1
  <2>2. CASE i # 1
    <3>1. i - 1 \in DOMAIN Tail(s) /\ Tail(s)[i - 1] = s[i]
      BY <1>1, <2>2
    <3> QED BY <3>1 DEF ToSet
  <2> QED BY <2>1, <2>2
<1>4. ASSUME NEW i \in DOMAIN Tail(s) PROVE Tail(s)[i] \in ToSet(s)
  <2>1. i + 1 \in DOMAIN s /\ Tail(s)[i] = s[i + 1]
    BY <1>1
  <2> QED BY <2>1 DEF ToSet
<1>5. ToSet(s) \subseteq {Head(s)} \cup ToSet(Tail(s)) /\ ToSet(Tail(s)) \subseteq ToSet(s)
  BY <1>3, <1>4 DEF ToSet
<1> QED BY <1>1, <1>2, <1>5

LEMMA SingleItem ==
  ASSUME NEW X, NEW a \in X
  PROVE  <<a>> \in Seq(X) /\ ToSet(<<a>>) = {a}
BY DEF ToSet

LEMMA NoItem == <<>> \in Seq(TableSet) /\ ToSet(<<>>) = {}
BY DEF ToSet

(* The tables of a command line, as a set.                                 *)
LEMMA TablesAsSet ==
  ASSUME NEW udp \in BOOLEAN
  PROVE  /\ Tables(udp) \in Seq(TableSet)
         /\ ToSet(Tables(udp)) =
              {t \in TableSet : /\ t[1] = "udp" => udp
                                /\ t[2] = 4 => ~Flag("6")
                                /\ t[2] = 6 => ~Flag("4")}
<1> DEFINE part(proto, ip, flag) == IF Flag(flag) THEN <<>> ELSE <<<<proto, ip>>>>
           of(proto) == part(proto, 4, "6") \o part(proto, 6, "4")
<1>1. ASSUME NEW proto \in {"tcp", "udp"}, NEW ip \in {4, 6}, NEW flag \in {"4", "6"}
      PROVE  /\ part(proto, ip, flag) \in Seq(TableSet)
             /\ ToSet(part(proto, ip, flag)) = IF Flag(flag) THEN {} ELSE {<<proto, ip>>}
  <2>1. <<proto, ip>> \in TableSet
    BY DEF TableSet
  <2> QED BY <2>1, NoItem, SingleItem
<1> HIDE DEF part
<1>2. ASSUME NEW proto \in {"tcp", "udp"}
      PROVE  /\ of(proto) \in Seq(TableSet)
             /\ ToSet(of(proto)) = {t \in TableSet : /\ t[1] = proto
                                                     /\ t[2] = 4 => ~Flag("6")
                                                     /\ t[2] = 6 => ~Flag("4")}
  <2>1. /\ of(proto) \in Seq(TableSet)
        /\ ToSet(of(proto)) = ToSet(part(proto, 4, "6")) \cup ToSet(part(proto, 6, "4"))
    BY <1>1, ItemsOfConcat
  <2>2. /\ ToSet(part(proto, 4, "6")) = IF Flag("6") THEN {} ELSE {<<proto, 4>>}
        /\ ToSet(part(proto, 6, "4")) = IF Flag("4") THEN {} ELSE {<<proto, 6>>}
    BY <1>1
  <2> QED BY <2>1, <2>2 DEF TableSet
<1> HIDE DEF of
<1> DEFINE second == IF udp THEN of("udp") ELSE <<>>
<1>3. Tables(udp) = of("tcp") \o second
  BY DEF Tables, of, part
<1>4. second \in Seq(TableSet) /\ ToSet(second) = IF udp THEN ToSet(of("udp")) ELSE {}
  BY <1>2, NoItem
<1> HIDE DEF second
<1>5. /\ Tables(udp) \in Seq(TableSet)
      /\ ToSet(Tables(udp)) = ToSet(of("tcp")) \cup (IF udp THEN ToSet(of("udp")) ELSE {})
  BY <1>2, <1>3, <1>4, ItemsOfConcat
<1>6. /\ ToSet(of("tcp")) = {t \in TableSet : /\ t[1] = "tcp"
                                              /\ t[2] = 4 => ~Flag("6")
                                              /\ t[2] = 6 => ~Flag("4")}
      /\ ToSet(of("udp")) = {t \in TableSet : /\ t[1] = "udp"
                                              /\ t[2] = 4 => ~Flag("6")
                                              /\ t[2] = 6 => ~Flag("4")}
  BY <1>2
<1> QED BY <1>5, <1>6 DEF TableSet

(* A socket whose table is not read, or that a filter drops, is excluded;  *)
(* and one that is listed is not.                                          *)
LEMMA ListingAsSet ==
  /\ Offered \in Seq(TableSet)
  /\ \A s \in SomeSockets : Table(s) \in TableSet
  /\ query.tool = "lsof" =>
       \A s \in SomeSockets : Table(s) \in ToSet(Offered) <=> s.ip = 4
  /\ query.tool # "lsof" =>
       \A s \in SomeSockets :
         Table(s) \in ToSet(Offered) <=> /\ s.proto = "udp" => Flag("u") \/ Flag("a")
                                         /\ s.ip = 4 => ~Flag("6")
                                         /\ s.ip = 6 => ~Flag("4")
<1>1. \A s \in SomeSockets : Table(s) \in TableSet /\ Table(s)[1] = s.proto /\ Table(s)[2] = s.ip
  BY SocketAssumption DEF Table, TableSet
<1>2. CASE query.tool = "lsof"
  <2>1. LsofTables \in Seq(TableSet) /\ ToSet(LsofTables) = {<<"tcp", 4>>, <<"udp", 4>>}
    BY DEF LsofTables, ToSet, TableSet
  <2>2. \A s \in SomeSockets : Table(s) \in {<<"tcp", 4>>, <<"udp", 4>>} <=> s.ip = 4
    BY SocketAssumption DEF Table
  <2> QED BY <1>1, <1>2, <2>1, <2>2 DEF Offered
<1>3. CASE query.tool # "lsof"
  <2> DEFINE udp == Flag("u") \/ Flag("a")
  <2>1. udp \in BOOLEAN /\ Offered = Tables(udp)
    BY <1>3 DEF Offered
  <2> HIDE DEF udp
  <2>2. /\ Offered \in Seq(TableSet)
        /\ ToSet(Offered) =
             {t \in TableSet : /\ t[1] = "udp" => udp
                               /\ t[2] = 4 => ~Flag("6")
                               /\ t[2] = 6 => ~Flag("4")}
    BY <2>1, TablesAsSet
  <2> QED BY <1>1, <1>3, <2>2 DEF udp
<1> QED BY <1>2, <1>3

LEMMA UnreadIsTurnedDown ==
  ASSUME NEW s \in SomeSockets, Table(s) \notin ToSet(Offered)
  PROVE  TurnedDown(s)
BY ListingAsSet, SocketAssumption DEF TurnedDown

Kept(s) ==
  IF query.tool = "lsof" THEN query.pids # {} => s.pid \in query.pids
  ELSE PassesMode(s) /\ PassesState(s) /\ PassesPort(s)

LEMMA KeptIsNotTurnedDown ==
  ASSUME NEW s \in SomeSockets, Table(s) \in ToSet(Offered)
  PROVE  Kept(s) <=> ~TurnedDown(s)
<1>1. s.proto \in {"tcp", "udp"} /\ s.ip \in {4, 6}
  BY SocketAssumption
<1>2. CASE query.tool = "lsof"
  BY <1>1, <1>2, ListingAsSet DEF Kept, TurnedDown
<1>3. CASE query.tool # "lsof"
  <2>1. /\ s.proto = "udp" => Flag("u") \/ Flag("a")
        /\ s.ip = 4 => ~Flag("6")
        /\ s.ip = 6 => ~Flag("4")
    BY <1>3, ListingAsSet
  <2>2. PassesPort(s) <=> ~(FilterPort \notin {0, s.local, s.remote})
    BY DEF PassesPort
  <2>3. PassesState(s) <=> ~(s.proto = "tcp" /\ FilterState \notin {0, s.state})
    BY DEF PassesState
  <2>4. PassesMode(s) <=> ~(s.proto = "tcp" /\ \/ ~Flag("a") /\ (Flag("l") <=> s.state # LISTEN)
                                               \/ ~Flag("a") /\ s.state \in {1, 12})
    BY DEF PassesMode, AnyMode, NotShown, LISTEN, Flag
  <2> QED BY <1>1, <1>3, <2>1, <2>2, <2>3, <2>4 DEF Kept, TurnedDown
<1> QED BY <1>2, <1>3

-----------------------------------------------------------------------------
LEMMA SockInitInv ==
  ASSUME SockIdle, sockStep = "begin", open \subseteq SomeSockets,
         running = [p \in DOMAIN running |-> running[p]]
  PROVE  SockInv
BY NoItem DEF SockIdle, SockInv, SocketsSeen, SockPhase, RowsListed, StayedListed

(* Everything about the command line stays as it is.                       *)
LEMMA SameQuery ==
  ASSUME query' = query
  PROVE  /\ Offered' = Offered /\ (OnlySummary' <=> OnlySummary)
         /\ \A s \in SomeSockets : TurnedDown(s)' <=> TurnedDown(s)
BY DEF Offered, Tables, Flag, TurnedDown, FilterState, FilterPort, OnlySummary

LEMMA OpenStep == ASSUME SockInv, Open PROVE SockInv'
<1>1. PICK s \in SomeSockets : open' = open \cup {s} /\ ever' = ever \cup {s}
  BY DEF Open
<1>2. UNCHANGED <<running, query, tables, room, sockRows, counted, procs, sockStep, stayed,
                  outgrown, renamed>>
  BY DEF Open
<1>3. SocketsSeen' /\ SockPhase'
  BY <1>1, <1>2, SameQuery DEF SockInv, SocketsSeen, SockPhase, Flag
<1>4. RowsListed' /\ StayedListed'
  BY <1>2, SameQuery DEF SockInv, SocketsSeen, RowsListed, StayedListed, Table
<1> QED BY <1>3, <1>4 DEF SockInv

LEMMA CloseSocketStep == ASSUME SockInv, CloseSocket PROVE SockInv'
<1>1. PICK s \in open : open' = open \ {s} /\ stayed' = stayed \ {s}
  BY DEF CloseSocket
<1>2. UNCHANGED <<running, query, tables, room, sockRows, counted, procs, sockStep, ever,
                  outgrown, renamed>>
  BY DEF CloseSocket
<1>3. SocketsSeen' /\ SockPhase'
  BY <1>1, <1>2, SameQuery DEF SockInv, SocketsSeen, SockPhase, Flag
<1>4. RowsListed' /\ StayedListed'
  BY <1>1, <1>2, SameQuery DEF SockInv, SocketsSeen, RowsListed, StayedListed, Table
<1> QED BY <1>3, <1>4 DEF SockInv

LEMMA ReuseStep == ASSUME SockInv, Reuse PROVE SockInv'
<1>1. PICK p \in DOMAIN running, n \in Programs :
        running' = [running EXCEPT ![p] = n] /\ renamed' = renamed \cup {p}
  BY DEF Reuse
<1>2. UNCHANGED <<open, query, tables, room, sockRows, counted, procs, sockStep, ever, stayed,
                  outgrown>>
  BY DEF Reuse
<1>3. SocketsSeen'
  <2>1. DOMAIN running' = DOMAIN running /\ \A q \in DOMAIN running : q # p => running'[q] = running[q]
    BY <1>1
  <2>2. running' = [q \in DOMAIN running' |-> running'[q]]
    BY <1>1
  <2>3. \A q \in DOMAIN procs' \ renamed' : q \in DOMAIN procs \ renamed /\ q # p /\ q \in DOMAIN running
    BY <1>1, <1>2 DEF SockInv, SocketsSeen
  <2>4. \A q \in DOMAIN procs' \ renamed' : procs'[q] = running'[q]
    BY <1>2, <2>1, <2>3 DEF SockInv, SocketsSeen
  <2> QED BY <1>2, <2>1, <2>2, <2>4 DEF SockInv, SocketsSeen
<1>4. SockPhase' /\ RowsListed' /\ StayedListed'
  BY <1>2, SameQuery DEF SockInv, SocketsSeen, SockPhase, RowsListed, StayedListed, Table, Flag
<1> QED BY <1>3, <1>4 DEF SockInv

LEMMA BeginStep == ASSUME SockInv, BeginSockets PROVE SockInv'
<1>1. /\ sockStep = "begin" /\ sockStep' = "read" /\ tables' = Offered
      /\ procs' \in {procs, running}
      /\ UNCHANGED <<sockWorld, query, room, sockRows, counted, outgrown>>
  BY DEF BeginSockets, Offered
<1>2. SocketsSeen'
  BY <1>1 DEF SockInv, SocketsSeen, sockWorld
<1>3. SockPhase' /\ RowsListed'
  BY <1>1, SameQuery, ListingAsSet DEF SockInv, SockPhase, RowsListed
<1>4. StayedListed'
  BY <1>1, SameQuery, UnreadIsTurnedDown DEF SockInv, SocketsSeen, StayedListed, Table, sockWorld
<1> QED BY <1>2, <1>3, <1>4 DEF SockInv

LEMMA AskSizeStep == ASSUME SockInv, AskSize PROVE SockInv'
<1>1. UNCHANGED <<sockWorld, query, tables, sockRows, procs, sockStep, outgrown>>
  BY DEF AskSize
<1> QED BY <1>1, SameQuery DEF SockInv, SocketsSeen, SockPhase, RowsListed, StayedListed, Table, Flag, sockWorld

(* A table that is read lists the sockets that are in it, or has grown.    *)
LEMMA FetchStep == ASSUME SockInv, Fetch PROVE SockInv'
<1> DEFINE t == Head(tables)
<1>1. /\ tables # <<>> /\ tables' = Tail(tables) /\ sockStep \in {"read", "count"}
      /\ UNCHANGED <<sockWorld, query, procs, sockStep>>
  BY DEF Fetch
<1>2. /\ tables' \in Seq(TableSet) /\ t \in ToSet(tables) /\ ToSet(tables) = {t} \cup ToSet(tables')
  BY <1>1, ItemsOfTail DEF SockInv, SockPhase
<1>3. /\ outgrown \subseteq outgrown' /\ sockRows \subseteq sockRows'
      /\ sockRows' \subseteq sockRows \cup Rows(t)
      /\ sockStep # "read" => sockRows' = sockRows
      /\ sockStep = "read" => t \in outgrown' \/ Rows(t) \subseteq sockRows'
  BY DEF Fetch
<1> HIDE DEF t
<1>4. \A s \in Rows(t) : s \in open /\ Table(s) = t
  BY DEF Rows
<1>5. SocketsSeen'
  BY <1>1, <1>3, <1>4 DEF SockInv, SocketsSeen, sockWorld
<1>6. SockPhase'
  BY <1>1, <1>2, SameQuery DEF SockInv, SockPhase, Flag
<1>7. RowsListed'
  <2>1. \A s \in sockRows' : Table(s) \in ToSet(Offered)
    BY <1>1, <1>2, <1>3, <1>4 DEF SockInv, SockPhase, RowsListed
  <2> QED BY <1>1, <2>1, SameQuery DEF RowsListed, Table
<1>8. StayedListed'
  <2>1. SUFFICES ASSUME NEW s \in stayed
                 PROVE  \/ s \in sockRows' \/ TurnedDown(s) \/ Table(s) \in outgrown'
                        \/ sockStep = "read" /\ Table(s) \in ToSet(tables')
    BY <1>1, <1>5, SameQuery DEF StayedListed, Table, sockWorld, SocketsSeen
  <2>2. \/ s \in sockRows \/ TurnedDown(s) \/ Table(s) \in outgrown
        \/ sockStep = "read" /\ Table(s) \in ToSet(tables)
    BY <1>1 DEF SockInv, StayedListed
  <2>3. CASE sockStep = "read" /\ Table(s) = t
    <3>1. s \in Rows(t)
      BY <2>3 DEF SockInv, SocketsSeen, Rows
    <3> QED BY <1>3, <2>3, <3>1
  <2> QED BY <1>2, <1>3, <2>2, <2>3
<1> QED BY <1>5, <1>6, <1>7, <1>8 DEF SockInv

LEMMA SummariseStep == ASSUME SockInv, Summarise PROVE SockInv'
<1>1. /\ sockStep = "read" /\ tables = <<>> /\ query.tool = "ss" /\ Flag("s")
      /\ tables' = EveryTable /\ sockStep' = "count"
      /\ UNCHANGED <<sockWorld, query, room, sockRows, counted, procs, outgrown>>
  BY DEF Summarise
<1>2. EveryTable \in Seq(TableSet)
  BY DEF EveryTable, TableSet
<1>3. SocketsSeen' /\ SockPhase' /\ RowsListed'
  BY <1>1, <1>2, SameQuery DEF SockInv, SocketsSeen, SockPhase, RowsListed, Flag, Table, sockWorld
<1>4. StayedListed'
  BY <1>1, NoItem, SameQuery DEF SockInv, SocketsSeen, StayedListed, Table, sockWorld
<1> QED BY <1>3, <1>4 DEF SockInv

LEMMA CountedStep == ASSUME SockInv, Counted PROVE SockInv'
<1>1. /\ sockStep = "count" /\ tables = <<>> /\ query.tool = "ss" /\ Flag("s")
      /\ UNCHANGED <<sockWorld, query, tables, room, counted, procs, outgrown>>
      /\ \/ OnlySummary /\ sockRows' = {} /\ sockStep' = "done"
         \/ ~OnlySummary /\ sockRows' = sockRows /\ sockStep' = "filter"
  BY DEF Counted, SockInv, SockPhase, OnlySummary
<1>2. SocketsSeen' /\ SockPhase' /\ RowsListed'
  BY <1>1, SameQuery DEF SockInv, SocketsSeen, SockPhase, RowsListed, Table, sockWorld
<1>3. StayedListed'
  BY <1>1, SameQuery DEF SockInv, SocketsSeen, StayedListed, Table, sockWorld
<1> QED BY <1>2, <1>3 DEF SockInv

(* Only rows that an option excludes are dropped.                          *)
LEMMA FilterStep == ASSUME SockInv, Filter PROVE SockInv'
<1>1. /\ sockRows' = {s \in sockRows : Kept(s)}
      /\ (sockStep = "filter" \/ (sockStep = "read" /\ tables = <<>>))
      /\ sockStep' = "names"
      /\ UNCHANGED <<sockWorld, query, tables, room, counted, procs, outgrown>>
  BY DEF Filter, Kept
<1>2. \A s \in sockRows : s \in SomeSockets /\ Table(s) \in ToSet(Offered) /\ (Kept(s) <=> ~TurnedDown(s))
  BY KeptIsNotTurnedDown DEF SockInv, SocketsSeen, RowsListed
<1>3. SocketsSeen' /\ SockPhase' /\ RowsListed'
  BY <1>1, <1>2, SameQuery DEF SockInv, SocketsSeen, SockPhase, RowsListed, Table, sockWorld
<1>4. StayedListed'
  BY <1>1, <1>2, NoItem, SameQuery DEF SockInv, SocketsSeen, StayedListed, Table, sockWorld
<1> QED BY <1>3, <1>4 DEF SockInv

LEMMA NameStep == ASSUME SockInv, Name PROVE SockInv'
<1>1. /\ sockStep = "names" /\ sockStep' = "done" /\ procs' \in {procs, running}
      /\ UNCHANGED <<sockWorld, query, tables, room, sockRows, counted, outgrown>>
  BY DEF Name
<1>2. SocketsSeen'
  BY <1>1 DEF SockInv, SocketsSeen, sockWorld
<1>3. SockPhase' /\ RowsListed'
  BY <1>1, <1>2, SameQuery DEF SockInv, SocketsSeen, SockPhase, RowsListed, Table, sockWorld
<1>4. StayedListed'
  BY <1>1, SameQuery DEF SockInv, SocketsSeen, StayedListed, Table, sockWorld
<1> QED BY <1>2, <1>3, <1>4 DEF SockInv

LEMMA SockStutter == ASSUME SockInv, UNCHANGED sockVars PROVE SockInv'
<1>1. UNCHANGED <<open, running, query, tables, sockRows, procs, sockStep, ever, stayed,
                  outgrown, renamed>>
  BY DEF sockVars
<1> QED BY <1>1, SameQuery DEF SockInv, SocketsSeen, SockPhase, RowsListed, StayedListed, Table, Flag

(* What the code turns down is what the options exclude, but for what is   *)
(* known to be listed anyway or never.                                     *)
LEMMA TurnedDownIs ==
  ASSUME NEW s \in SomeSockets
  PROVE  /\ TurnedDown(s) => Excluded(s) \/ NeverListed(s)
         /\ ~TurnedDown(s) /\ Excluded(s) => ListedAnyway(s)
<1>1. s.proto \in {"tcp", "udp"} /\ s.ip \in {4, 6}
  BY SocketAssumption
<1>2. CASE query.tool = "lsof"
  BY <1>1, <1>2 DEF TurnedDown, Excluded, NeverListed, ListedAnyway, OtherProcess
<1>3. CASE query.tool # "lsof"
  <2> DEFINE state == query.state
             port == query.port
  <2>1. OtherFamily(s) <=> \/ s.ip = 4 /\ Flag("6")
                           \/ s.ip = 6 /\ Flag("4")
    BY <1>1 DEF OtherFamily
  <2>2. FilterState = IF state \in 2 .. 11 THEN state ELSE 0
    BY DEF FilterState
  <2>3. FilterPort = IF query.colon THEN port ELSE 0
    BY DEF FilterPort
  <2> HIDE DEF state, port
  <2>4. OtherState(s) <=> state # 0 /\ s.state # state
    BY DEF OtherState, state
  <2>5. /\ FilterPort \notin {0, s.local, s.remote} => OtherPort(s)
        /\ OtherPort(s) /\ FilterPort \in {0, s.local, s.remote} =>
             ~query.colon \/ query.port \in {s.local, s.remote}
    BY <2>3 DEF OtherPort, port
  <2>6. FilterState \notin {0, s.state} <=> OtherState(s) /\ state \in 2 .. 11
    BY <2>2, <2>4
  <2>7. NotInMode(s) <=> /\ s.proto = "tcp" /\ ~Flag("a")
                         /\ IF Flag("l") THEN s.state # 2 ELSE state = 0 /\ s.state \in {1, 2, 12}
    BY DEF NotInMode, NotShown, LISTEN, state
  <2>8. NeverListed(s) <=> /\ s.proto = "tcp" /\ state = s.state /\ s.state \in {1, 2, 12}
                           /\ ~Flag("a") /\ ~Flag("l")
    BY <1>3 DEF NeverListed, NotShown, LISTEN, state
  <2>9. OtherProtocol(s) <=> IF s.proto = "udp" THEN ~Flag("u") /\ (Flag("t") \/ ~Flag("a"))
                             ELSE Flag("u") /\ ~Flag("t")
    BY DEF OtherProtocol
  <2>10. Excluded(s) <=>
           OtherFamily(s) \/ OtherProtocol(s) \/ OtherState(s) \/ NotInMode(s) \/ OtherPort(s)
    BY <1>3 DEF Excluded
  <2>11. TurnedDown(s) <=>
           \/ OtherFamily(s)
           \/ s.proto = "udp" /\ ~Flag("u") /\ ~Flag("a")
           \/ s.proto = "tcp" /\ \/ ~Flag("a") /\ (Flag("l") <=> s.state # 2)
                                 \/ ~Flag("a") /\ s.state \in {1, 12}
                                 \/ FilterState \notin {0, s.state}
           \/ FilterPort \notin {0, s.local, s.remote}
    BY <1>3, <2>1 DEF TurnedDown, LISTEN
  <2>12. ListedAnyway(s) <=>
           /\ ~OtherFamily(s) /\ ~NotInMode(s)
           /\ OtherProtocol(s) => s.proto = "tcp" \/ Flag("a")
           /\ OtherState(s) => s.proto = "udp" \/ state \notin 2 .. 11
           /\ OtherPort(s) => ~query.colon \/ query.port \in {s.local, s.remote}
    BY <1>3 DEF ListedAnyway, state
  <2>13. TurnedDown(s) => Excluded(s) \/ NeverListed(s)
    BY <1>1, <2>4, <2>5, <2>6, <2>7, <2>8, <2>9, <2>10, <2>11
  <2>14. ~TurnedDown(s) /\ Excluded(s) => ListedAnyway(s)
    BY <1>1, <2>4, <2>5, <2>6, <2>7, <2>9, <2>11, <2>12
  <2> QED BY <2>13, <2>14
<1> QED BY <1>2, <1>3

(* However sockets come and go while the tables are read one after the     *)
(* other, ss and lsof -i show no row that was never open, and none that the*)
(* options exclude but for what ListedAnyway names; miss no socket that    *)
(* stayed open but for what NeverListed names, or with its whole table; and*)
(* name the program of a row as long as its pid was not used again.        *)
THEOREM SocketsAreTrueTheorem ==
  /\ SockIdle /\ sockStep = "begin" /\ open \subseteq SomeSockets
  /\ running = [p \in DOMAIN running |-> running[p]]
  /\ [][SockNext]_sockVars
  => []SocketsAreTrue
<1>1. SockInv /\ [SockNext]_sockVars => SockInv'
  BY OpenStep, CloseSocketStep, ReuseStep, BeginStep, AskSizeStep, FetchStep, SummariseStep,
     CountedStep, FilterStep, NameStep, SockStutter
  DEF SockNext
<1>2. SockInv => SocketsAreTrue
  <2>1. SockInv => \A s \in sockRows \cup stayed : s \in SomeSockets
    BY DEF SockInv, SocketsSeen
  <2>2. SockInv /\ sockStep = "done" => \A s \in sockRows : Excluded(s) => ListedAnyway(s)
    BY <2>1, TurnedDownIs DEF SockInv, RowsListed
  <2>3. SockInv /\ sockStep = "done" /\ ~OnlySummary =>
          \A s \in stayed : s \in sockRows \/ Excluded(s) \/ NeverListed(s) \/ Table(s) \in outgrown
    BY <2>1, TurnedDownIs DEF SockInv, StayedListed
  <2> QED BY <2>2, <2>3 DEF SockInv, SocketsSeen, OnlySummary, SocketsAreTrue
<1> QED BY SockInitInv, <1>1, <1>2, PTL

-----------------------------------------------------------------------------
(* htop, top, iotop, iptop.  A rate is the difference of two counts read   *)
(* under one pid, and pids are used again: the invariant says that a row of*)
(* the last reading whose process could be opened holds no less than the   *)
(* count with which the process that has the pid now began, so that only a *)
(* row that could not be opened can make the difference greater.           *)

KnownCount(p) == world[p].life \in {"none", "shut", "open"} /\ world[p].count \in Nat

HasTables == "procs" \in DOMAIN app /\ "links" \in DOMAIN app /\ (prog # "iptop" => app.links = {})

Counts ==
  /\ prog \in {"htop", "top", "iotop", "iptop"}
  /\ DOMAIN world = Pids /\ DOMAIN since = Pids
  /\ \A p \in Pids : KnownCount(p) /\ since[p] \in Nat /\ (Alive(p) => since[p] <= world[p].count)

(* A row that could be read says no less than what the process of the pid  *)
(* had counted when it began.                                              *)
OldRows ==
  \A old \in prev :
    /\ old.pid \in Pids /\ old.count \in Nat /\ old.open \in BOOLEAN
    /\ old.open => old.count >= since[old.pid]

MonInv == HasTables /\ Counts /\ OldRows

(* What a table shows of a process.                                        *)
Fair(r) ==
  \/ r.rate <= world[r.pid].count - since[r.pid]
  \/ \E old \in prev : old.pid = r.pid /\ ~old.open

LEMMA RowOf ==
  ASSUME Counts, NEW p \in Pids, NEW rate
  PROVE  /\ Row(p, rate).pid = p /\ Row(p, rate).rate = rate
         /\ Row(p, rate).count \in Nat /\ Row(p, rate).count <= world[p].count
         /\ Row(p, rate).open \in BOOLEAN
         /\ Row(p, rate).open => Row(p, rate).count = world[p].count
<1>1. world[p].count \in Nat
  BY DEF Counts, KnownCount
<1>2. CASE world[p].life = "open"
  BY <1>1, <1>2 DEF Row
<1>3. CASE world[p].life # "open"
  <2>1. (world[p].life = "open") = FALSE
    BY <1>3
  <2>2. Row(p, rate) = [pid |-> p, rate |-> rate, open |-> FALSE, count |-> 0]
    BY <1>3, <2>1, Zenon DEF Row
  <2> QED BY <1>1, <2>2
<1> QED BY <1>2, <1>3

LEMMA RateIsFair ==
  ASSUME MonInv, NEW p \in Pids, Alive(p)
  PROVE  Fair(Row(p, Rate(p, prev))) /\ Fair(Row(p, 0))
<1>0. Counts
  BY DEF MonInv
<1>1. Row(p, 0).count \in Nat /\ Row(p, 0).count <= world[p].count
  BY <1>0, RowOf
<1>2. world[p].count \in Nat /\ since[p] \in Nat /\ since[p] <= world[p].count
  BY DEF MonInv, Counts, KnownCount
<1>3. Fair(Row(p, 0))
  BY <1>0, <1>2, RowOf DEF Fair
<1> DEFINE same == {r \in prev : r.pid = p}
<1>4. CASE same = {}
  <2>1. Rate(p, prev) = 0
    BY <1>4 DEF Rate
  <2> QED BY <1>3, <2>1
<1>5. CASE same # {}
  <2> DEFINE old == CHOOSE r \in same : TRUE
  <2>1. old \in prev /\ old.pid = p
    BY <1>5
  <2>2. Rate(p, prev) = Sub(Row(p, 0).count, old.count)
    BY <1>5 DEF Rate
  <2>3. old.count \in Nat /\ old.open \in BOOLEAN /\ (old.open => old.count >= since[p])
    BY <2>1 DEF MonInv, OldRows
  <2> HIDE DEF old
  <2>4. CASE ~old.open
    BY <1>0, <1>3, <2>1, <2>4, RowOf DEF Fair
  <2>5. CASE old.open
    <3>1. Rate(p, prev) <= world[p].count - since[p]
      BY <1>1, <1>2, <2>2, <2>3, <2>5 DEF Sub
    <3> QED BY <1>0, <1>3, <3>1, RowOf DEF Fair
  <2> QED BY <2>3, <2>4, <2>5
<1> QED BY <1>3, <1>4, <1>5

LEMMA WorldStep == MonInv /\ World => MonInv'
<1> SUFFICES ASSUME MonInv, NEW p \in Pids, Works(p) \/ Ends(p) \/ Begins(p) \/ Opens(p)
             PROVE  MonInv'
  BY DEF World
<1>1. UNCHANGED <<prog, app, prev>>
  BY DEF Works, Ends, Begins, Opens, Inside
<1>2. HasTables'
  BY <1>1 DEF MonInv, HasTables
<1>3. Counts'
  <2> USE <1>1 DEF MonInv, Counts, KnownCount, Alive
  <2>1. CASE Works(p)
    BY <2>1 DEF Works
  <2>2. CASE Ends(p)
    BY <2>2 DEF Ends, Absent
  <2>3. CASE Begins(p)
    BY <2>3 DEF Begins
  <2>4. CASE Opens(p)
    BY <2>4 DEF Opens
  <2> QED BY <2>1, <2>2, <2>3, <2>4
<1>4. OldRows'
  BY <1>1 DEF MonInv, OldRows, Counts, Works, Ends, Begins, Opens
<1> QED BY <1>2, <1>3, <1>4 DEF MonInv

LEMMA KeysKeep ==
  ASSUME MonInv, NEW a \in Keys(app)
  PROVE  /\ "procs" \in DOMAIN a /\ "links" \in DOMAIN a
         /\ a.links = app.links
<1>1. \/ a \in FilterKey(app) \/ a \in Search(app) \/ a \in Sorts(app, {"rate", "pid", "time"})
      \/ a \in TurnOrder(app) \/ a \in Scrolls(app) \/ a \in Toggle(app)
  BY DEF MonInv, Counts, Keys, HtopKey, TopKey, IotopKey, IptopKey, Sorts
<1> QED BY <1>1 DEF MonInv, HasTables, FilterKey, Search, Sorts, TurnOrder, Scrolls, Toggle

(* What changes only the picture, the terminal or a process that is ended. *)
LEMMA SameScreen ==
  ASSUME MonInv, UNCHANGED <<prog, prev, since>>, HasTables',
         world' = world \/ \E p \in Pids : Kill(p)
  PROVE  MonInv'
<1>1. Counts'
  BY DEF MonInv, Counts, KnownCount, Alive, Absent, Kill
<1>2. OldRows'
  BY DEF MonInv, OldRows
<1> QED BY <1>1, <1>2 DEF MonInv

LEMMA OtherStep ==
  ASSUME MonInv, KeyStep \/ ResizeStep \/ PromptStep \/ Leave \/ UNCHANGED monitorVars
  PROVE  MonInv'
<1>1. CASE KeyStep
  BY <1>1, KeysKeep, SameScreen DEF KeyStep, Show, outside, MonInv, HasTables
<1>2. CASE ResizeStep
  BY <1>2, SameScreen DEF ResizeStep, Show, MonInv, HasTables
<1>3. CASE PromptStep
  BY <1>3, SameScreen DEF PromptStep, OpenPrompt, PromptResize, Show, outside, MonInv, HasTables
<1>4. CASE Leave \/ UNCHANGED monitorVars
  BY <1>4, SameScreen DEF Leave, monitorVars, outside, MonInv, HasTables
<1> QED BY <1>1, <1>2, <1>3, <1>4

LEMMA Shown ==
  ASSUME MonInv, ReadStep
  PROVE  /\ ToSet(app'.procs) = Listing /\ HasTables'
         /\ app'.links = IF prog = "iptop" THEN IptopInterfaces ELSE {}
<1>1. PICK sorted \in Orders(Listing) : app' = Refresh(app, sorted)
  BY DEF ReadStep, Show
<1>2. ToSet(sorted) = Listing
  BY DEF Orders
<1>3. /\ "procs" \in DOMAIN app' /\ "links" \in DOMAIN app' /\ app'.procs = sorted
      /\ app'.links = IF prog = "iptop" THEN IptopInterfaces ELSE app.links
  <2>1. CASE prog = "iptop"
    BY <1>1, <2>1 DEF Refresh, IptopRefresh, MonInv, HasTables
  <2>2. CASE prog # "iptop"
    BY <1>1, <2>2
    DEF Refresh, HtopRefresh, TopRefresh, IotopRefresh, Clamped, MonInv, Counts, HasTables
  <2> QED BY <2>1, <2>2
<1>4. prog' = prog
  BY DEF ReadStep
<1> QED BY <1>2, <1>3, <1>4 DEF MonInv, HasTables

(* Every row of a table is that of a process that is there, at its rate.   *)
LEMMA ListingRows ==
  ASSUME MonInv, NEW r \in Listing \cup IptopInterfaces
  PROVE  \E p \in Pids : Alive(p) /\ (r = Row(p, 0) \/ r = Row(p, Rate(p, prev)))
BY DEF MonInv, Counts, Listing, HtopRates, TopRates, IotopRates, IptopConnections, IptopInterfaces,
       HtopSnapshot, TopSnapshot, IotopSnapshot, Rated, Alive

LEMMA ReadingStep ==
  ASSUME MonInv, ReadStep
  PROVE  /\ MonInv'
         /\ \A r \in ToSet(app'.procs) \cup app'.links : Fair(r)
<1>1. \A r \in ToSet(app'.procs) \cup app'.links : r \in Listing \cup IptopInterfaces
  BY Shown
<1>2. ASSUME NEW r \in ToSet(app'.procs) \cup app'.links
      PROVE  Fair(r)
  BY <1>1, ListingRows, RateIsFair
<1>3. /\ UNCHANGED <<prog, world>> /\ since' = [p \in Pids |-> world[p].count]
      /\ \A r \in prev' : r \in Listing \cup IptopInterfaces
  BY Shown DEF ReadStep, ThisReading
<1>4. Counts'
  BY <1>3 DEF MonInv, Counts, KnownCount, Alive
<1>5. OldRows'
  <2> SUFFICES ASSUME NEW r \in prev'
               PROVE  /\ r.pid \in Pids /\ r.count \in Nat /\ r.open \in BOOLEAN
                      /\ r.open => r.count >= since'[r.pid]
    BY DEF OldRows
  <2>1. PICK p \in Pids : r = Row(p, 0) \/ r = Row(p, Rate(p, prev))
    BY <1>3, ListingRows
  <2>2. /\ r.pid = p /\ r.count \in Nat /\ r.open \in BOOLEAN
        /\ r.open => r.count = world[p].count
    BY <2>1, RowOf DEF MonInv
  <2> QED BY <1>3, <2>2
<1> QED BY <1>2, <1>4, <1>5, Shown DEF MonInv

LEMMA MonInitInv == MonitorInit => MonInv
<1> SUFFICES ASSUME MonitorInit PROVE MonInv
  OBVIOUS
<1>1. Counts
  BY DEF MonitorInit, Counts, KnownCount, Alive, Absent
<1>2. HasTables
  BY DEF MonitorInit, HasTables, HtopStart
<1>3. OldRows
  <2> SUFFICES ASSUME NEW r \in prev
               PROVE  /\ r.pid \in Pids /\ r.count \in Nat /\ r.open \in BOOLEAN
                      /\ r.open => r.count >= since[r.pid]
    BY DEF OldRows
  <2>1. PICK p \in Pids : r = Row(p, 0)
    BY DEF MonitorInit
  <2> QED BY <1>1, <2>1, RowOf DEF MonitorInit, Counts
<1> QED BY <1>1, <1>2, <1>3 DEF MonInv

(* No reading shows a process a rate above what it did since it began,     *)
(* unless the reading before could not open a process of its pid: counters *)
(* of a process that is gone are never charged to the next one of its pid. *)
THEOREM NoSpikeTheorem == MonitorInit /\ [][MonitorNext]_monitorVars => NoSpike
<1>1. MonInv /\ [MonitorNext]_monitorVars =>
        MonInv' /\ [ReadStep => \A r \in ToSet(app'.procs) \cup app'.links :
                      \/ r.rate <= world[r.pid].count - since[r.pid]
                      \/ \E old \in prev : old.pid = r.pid /\ ~old.open]_monitorVars
  BY WorldStep, OtherStep, ReadingStep DEF MonitorNext, Fair
<1> QED BY MonInitInv, <1>1, PTL DEF NoSpike

-----------------------------------------------------------------------------
(* Sorted() puts the rows into an order.  The places that are to come      *)
(* before i, and i itself, are more for a later place: so no two have as   *)
(* many, and every number up to that of the places is reached.             *)

Keyed(key) ==
  /\ DOMAIN key \subseteq Nat /\ IsFiniteSet(DOMAIN key)
  /\ key \in [DOMAIN key -> Int \X Int]
Stand(key, i) == Cardinality(UpTo(key, i))
First(key, i, j) == Lesser(key[i], key[j]) \/ (key[i] = key[j] /\ i < j)

LEMMA LesserIsOrder ==
  ASSUME NEW k \in Int \X Int, NEW l \in Int \X Int, NEW m \in Int \X Int
  PROVE  /\ ~Lesser(k, k)
         /\ Lesser(k, l) \/ Lesser(l, k) \/ k = l
         /\ ~(Lesser(k, l) /\ Lesser(l, k))
         /\ Lesser(k, l) /\ Lesser(l, m) => Lesser(k, m)
BY DEF Lesser

LEMMA StandsBefore ==
  ASSUME NEW key, Keyed(key), NEW i \in DOMAIN key, NEW j \in DOMAIN key, First(key, i, j)
  PROVE  Stand(key, i) < Stand(key, j)
<1> DEFINE D == DOMAIN key
<1>1. \A x \in D : x \in Nat /\ key[x] \in Int \X Int
  BY DEF Keyed
<1>2. UpTo(key, i) \subseteq UpTo(key, j)
  <2> SUFFICES ASSUME NEW x \in UpTo(key, i) PROVE x \in UpTo(key, j)
    OBVIOUS
  <2>1. x \in D /\ (Lesser(key[x], key[i]) \/ (key[x] = key[i] /\ x <= i))
    BY DEF UpTo
  <2>2. Lesser(key[x], key[i]) /\ Lesser(key[i], key[j]) => Lesser(key[x], key[j])
    BY <1>1, <2>1, LesserIsOrder
  <2>3. Lesser(key[x], key[j]) \/ (key[x] = key[j] /\ x <= j)
    BY <1>1, <2>1, <2>2 DEF First
  <2> QED BY <2>1, <2>3 DEF UpTo
<1>3. j \in UpTo(key, j) /\ j \notin UpTo(key, i)
  <2>1. key[j] = key[j] /\ j <= j
    BY <1>1
  <2>2. ~(Lesser(key[j], key[i]) \/ (key[j] = key[i] /\ j <= i))
    BY <1>1, LesserIsOrder DEF First
  <2> QED BY <2>1, <2>2 DEF UpTo
<1>4. IsFiniteSet(UpTo(key, j)) /\ UpTo(key, i) # UpTo(key, j)
  <2>1. UpTo(key, j) \in SUBSET D
    BY DEF UpTo
  <2> QED BY <1>3, <2>1, FS_Subset DEF Keyed
<1>5. /\ Cardinality(UpTo(key, i)) <= Cardinality(UpTo(key, j))
      /\ Cardinality(UpTo(key, i)) # Cardinality(UpTo(key, j))
      /\ IsFiniteSet(UpTo(key, i))
  <2> HIDE DEF D
  <2> QED BY <1>2, <1>4, FS_Subset
<1>6. Cardinality(UpTo(key, i)) \in Nat /\ Cardinality(UpTo(key, j)) \in Nat
  BY <1>4, <1>5, FS_CardinalityType
<1> QED BY <1>5, <1>6 DEF Stand

LEMMA OneIsFirst ==
  ASSUME NEW key, Keyed(key), NEW i \in DOMAIN key, NEW j \in DOMAIN key
  PROVE  i = j \/ First(key, i, j) \/ First(key, j, i)
<1>1. i \in Nat /\ j \in Nat /\ key[i] \in Int \X Int /\ key[j] \in Int \X Int
  BY DEF Keyed
<1> QED BY <1>1, LesserIsOrder DEF First

LEMMA StandIsPlace ==
  ASSUME NEW key, Keyed(key), NEW i \in DOMAIN key
  PROVE  Stand(key, i) \in 1 .. Cardinality(DOMAIN key)
<1>1. UpTo(key, i) \in SUBSET DOMAIN key /\ i \in UpTo(key, i)
  BY DEF UpTo, Keyed
<1>2. /\ IsFiniteSet(UpTo(key, i)) /\ Cardinality(UpTo(key, i)) <= Cardinality(DOMAIN key)
      /\ Cardinality(DOMAIN key) \in Nat
  BY <1>1, FS_Subset, FS_CardinalityType DEF Keyed
<1>3. Cardinality(UpTo(key, i)) \in Nat /\ Cardinality(UpTo(key, i)) # 0
  BY <1>1, <1>2, FS_CardinalityType, FS_EmptySet
<1> QED BY <1>2, <1>3 DEF Stand

LEMMA EveryPlaceTaken ==
  ASSUME NEW key, Keyed(key), NEW n \in 1 .. Cardinality(DOMAIN key)
  PROVE  \E i \in DOMAIN key : Stand(key, i) = n
<1> DEFINE D == DOMAIN key
           N == Cardinality(D)
           f == [i \in D |-> Stand(key, i)]
<1>1. IsFiniteSet(D) /\ N \in Nat
  BY FS_CardinalityType DEF Keyed
<1>2. f \in [D -> 1 .. N]
  BY StandIsPlace
<1>3. \A i, j \in D : f[i] = f[j] => i = j
  <2> SUFFICES ASSUME NEW i \in D, NEW j \in D, Stand(key, i) = Stand(key, j), i # j PROVE FALSE
    OBVIOUS
  <2>1. Stand(key, i) \in Int /\ Stand(key, j) \in Int
    BY StandIsPlace
  <2> QED BY <2>1, OneIsFirst, StandsBefore
<1>4. f \in Injection(D, 1 .. N)
  <2> HIDE DEF f
  <2> QED BY <1>2, <1>3 DEF Injection, IsInjective
<1>5. IsFiniteSet(1 .. N) /\ Cardinality(1 .. N) = N
  <2> HIDE DEF N
  <2> QED BY <1>1, FS_Interval
<1>6. f \in Surjection(D, 1 .. N)
  <2> HIDE DEF f
  <2> QED BY <1>4, <1>5, FS_Injection
<1>7. \E i \in D : f[i] = n
  <2> HIDE DEF f
  <2> QED BY <1>6 DEF Surjection
<1> QED BY <1>7

(* What is at the n-th place of the sorted list, and where a row is in it. *)
LEMMA SortedAt ==
  ASSUME NEW entries, NEW key, Keyed(key), NEW n \in 1 .. Cardinality(DOMAIN key)
  PROVE  \E i \in DOMAIN key : Stand(key, i) = n /\ Sorted(entries, key)[n] = entries[i]
<1> DEFINE at == CHOOSE i \in DOMAIN key : Cardinality(UpTo(key, i)) = n
<1>1. at \in DOMAIN key /\ Stand(key, at) = n
  BY EveryPlaceTaken DEF Stand
<1>2. Sorted(entries, key)[n] = entries[at]
  BY DEF Sorted
<1> QED BY <1>1, <1>2

-----------------------------------------------------------------------------
(* What is drawn is a stretch of the sorted rows, from some place on.      *)
Stretch(view, entries, key, from) ==
  /\ from \in Nat /\ Len(view) \in Nat /\ DOMAIN view = 1 .. Len(view)
  /\ from + Len(view) <= Cardinality(DOMAIN key)
  /\ \A k \in DOMAIN view : \E i \in DOMAIN key : Stand(key, i) = from + k /\ view[k] = entries[i]

LEMMA WindowIsStretch ==
  ASSUME NEW entries, NEW key, Keyed(key), DOMAIN key # {}, NEW scroll \in Nat, NEW space \in Nat,
         NEW list, list = Sorted(entries, key), NEW view,
         view = Window(list, Pages(scroll, Len(list)), space)
  PROVE  /\ Stretch(view, entries, key, Pages(scroll, Cardinality(DOMAIN key)))
         /\ Pages(scroll, Cardinality(DOMAIN key)) < Cardinality(DOMAIN key)
         /\ Len(view) =
              Least(space, Cardinality(DOMAIN key) - Pages(scroll, Cardinality(DOMAIN key)))
<1> DEFINE N == Cardinality(DOMAIN key)
<1>1. N \in Nat /\ N # 0
  BY FS_CardinalityType, FS_EmptySet DEF Keyed
<1>2. DOMAIN list = 1 .. N
  BY DEF Sorted
<1>3. Len(list) = N
  BY <1>1, <1>2
<1> DEFINE from == Pages(scroll, N)
           end == Least(from + space, N)
<1>4. from \in Nat /\ from < N
  BY <1>1 DEF Pages, Sub, Least
<1>5. end \in Nat /\ from <= end /\ end <= N /\ end - from = Least(space, N - from)
  BY <1>1, <1>4 DEF Least
<1>6. view = SubSeq(list, from + 1, end)
  BY <1>3 DEF Window
<1>7. \A n \in 1 .. N : \E i \in DOMAIN key : Stand(key, i) = n /\ list[n] = entries[i]
  BY SortedAt
<1> HIDE DEF N, from, end
<1> DEFINE S == {list[n] : n \in 1 .. N}
<1>8. /\ view \in Seq(S) /\ Len(view) = end - from
      /\ \A k \in 1 .. end - from : view[k] = list[from + k]
  <2>1. \A n \in from + 1 .. end : list[n] \in S
    BY <1>1, <1>4, <1>5
  <2> HIDE DEF S
  <2>2. /\ view \in Seq(S)
        /\ Len(view) = IF from + 1 <= end THEN end - (from + 1) + 1 ELSE 0
        /\ \A i \in 1 .. end - (from + 1) + 1 : view[i] = list[from + 1 + i - 1]
    BY <2>1, <1>4, <1>5, <1>6, SubSeqProperties
  <2>3. end - (from + 1) + 1 = end - from /\ \A i \in 1 .. end - from : from + 1 + i - 1 = from + i
    BY <1>4, <1>5
  <2> QED BY <1>4, <1>5, <2>2, <2>3
<1>9. DOMAIN view = 1 .. Len(view)
  BY <1>8
<1>10. \A k \in DOMAIN view : \E i \in DOMAIN key : Stand(key, i) = from + k /\ view[k] = entries[i]
  <2> SUFFICES ASSUME NEW k \in 1 .. end - from
               PROVE  \E i \in DOMAIN key : Stand(key, i) = from + k /\ view[k] = entries[i]
    BY <1>8, <1>9
  <2>1. from + k \in 1 .. N
    BY <1>1, <1>4, <1>5
  <2>2. PICK i \in DOMAIN key : Stand(key, i) = from + k /\ list[from + k] = entries[i]
    BY <1>7, <2>1
  <2>3. view[k] = list[from + k]
    BY <1>8
  <2> QED BY <2>2, <2>3
<1>11. Stretch(view, entries, key, from)
  BY <1>1, <1>4, <1>5, <1>8, <1>9, <1>10 DEF Stretch, N
<1> QED BY <1>4, <1>5, <1>8, <1>11 DEF N, from

(* What Stretch means for the rows: no row twice, in order, none left out  *)
(* in between.                                                             *)
InKeyOrder(view, entries, key) ==
  \A k, l \in DOMAIN view : k < l =>
    \E i, j \in DOMAIN key : view[k] = entries[i] /\ view[l] = entries[j] /\ ~Lesser(key[j], key[i])

LEMMA StretchIsOrdered ==
  ASSUME NEW entries, NEW key, Keyed(key), NEW view, NEW from, Stretch(view, entries, key, from),
         DOMAIN key \subseteq DOMAIN entries, IsInjective(entries)
  PROVE  IsInjective(view) /\ InKeyOrder(view, entries, key)
<1>1. \A k \in DOMAIN view : \E i \in DOMAIN key : Stand(key, i) = from + k /\ view[k] = entries[i]
  BY DEF Stretch
<1>2. from \in Nat /\ DOMAIN view \subseteq Nat
  BY DEF Stretch
<1>3. ASSUME NEW k \in DOMAIN view, NEW l \in DOMAIN view, view[k] = view[l]
      PROVE  k = l
  <2>1. PICK i \in DOMAIN key : Stand(key, i) = from + k /\ view[k] = entries[i]
    BY <1>1
  <2>2. PICK j \in DOMAIN key : Stand(key, j) = from + l /\ view[l] = entries[j]
    BY <1>1
  <2>3. i = j
    BY <1>3, <2>1, <2>2 DEF IsInjective
  <2> QED BY <1>2, <2>1, <2>2, <2>3
<1>4. ASSUME NEW k \in DOMAIN view, NEW l \in DOMAIN view, k < l
      PROVE  \E i, j \in DOMAIN key : /\ view[k] = entries[i] /\ view[l] = entries[j]
                                      /\ ~Lesser(key[j], key[i])
  <2>1. PICK i \in DOMAIN key : Stand(key, i) = from + k /\ view[k] = entries[i]
    BY <1>1
  <2>2. PICK j \in DOMAIN key : Stand(key, j) = from + l /\ view[l] = entries[j]
    BY <1>1
  <2>3. ~(Stand(key, j) < Stand(key, i))
    BY <1>2, <1>4, <2>1, <2>2
  <2>4. ~Lesser(key[j], key[i])
    BY <2>3, StandsBefore DEF First
  <2> QED BY <2>1, <2>2, <2>4
<1> QED BY <1>3, <1>4 DEF IsInjective, InKeyOrder

LEMMA StretchHasNoGap ==
  ASSUME NEW entries, NEW key, Keyed(key), NEW view, NEW from, Stretch(view, entries, key, from),
         DOMAIN key \subseteq DOMAIN entries, IsInjective(entries),
         NEW x \in DOMAIN key, NEW i \in DOMAIN key, NEW j \in DOMAIN key,
         NEW k \in DOMAIN view, view[k] = entries[i], NEW l \in DOMAIN view, view[l] = entries[j],
         Lesser(key[i], key[x]), Lesser(key[x], key[j])
  PROVE  entries[x] \in ToSet(view)
<1>1. from \in Nat /\ DOMAIN view = 1 .. Len(view) /\ Len(view) \in Nat
  BY DEF Stretch
<1>2. Stand(key, i) = from + k /\ Stand(key, j) = from + l
  BY DEF Stretch, IsInjective
<1>3. Stand(key, i) < Stand(key, x) /\ Stand(key, x) < Stand(key, j) /\ Stand(key, x) \in Nat
  BY StandsBefore, StandIsPlace DEF First
<1> DEFINE n == Stand(key, x) - from
<1>4. n \in DOMAIN view /\ from + n = Stand(key, x)
  BY <1>1, <1>2, <1>3
<1>5. PICK y \in DOMAIN key : Stand(key, y) = from + n /\ view[n] = entries[y]
  BY <1>4 DEF Stretch
<1>6. x = y
  <2>1. Stand(key, x) = Stand(key, y) /\ Stand(key, x) \in Nat
    BY <1>3, <1>4, <1>5
  <2> QED BY <2>1, OneIsFirst, StandsBefore
<1> QED BY <1>4, <1>5, <1>6 DEF ToSet

-----------------------------------------------------------------------------
(* The list on the screen.  The invariant: what was drawn last is the list *)
(* of app as it is, and app has the rows of the terminal, or the prompt    *)
(* swallowed a resize.                                                     *)
AppFields ==
  {"rows", "procs", "links", "ports", "udp", "sort", "rev", "scroll", "filter", "filtering"}

AppShape ==
  /\ DOMAIN app = AppFields
  /\ app.rows \in Nat /\ app.scroll \in Nat /\ IsFiniteSet(app.links)
  /\ DOMAIN app.procs \subseteq Nat /\ IsFiniteSet(DOMAIN app.procs) /\ IsInjective(app.procs)
  /\ \A r \in ToSet(app.procs) : r.pid \in Int /\ r.rate \in Int /\ r.count \in Int

Drawn ==
  /\ place = "loop" => screen = Draw(app)
  /\ missed \/ app.rows = height

ListInv == AppShape /\ Drawn

(* By what the program sorts its rows.                                     *)
Keying(a) ==
  IF prog = "iptop"
  THEN [i \in Passing(a) |-> <<IF a.procs[i].open THEN 0 ELSE 1, a.procs[i].pid>>]
  ELSE [i \in Passing(a) |-> LET k == KeyOf(a, a.procs[i]) IN <<IF a.rev THEN k ELSE -k, 0>>]

LEMMA DrawIsSorted ==
  ASSUME MonInv
  PROVE  Draw(app) = Picture(app, Sorted(app.procs, Keying(app)), Room(app))
<1>1. prog \in {"htop", "top", "iotop", "iptop"}
  BY DEF MonInv, Counts
<1>2. CASE prog = "htop"
  BY <1>2 DEF Draw, Room, HtopDraw, HtopListed, InOrder, Keying
<1>3. CASE prog = "top"
  BY <1>3 DEF Draw, Room, TopDraw, TopListed, InOrder, Keying
<1>4. CASE prog = "iotop"
  BY <1>4 DEF Draw, Room, IotopDraw, IotopListed, InOrder, Keying
<1>5. CASE prog = "iptop"
  BY <1>5 DEF Draw, Room, IptopDraw, IptopListed, Keying
<1> QED BY <1>1, <1>2, <1>3, <1>4, <1>5

LEMMA RoomIsNat ==
  ASSUME MonInv, AppShape
  PROVE  Room(app) \in Nat
<1>1. prog \in {"htop", "top", "iotop", "iptop"} /\ app.rows \in Nat
  BY DEF MonInv, Counts, AppShape
<1>2. CASE prog = "htop"
  BY <1>1, <1>2 DEF Room, HtopRoom, Sub
<1>3. CASE prog = "top"
  BY <1>1, <1>3 DEF Room, TopRoom, Sub
<1>4. CASE prog = "iotop"
  BY <1>1, <1>4 DEF Room, IotopRoom, Sub
<1>5. CASE prog = "iptop"
  <2>1. Cardinality(app.links) \in Nat
    BY FS_CardinalityType DEF AppShape
  <2> QED BY <1>1, <1>5, <2>1 DEF Room, IptopRoom, Sub, Least
<1> QED BY <1>1, <1>2, <1>3, <1>4, <1>5

LEMMA KeyingIsKeyed ==
  ASSUME AppShape
  PROVE  /\ Keyed(Keying(app)) /\ DOMAIN Keying(app) = Passing(app)
         /\ Passing(app) \subseteq DOMAIN app.procs
<1>1. Passing(app) \in SUBSET DOMAIN app.procs
  BY DEF Passing
<1>2. IsFiniteSet(Passing(app)) /\ Passing(app) \subseteq Nat
  BY <1>1, FS_Subset DEF AppShape
<1>3. DOMAIN Keying(app) = Passing(app)
  BY DEF Keying
<1>4. \A i \in Passing(app) : KeyOf(app, app.procs[i]) \in Int /\ app.procs[i].pid \in Int
  <2> SUFFICES ASSUME NEW i \in Passing(app)
               PROVE  KeyOf(app, app.procs[i]) \in Int /\ app.procs[i].pid \in Int
    OBVIOUS
  <2>1. app.procs[i] \in ToSet(app.procs)
    BY <1>1 DEF ToSet
  <2> QED BY <2>1 DEF AppShape, KeyOf
<1>5. \A i \in Passing(app) : Keying(app)[i] \in Int \X Int
  <2>1. CASE prog = "iptop"
    BY <1>4, <2>1 DEF Keying
  <2>2. CASE prog # "iptop"
    BY <1>4, <2>2 DEF Keying
  <2> QED BY <2>1, <2>2
<1>6. Keying(app) = [i \in DOMAIN Keying(app) |-> Keying(app)[i]]
  BY DEF Keying
<1> QED BY <1>1, <1>2, <1>3, <1>5, <1>6 DEF Keyed

LEMMA BeforeIsLesser ==
  ASSUME AppShape, NEW i \in Passing(app), NEW j \in Passing(app),
         Before(app.procs[i], app.procs[j])
  PROVE  Lesser(Keying(app)[i], Keying(app)[j])
<1>1. CASE prog = "iptop"
  BY <1>1 DEF Keying, Before, Lesser
<1>2. CASE prog # "iptop"
  <2>1. i \in DOMAIN app.procs /\ j \in DOMAIN app.procs
    BY DEF Passing
  <2>2. app.procs[i] \in ToSet(app.procs) /\ app.procs[j] \in ToSet(app.procs)
    BY <2>1 DEF ToSet
  <2>3. KeyOf(app, app.procs[i]) \in Int /\ KeyOf(app, app.procs[j]) \in Int
    BY <2>2 DEF AppShape, KeyOf
  <2>4. CASE app.rev
    BY <1>2, <2>3, <2>4 DEF Keying, Before, Lesser
  <2>5. CASE ~app.rev
    <3>1. Keying(app)[i] = <<-KeyOf(app, app.procs[i]), 0>>
      BY <1>2, <2>5 DEF Keying
    <3>2. Keying(app)[j] = <<-KeyOf(app, app.procs[j]), 0>>
      BY <1>2, <2>5 DEF Keying
    <3>3. KeyOf(app, app.procs[i]) > KeyOf(app, app.procs[j])
      BY <1>2, <2>5 DEF Before
    <3> QED BY <2>3, <3>1, <3>2, <3>3 DEF Lesser
  <2> QED BY <2>4, <2>5
<1> QED BY <1>1, <1>2

LEMMA DrawnIsCurrent == MonInv /\ ListInv => ListIsCurrent
<1> SUFFICES ASSUME MonInv, ListInv, place = "loop" PROVE ListIsCurrent
  BY DEF ListIsCurrent
<1> DEFINE entries == app.procs
           key == Keying(app)
           list == Sorted(entries, key)
           view == screen.list
           passing == {r \in ToSet(app.procs) : Matches(app, r)}
           N == Cardinality(DOMAIN key)
           from == Pages(app.scroll, N)
<1>1. AppShape /\ screen = Picture(app, list, Room(app)) /\ Room(app) \in Nat /\ app.scroll \in Nat
  BY DrawIsSorted, RoomIsNat DEF ListInv, Drawn, AppShape
<1>2. /\ Keyed(key) /\ DOMAIN key = Passing(app)
      /\ DOMAIN key \subseteq DOMAIN entries /\ IsInjective(entries)
  BY <1>1, KeyingIsKeyed DEF AppShape
<1>3. /\ screen.height = app.rows /\ screen.bar = app.filtering
      /\ view = Window(list, Pages(app.scroll, Len(list)), Room(app))
  BY <1>1 DEF Picture
<1>4. missed \/ screen.height = height
  BY <1>3 DEF ListInv, Drawn
<1>5. \A i \in DOMAIN key : entries[i] \in passing
  BY <1>2 DEF Passing, ToSet
<1>6. \A r \in passing : \E i \in DOMAIN key : r = entries[i]
  BY <1>2 DEF Passing, ToSet
<1>7. N \in Nat /\ (N = 0 <=> DOMAIN key = {}) /\ IsFiniteSet(DOMAIN key)
  BY <1>2, FS_CardinalityType, FS_EmptySet DEF Keyed
<1>8. Cardinality(passing) = N
  <2> DEFINE f == [i \in DOMAIN key |-> entries[i]]
  <2>1. f \in [DOMAIN key -> passing] /\ \A r \in passing : \E i \in DOMAIN key : f[i] = r
    <3> HIDE DEF passing
    <3> QED BY <1>5, <1>6
  <2>2. f \in Surjection(DOMAIN key, passing)
    <3> HIDE DEF f, passing
    <3> QED BY <2>1 DEF Surjection
  <2>3. \A i, j \in DOMAIN key : f[i] = f[j] => i = j
    BY <1>2 DEF IsInjective
  <2>4. f \in Injection(DOMAIN key, passing)
    <3> HIDE DEF f, passing
    <3> QED BY <2>1, <2>3 DEF Injection, IsInjective
  <2> HIDE DEF f, passing
  <2> QED BY <1>7, <2>2, <2>4, FS_Surjection
<1>9. CASE DOMAIN key = {}
  <2>1. passing = {} /\ N = 0
    BY <1>6, <1>7, <1>9
  <2>2. list = <<>>
    BY <2>1 DEF Sorted
  <2>3. Len(view) = 0 /\ DOMAIN view = {} /\ view = <<>>
    <3>1. Least(Pages(app.scroll, 0) + Room(app), 0) = 0 /\ Pages(app.scroll, 0) = 0
      BY <1>1 DEF Pages, Sub, Least
    <3>2. view = SubSeq(list, 1, 0)
      BY <1>3, <2>2, <3>1 DEF Window
    <3>3. view = <<>>
      BY <3>2, SubSeqEmpty
    <3> QED BY <3>3
  <2>4. ToSet(view) = {} /\ IsInjective(view)
    BY <2>3 DEF ToSet, IsInjective
  <2>5. app.scroll = 0 => Len(view) = Least(Room(app), Cardinality(passing))
    BY <1>1, <1>8, <2>1, <2>3 DEF Least
  <2> HIDE DEF view, passing
  <2>6. /\ missed \/ screen.height = height
        /\ screen.bar = app.filtering
        /\ ToSet(view) \subseteq passing /\ IsInjective(view)
        /\ \A i, j \in DOMAIN view : i < j => ~Before(view[j], view[i])
        /\ \A r \in passing \ ToSet(view) : \A i, j \in DOMAIN view :
             ~(Before(view[i], r) /\ Before(r, view[j]))
        /\ passing # {} /\ Room(app) > 0 => view # <<>>
        /\ app.scroll = 0 => Len(view) = Least(Room(app), Cardinality(passing))
    BY <1>3, <1>4, <2>1, <2>3, <2>4, <2>5
  <2> QED BY <2>6 DEF ListIsCurrent, view, passing
<1>10. CASE DOMAIN key # {}
  <2>1. Stretch(view, entries, key, from) /\ from < N /\ Len(view) = Least(Room(app), N - from)
    <3>1. list = Sorted(entries, key)
      OBVIOUS
    <3>2. PICK scroll \in Nat : scroll = app.scroll
      BY <1>1
    <3>3. PICK space \in Nat : space = Room(app)
      BY <1>1
    <3> HIDE DEF view, list, entries, key, N, from
    <3>4. view = Window(list, Pages(scroll, Len(list)), space)
      BY <1>3, <3>2, <3>3
    <3>5. Keyed(key) /\ DOMAIN key # {}
      BY <1>2, <1>10
    <3>6. /\ Stretch(view, entries, key, Pages(scroll, Cardinality(DOMAIN key)))
          /\ Pages(scroll, Cardinality(DOMAIN key)) < Cardinality(DOMAIN key)
          /\ Len(view) =
               Least(space, Cardinality(DOMAIN key) - Pages(scroll, Cardinality(DOMAIN key)))
      BY <3>1, <3>4, <3>5, WindowIsStretch
    <3> QED BY <3>2, <3>3, <3>6 DEF N, from
  <2>2. IsInjective(view) /\ InKeyOrder(view, entries, key)
    <3> HIDE DEF view, entries, key, from
    <3> QED BY <1>2, <2>1, StretchIsOrdered
  <2>3. \A k \in DOMAIN view : \E i \in DOMAIN key : view[k] = entries[i]
    BY <2>1 DEF Stretch
  <2>4. ToSet(view) \subseteq passing
    <3> HIDE DEF passing, view, entries
    <3> QED BY <1>5, <2>3 DEF ToSet
  <2>5. \A i, j \in DOMAIN key : Before(entries[i], entries[j]) => Lesser(key[i], key[j])
    BY <1>1, <1>2, BeforeIsLesser
  <2>6. ASSUME NEW k \in DOMAIN view, NEW l \in DOMAIN view, k < l
        PROVE  ~Before(view[l], view[k])
    <3> HIDE DEF view, entries, key
    <3> QED BY <2>2, <2>5, <2>6 DEF InKeyOrder
  <2>7. ASSUME NEW r \in passing \ ToSet(view), NEW k \in DOMAIN view, NEW l \in DOMAIN view,
               Before(view[k], r), Before(r, view[l])
        PROVE  FALSE
    <3> HIDE DEF view, entries, key, passing
    <3>1. PICK x \in DOMAIN key : r = entries[x]
      BY <1>6
    <3>2. PICK i \in DOMAIN key : view[k] = entries[i]
      BY <2>3
    <3>3. PICK j \in DOMAIN key : view[l] = entries[j]
      BY <2>3
    <3>4. Lesser(key[i], key[x]) /\ Lesser(key[x], key[j])
      BY <2>5, <2>7, <3>1, <3>2, <3>3
    <3> QED BY <1>2, <2>1, <3>1, <3>2, <3>3, <3>4, StretchHasNoGap
  <2>8. from \in Nat
    BY <2>1 DEF Stretch
  <2>9. Room(app) > 0 => view # <<>>
    <3>1. Room(app) > 0 => Len(view) # 0
      <4> HIDE DEF view, from, N
      <4> QED BY <1>1, <1>7, <2>1, <2>8 DEF Least
    <3> QED BY <3>1
  <2>10. app.scroll = 0 => Len(view) = Least(Room(app), Cardinality(passing))
    <3>1. app.scroll = 0 => from = 0
      <4> HIDE DEF N
      <4> QED BY <1>7 DEF Pages, Least, Sub
    <3> HIDE DEF view, from, N, passing
    <3> QED BY <1>1, <1>7, <1>8, <2>1, <3>1
  <2> HIDE DEF view, passing
  <2>11. /\ missed \/ screen.height = height
         /\ screen.bar = app.filtering
         /\ ToSet(view) \subseteq passing /\ IsInjective(view)
         /\ \A i, j \in DOMAIN view : i < j => ~Before(view[j], view[i])
         /\ \A r \in passing \ ToSet(view) : \A i, j \in DOMAIN view :
              ~(Before(view[i], r) /\ Before(r, view[j]))
         /\ passing # {} /\ Room(app) > 0 => view # <<>>
         /\ app.scroll = 0 => Len(view) = Least(Room(app), Cardinality(passing))
    BY <1>3, <1>4, <2>2, <2>4, <2>6, <2>7, <2>9, <2>10
  <2> QED BY <2>11 DEF ListIsCurrent, view, passing
<1> QED BY <1>9, <1>10

LEMMA DrawLater ==
  ASSUME NEW a, app' = a, prog' = prog
  PROVE  Draw(app)' = Draw(a)
BY DEF Draw, HtopDraw, TopDraw, IotopDraw, IptopDraw

LEMMA OrdersShape ==
  ASSUME NEW entries, IsFiniteSet(entries), NEW s \in Orders(entries)
  PROVE  DOMAIN s \subseteq Nat /\ IsFiniteSet(DOMAIN s) /\ IsInjective(s) /\ ToSet(s) = entries
<1> DEFINE n == Cardinality(entries)
<1>1. s \in [1 .. n -> entries] /\ ToSet(s) = entries /\ n \in Nat
  BY FS_CardinalityType DEF Orders
<1>2. IsFiniteSet(1 .. n) /\ Cardinality(1 .. n) = n
  <2> HIDE DEF n
  <2> QED BY <1>1, FS_Interval
<1>3. s \in Surjection(1 .. n, entries)
  BY <1>1 DEF Surjection, ToSet
<1>4. s \in Injection(1 .. n, entries)
  BY <1>2, <1>3, FS_Surjection
<1> QED BY <1>1, <1>2, <1>4 DEF Injection

LEMMA FiniteRows ==
  ASSUME NEW ids \in SUBSET Pids, NEW old
  PROVE  IsFiniteSet(Rated(ids, old)) /\ IsFiniteSet({Row(p, 0) : p \in ids})
<1>1. IsFiniteSet(ids)
  BY FS_Subset, MonitorAssumption
<1>2. [p \in ids |-> Row(p, Rate(p, old))] \in Surjection(ids, Rated(ids, old))
  BY DEF Surjection, Rated
<1>3. [p \in ids |-> Row(p, 0)] \in Surjection(ids, {Row(p, 0) : p \in ids})
  BY DEF Surjection
<1> QED BY <1>1, <1>2, <1>3, FS_Surjection

LEMMA ListingIsFinite ==
  ASSUME MonInv
  PROVE  IsFiniteSet(Listing) /\ IsFiniteSet(IptopInterfaces)
<1>1. prog \in {"htop", "top", "iotop", "iptop"}
  BY DEF MonInv, Counts
<1>2. IsFiniteSet(IptopInterfaces)
  BY FiniteRows DEF IptopInterfaces
<1> DEFINE there == {p \in Pids : Alive(p)}
<1>3. IsFiniteSet(Rated(there, prev)) /\ IsFiniteSet({Row(p, 0) : p \in there})
  <2>1. there \in SUBSET Pids
    OBVIOUS
  <2> HIDE DEF there
  <2> QED BY <2>1, FiniteRows
<1>4. CASE prog \in {"htop", "top", "iotop"}
  <2>1. Listing = Rated(there, prev)
    BY <1>4 DEF Listing, HtopRates, HtopSnapshot, TopRates, TopSnapshot, IotopRates, IotopSnapshot
  <2> QED BY <1>2, <1>3, <2>1
<1>5. CASE prog = "iptop"
  <2>1. Listing = {Row(p, 0) : p \in there}
    BY <1>5 DEF Listing, IptopConnections
  <2> QED BY <1>2, <1>3, <2>1
<1> QED BY <1>1, <1>4, <1>5

(* The figures of a row are numbers.                                       *)
LEMMA RowFigures ==
  ASSUME MonInv, NEW r \in Listing
  PROVE  r.pid \in Int /\ r.rate \in Int /\ r.count \in Int
<1>1. PICK p \in Pids : Alive(p) /\ (r = Row(p, 0) \/ r = Row(p, Rate(p, prev)))
  BY ListingRows
<1>2. Rate(p, prev) \in Int
  <2> DEFINE same == {q \in prev : q.pid = p}
  <2>1. CASE same = {}
    BY <2>1 DEF Rate
  <2>2. CASE same # {}
    <3> DEFINE old == CHOOSE q \in same : TRUE
    <3>1. old \in prev
      BY <2>2
    <3>2. Rate(p, prev) = Sub(Row(p, 0).count, old.count)
      BY <2>2 DEF Rate
    <3>3. old.count \in Nat /\ Row(p, 0).count \in Nat
      BY <3>1, RowOf DEF MonInv, OldRows
    <3> HIDE DEF old
    <3> QED BY <3>2, <3>3 DEF Sub
  <2> QED BY <2>1, <2>2
<1>3. r.pid = p /\ r.count \in Nat /\ r.rate \in Int
  BY <1>1, <1>2, RowOf DEF MonInv
<1> QED BY <1>3, MonitorAssumption

LEMMA ListInitInv == MonitorInit => ListInv
<1> SUFFICES ASSUME MonitorInit PROVE ListInv
  OBVIOUS
<1>0. MonInv
  BY MonInitInv
<1>1. PICK sorted \in Orders(prev) : app = [HtopStart(height) EXCEPT !.procs = sorted]
  BY DEF MonitorInit
<1>2. IsFiniteSet(prev)
  <2>1. CASE prog = "iptop"
    BY <2>1, FS_EmptySet DEF MonitorInit
  <2>2. CASE prog # "iptop"
    BY <2>2, FiniteRows DEF MonitorInit
  <2> QED BY <2>1, <2>2
<1>3. /\ DOMAIN sorted \subseteq Nat /\ IsFiniteSet(DOMAIN sorted) /\ IsInjective(sorted)
      /\ ToSet(sorted) = prev
  BY <1>2, OrdersShape
<1>4. \A r \in prev : r.pid \in Int /\ r.rate \in Int /\ r.count \in Int
  <2> SUFFICES ASSUME NEW r \in prev PROVE r.pid \in Int /\ r.rate \in Int /\ r.count \in Int
    OBVIOUS
  <2>1. PICK p \in Pids : r = Row(p, 0)
    BY DEF MonitorInit
  <2>2. p \in Int /\ r.pid = p /\ r.rate = 0 /\ r.count \in Nat
    BY <1>0, <2>1, RowOf, MonitorAssumption DEF MonInv
  <2> QED BY <2>2
<1>5. /\ DOMAIN app = AppFields /\ app.rows = height /\ app.scroll = 0 /\ app.links = {}
      /\ app.procs = sorted
  BY <1>1 DEF HtopStart, AppFields
<1>6. height \in Nat
  BY MonitorAssumption DEF MonitorInit
<1>7. AppShape
  BY <1>3, <1>4, <1>5, <1>6, FS_EmptySet DEF AppShape
<1>8. screen = Draw(app)
  BY DEF MonitorInit
<1> QED BY <1>5, <1>7, <1>8 DEF ListInv, Drawn

(* A handler that gets app into shape, or leaves it as it is.              *)
ShapeOf(a) ==
  /\ DOMAIN a = AppFields
  /\ a.rows \in Nat /\ a.scroll \in Nat /\ IsFiniteSet(a.links)
  /\ DOMAIN a.procs \subseteq Nat /\ IsFiniteSet(DOMAIN a.procs) /\ IsInjective(a.procs)
  /\ \A r \in ToSet(a.procs) : r.pid \in Int /\ r.rate \in Int /\ r.count \in Int

LEMMA ShowStep ==
  ASSUME NEW a, Show(a), ShapeOf(a), prog' = prog, missed' \/ a.rows = height'
  PROVE  ListInv'
<1>1. app' = a /\ (place' = "loop" => screen' = Draw(a))
  BY DEF Show
<1>2. AppShape'
  BY <1>1 DEF AppShape, ShapeOf
<1>3. Drawn'
  BY <1>1, DrawLater DEF Drawn
<1> QED BY <1>2, <1>3 DEF ListInv

LEMMA NoShow ==
  ASSUME ListInv, UNCHANGED <<prog, app, screen>>, place' = "loop" => place = "loop",
         missed' \/ (missed' = missed /\ height' = height)
  PROVE  ListInv'
<1>1. AppShape'
  BY DEF ListInv, AppShape
<1>2. Drawn'
  BY DrawLater DEF ListInv, Drawn
<1> QED BY <1>1, <1>2 DEF ListInv

LEMMA KeysInShape ==
  ASSUME MonInv, AppShape, NEW a \in Keys(app)
  PROVE  ShapeOf(a) /\ a.rows = app.rows
<1>1. \/ a \in FilterKey(app) \/ a \in Search(app) \/ a \in Sorts(app, {"rate", "pid", "time"})
      \/ a \in TurnOrder(app) \/ a \in Scrolls(app) \/ a \in Toggle(app)
  BY DEF MonInv, Counts, Keys, HtopKey, TopKey, IotopKey, IptopKey, Sorts
<1>2. DOMAIN a = DOMAIN app /\ a.procs = app.procs /\ a.links = app.links /\ a.rows = app.rows
  BY <1>1 DEF AppShape, AppFields, FilterKey, Search, Sorts, TurnOrder, Scrolls, Toggle
<1>3. a.scroll \in Nat
  <2>1. CASE a \in Scrolls(app)
    <3>1. app.rows \div 2 \in Nat /\ app.scroll \in Nat
      BY DEF AppShape
    <3>2. PICK s \in {Sub(app.scroll, 1), app.scroll + 1, 0, Sub(app.scroll, app.rows \div 2),
                      app.scroll + app.rows \div 2} : a = [app EXCEPT !.scroll = s]
      BY <2>1 DEF Scrolls
    <3>3. s \in Nat
      BY <3>1, <3>2 DEF Sub
    <3> QED BY <3>2, <3>3 DEF AppShape, AppFields
  <2>2. CASE a \notin Scrolls(app)
    <3>1. a.scroll = app.scroll \/ a.scroll = 0
      BY <1>1, <2>2 DEF AppShape, AppFields, FilterKey, Search, Sorts, TurnOrder, Toggle
    <3> QED BY <3>1 DEF AppShape
  <2> QED BY <2>1, <2>2
<1> QED BY <1>2, <1>3 DEF AppShape, ShapeOf

LEMMA PassingCount ==
  ASSUME AppShape
  PROVE  ShapeOf(app) /\ Cardinality(Passing(app)) \in Nat
<1>1. Passing(app) \in SUBSET DOMAIN app.procs
  BY DEF Passing
<1> QED BY <1>1, FS_Subset, FS_CardinalityType DEF AppShape, ShapeOf

LEMMA ReadInShape ==
  ASSUME MonInv, AppShape, NEW entries \in Orders(Listing)
  PROVE  ShapeOf(Refresh(app, entries)) /\ Refresh(app, entries).rows = app.rows
<1>1. /\ DOMAIN entries \subseteq Nat /\ IsFiniteSet(DOMAIN entries) /\ IsInjective(entries)
      /\ ToSet(entries) = Listing
  BY ListingIsFinite, OrdersShape
<1>2. \A r \in ToSet(entries) : r.pid \in Int /\ r.rate \in Int /\ r.count \in Int
  BY <1>1, RowFigures
<1>3. prog \in {"htop", "top", "iotop", "iptop"}
  BY DEF MonInv, Counts
<1>4. CASE prog = "iptop"
  <2>1. Refresh(app, entries) = IptopRefresh(app, entries)
    BY <1>4 DEF Refresh
  <2>2. /\ DOMAIN IptopRefresh(app, entries) = AppFields
        /\ IptopRefresh(app, entries).procs = entries /\ IptopRefresh(app, entries).links = IptopInterfaces
        /\ IptopRefresh(app, entries).rows = app.rows /\ IptopRefresh(app, entries).scroll = app.scroll
    BY DEF IptopRefresh, AppShape, AppFields
  <2> QED BY <1>1, <1>2, <2>1, <2>2, ListingIsFinite DEF ShapeOf, AppShape
<1>5. CASE prog # "iptop"
  <2> DEFINE read == [app EXCEPT !.procs = entries]
             end == Pages(app.scroll, Cardinality(Passing(read)))
  <2>1. Refresh(app, entries) = Clamped(read)
    BY <1>3, <1>5 DEF Refresh, HtopRefresh, TopRefresh, IotopRefresh
  <2>2. /\ DOMAIN read = AppFields /\ read.procs = entries /\ read.links = app.links
        /\ read.rows = app.rows /\ read.scroll = app.scroll
    BY DEF AppShape, AppFields
  <2> HIDE DEF read
  <2>3. Cardinality(Passing(read)) \in Nat
    <3>1. Passing(read) \in SUBSET DOMAIN entries
      BY <2>2 DEF Passing
    <3> QED BY <1>1, <3>1, FS_Subset, FS_CardinalityType
  <2>4. end \in Nat
    BY <2>3 DEF Pages, Least, Sub, AppShape
  <2>5. Clamped(read) = [read EXCEPT !.scroll = end]
    BY <2>2 DEF Clamped
  <2> HIDE DEF end
  <2>6. /\ DOMAIN Clamped(read) = AppFields
        /\ Clamped(read).procs = entries /\ Clamped(read).links = app.links
        /\ Clamped(read).rows = app.rows /\ Clamped(read).scroll = end
    BY <2>2, <2>5 DEF AppFields
  <2> QED BY <1>1, <1>2, <2>1, <2>4, <2>6 DEF ShapeOf, AppShape
<1> QED BY <1>4, <1>5

LEMMA ListStep ==
  ASSUME MonInv, ListInv, MonitorNext \/ UNCHANGED monitorVars
  PROVE  ListInv'
<1>1. CASE World
  BY <1>1, NoShow DEF World, Works, Ends, Begins, Opens, Inside
<1>2. CASE KeyStep
  <2>1. PICK a \in Keys(app) : Show(a)
    BY <1>2 DEF KeyStep
  <2>2. ShapeOf(a) /\ a.rows = app.rows
    BY <2>1, KeysInShape DEF ListInv
  <2>3. UNCHANGED <<prog, height, missed>>
    BY <1>2 DEF KeyStep, outside
  <2> QED BY <2>1, <2>2, <2>3, ShowStep DEF ListInv, Drawn
<1>3. CASE ResizeStep
  <2> DEFINE a == [app EXCEPT !.rows = height']
  <2>1. Show(a) /\ prog' = prog /\ height' \in Nat
    BY <1>3, MonitorAssumption DEF ResizeStep, Resizes
  <2>2. ShapeOf(a) /\ a.rows = height'
    BY <2>1 DEF ListInv, AppShape, AppFields, ShapeOf
  <2> QED BY <2>1, <2>2, ShowStep
<1>4. CASE PromptStep
  <2>1. CASE OpenPrompt
    BY <2>1, NoShow DEF OpenPrompt, outside
  <2>2. CASE PromptResize
    BY <2>2, NoShow DEF PromptResize
  <2>3. CASE Show(app) /\ UNCHANGED <<prog, height, missed>>
    BY <2>3, PassingCount, ShowStep DEF ListInv, Drawn
  <2> QED BY <1>4, <2>1, <2>2, <2>3 DEF PromptStep
<1>5. CASE ReadStep
  <2>1. PICK entries \in Orders(Listing) : Show(Refresh(app, entries))
    BY <1>5 DEF ReadStep
  <2>2. UNCHANGED <<prog, height, missed>>
    BY <1>5 DEF ReadStep
  <2> QED BY <2>1, <2>2, ReadInShape, ShowStep DEF ListInv, Drawn
<1>6. CASE Leave
  BY <1>6, NoShow DEF Leave, outside
<1>7. CASE UNCHANGED monitorVars
  BY <1>7, NoShow DEF monitorVars
<1> QED BY <1>1, <1>2, <1>3, <1>4, <1>5, <1>6, <1>7 DEF MonitorNext

(* Whatever is typed, whatever ends and however often the terminal is      *)
(* resized, for any processes, texts to be filtered and terminals: the     *)
(* list on the screen is a stretch without a gap of the rows that were read*)
(* last and pass the filter, in their order, for the terminal there is.    *)
THEOREM ListIsCurrentTheorem == MonitorInit /\ [][MonitorNext]_monitorVars => []ListIsCurrent
<1>1. MonInv /\ ListInv /\ [MonitorNext]_monitorVars => MonInv' /\ ListInv'
  BY WorldStep, OtherStep, ReadingStep, ListStep DEF MonitorNext
<1> QED BY MonInitInv, ListInitInv, <1>1, DrawnIsCurrent, PTL

-----------------------------------------------------------------------------
(* tcpdump, the numbers it prints.  First what is needed of remainders,    *)
(* then the invariant: each row of a flow is relative to the number the    *)
(* flow is relative to now, unless a new connection began after it.        *)

LEMMA Multiple ==
  ASSUME NEW m \in Nat \ {0}, NEW k \in Int, -m < m * k, m * k < m
  PROVE  k = 0
<1>1. CASE k >= 1
  <2>1. m * (k - 1) >= 0
    BY <1>1
  <2>2. m * k = m * (k - 1) + m
    OBVIOUS
  <2> QED BY <2>1, <2>2
<1>2. CASE k <= -1
  <2>1. m * (-1 - k) >= 0
    BY <1>2
  <2>2. m * k = -(m * (-1 - k)) - m
    OBVIOUS
  <2> QED BY <2>1, <2>2
<1> QED BY <1>1, <1>2

LEMMA Divided ==
  ASSUME NEW x \in Int, NEW m \in Nat \ {0}
  PROVE  /\ x \div m \in Int /\ x % m \in Int /\ 0 <= x % m /\ x % m < m
         /\ x = m * (x \div m) + (x % m)
OBVIOUS

Congruent(x, y, m) == \E q \in Int : x - y = m * q

LEMMA SameRemainder ==
  ASSUME NEW x \in Int, NEW y \in Int, NEW m \in Nat \ {0}, Congruent(x, y, m)
  PROVE  x % m = y % m
<1>0. PICK q \in Int : x - y = m * q
  BY DEF Congruent
<1> DEFINE a == x \div m
           b == y \div m
           r == x % m
           s == y % m
<1>1. /\ a \in Int /\ r \in Int /\ 0 <= r /\ r < m /\ x = m * a + r
      /\ b \in Int /\ s \in Int /\ 0 <= s /\ s < m /\ y = m * b + s
  BY Divided
<1> HIDE DEF a, b, r, s
<1>2. q - a + b \in Int /\ m * (q - a + b) = m * q - m * a + m * b
  BY <1>1
<1>3. m * (q - a + b) = r - s
  BY <1>0, <1>1, <1>2
<1>4. q - a + b = 0
  BY <1>1, <1>2, <1>3, Multiple
<1>5. r = s
  BY <1>1, <1>3, <1>4
<1> QED BY <1>5 DEF r, s

(* Numbers relative to the same one are as far apart as they are.         *)
LEMMA RelativeApart ==
  ASSUME NEW x \in Int, NEW y \in Int, NEW b \in Int, TrafficAssumption
  PROVE  (Relative(x, b) - Relative(y, b)) % Modulus = (x - y) % Modulus
<1> DEFINE m == Modulus
           u == x - b
           v == y - b
           p == u \div m
           q == v \div m
           r == u % m
           s == v % m
<1>1. u \in Int /\ v \in Int /\ m \in Nat \ {0}
  BY DEF TrafficAssumption
<1>2. /\ p \in Int /\ r \in Int /\ u = m * p + r
      /\ q \in Int /\ s \in Int /\ v = m * q + s
  BY <1>1, Divided
<1>3. u - v = x - y
  OBVIOUS
<1> HIDE DEF m, u, v, p, q, r, s
<1>4. q - p \in Int /\ m * (q - p) = m * q - m * p
  BY <1>1, <1>2
<1> DEFINE k == q - p
           c == r - s
           d == x - y
<1>5. k \in Int /\ c \in Int /\ d \in Int /\ c - d = m * k
  BY <1>1, <1>2, <1>3, <1>4
<1> HIDE DEF k, c, d
<1>6. Congruent(c, d, m)
  BY <1>5 DEF Congruent
<1>7. c % m = d % m
  BY <1>1, <1>5, <1>6, SameRemainder
<1> QED BY <1>7 DEF c, d, r, s, u, v, m, Relative

-----------------------------------------------------------------------------
HasNumbers(p) == {"seq", "ack"} \subseteq DOMAIN p /\ p.seq \in Int /\ p.ack \in Int
Entries(s) == s \in Seq(Range(s)) /\ \A r \in Range(s) : HasNumbers(r.p)

CapTypes ==
  /\ Entries(buffered) /\ Entries(pcap.records) /\ Entries(rest) /\ Entries(shown)
  /\ pcap = [link |-> pcap.link, records |-> pcap.records, torn |-> pcap.torn]
  /\ \A f \in DOMAIN isn : isn[f] \in Int

Based ==
  \A i \in DOMAIN shown :
    LET f == Fwd(shown[i].p)
    IN Comparable(i) /\ ~Restarted(i, Len(shown), f) =>
         IF conf.absSeq THEN shown[i].seq = shown[i].p.seq
         ELSE f \in DOMAIN isn /\ shown[i].seq = Relative(shown[i].p.seq, isn[f])

NothingYet == capStep = "parse" => shown = <<>>

CapInv == CapTypes /\ NothingYet /\ Based /\ SequenceAgrees

LEMMA KeptEmpty == Entries(<<>>)
BY DEF Entries, Range

LEMMA InOwnRange ==
  ASSUME NEW S, NEW s \in Seq(S)
  PROVE  s \in Seq(Range(s)) /\ \A r \in Range(s) : r \in S
<1>1. s \in [1 .. Len(s) -> Range(s)] /\ Len(s) \in Nat
  BY DEF Range
<1>2. \A r \in Range(s) : r \in S
  BY DEF Range
<1>3. s \in Seq(Range(s))
  BY <1>1
<1> QED BY <1>2, <1>3

LEMMA KeptIn ==
  ASSUME NEW S, \A r \in S : HasNumbers(r.p), NEW s \in Seq(S)
  PROVE  Entries(s)
<1>1. s \in Seq(Range(s)) /\ \A r \in Range(s) : r \in S
  BY InOwnRange
<1> QED BY <1>1 DEF Entries

LEMMA KeptAppend ==
  ASSUME NEW s, Entries(s), NEW r, HasNumbers(r.p)
  PROVE  Entries(Append(s, r))
<1> DEFINE S == Range(s) \cup {r}
<1>1. s \in Seq(S)
  BY DEF Entries
<1>2. Append(s, r) \in Seq(S)
  BY <1>1
<1> QED BY <1>2, KeptIn DEF Entries

LEMMA KeptConcat ==
  ASSUME NEW s, Entries(s), NEW t, Entries(t)
  PROVE  Entries(s \o t)
<1> DEFINE S == Range(s) \cup Range(t)
<1>1. s \in Seq(S) /\ t \in Seq(S)
  BY DEF Entries
<1>2. s \o t \in Seq(S)
  BY <1>1
<1> QED BY <1>2, KeptIn DEF Entries

LEMMA KeptTail ==
  ASSUME NEW s, Entries(s), s # <<>>
  PROVE  Entries(Tail(s)) /\ HasNumbers(Head(s).p)
<1>1. Tail(s) \in Seq(Range(s)) /\ Head(s) \in Range(s)
  BY DEF Entries
<1> QED BY <1>1, KeptIn DEF Entries

LEMMA PrintKeeps ==
  ASSUME CapInv, TrafficAssumption, NEW p, HasNumbers(p), NEW at, PrintPacket(p, at), conf' = conf
  PROVE  /\ Entries(shown)' /\ (\A f \in DOMAIN isn : isn[f] \in Int)'
         /\ Based' /\ SequenceAgrees'
<1> DEFINE row == PacketRow(p, at)
<1>1. PICK n \in Nat : n = Len(shown)
  BY DEF CapInv, CapTypes, Entries
<1>2. row.p = p
  BY DEF PacketRow
<1>3. shown' = Append(shown, row)
  BY DEF PrintPacket, PrintPacketBy
<1>4. /\ Len(shown') = n + 1 /\ DOMAIN shown' = 1 .. n + 1 /\ DOMAIN shown = 1 .. n
      /\ shown'[n + 1] = row /\ \A i \in 1 .. n : shown'[i] = shown[i]
  BY <1>1, <1>3 DEF CapInv, CapTypes, Entries
<1>5. Entries(shown)'
  BY <1>2, <1>3, KeptAppend DEF CapInv, CapTypes
<1> HIDE DEF row
<1>6. p.seq \in Int /\ p.ack \in Int /\ Base(p) \in Int
  BY DEF HasNumbers, Base, CapInv, CapTypes
<1>7. (\A f \in DOMAIN isn : isn[f] \in Int)'
  BY <1>6 DEF PrintPacket, PrintPacketBy, CapInv, CapTypes
(* The number a row of a flow is relative to stays, but for a new connection.*)
<1>8. ASSUME NEW i \in 1 .. n, Comparable(i), ~conf.absSeq,
             ~Restarted(i, n, Fwd(shown[i].p)),
             Fwd(shown[i].p) = Fwd(p) => "syn" \notin p.flags
      PROVE  /\ Fwd(shown[i].p) \in DOMAIN isn
             /\ shown[i].seq = Relative(shown[i].p.seq, isn[Fwd(shown[i].p)])
             /\ Fwd(shown[i].p) \in DOMAIN isn'
             /\ isn'[Fwd(shown[i].p)] = isn[Fwd(shown[i].p)]
  <2> DEFINE f == Fwd(shown[i].p)
  <2>1. f \in DOMAIN isn /\ shown[i].seq = Relative(shown[i].p.seq, isn[f])
    BY <1>1, <1>4, <1>8 DEF CapInv, Based
  <2>2. f = Fwd(p) => Base(p) = isn[f]
    BY <1>8, <2>1 DEF Base
  <2> HIDE DEF f
  <2>3. f \in DOMAIN isn' /\ isn'[f] = isn[f]
    BY <2>1, <2>2 DEF PrintPacket, PrintPacketBy
  <2> QED BY <2>1, <2>3 DEF f
<1>9. ASSUME NEW i \in 1 .. n, ~Restarted(i, n + 1, Fwd(shown[i].p))'
      PROVE  /\ shown'[i] = shown[i] /\ ~Restarted(i, n, Fwd(shown[i].p))
             /\ Fwd(shown[i].p) = Fwd(p) => "syn" \notin p.flags
  <2>1. shown'[i] = shown[i]
    BY <1>4
  <2>2. ~Restarted(i, n, Fwd(shown[i].p))
    <3> SUFFICES ASSUME NEW k \in i + 1 .. n, Fwd(shown[k].p) = Fwd(shown[i].p),
                        "syn" \in shown[k].p.flags
                 PROVE  FALSE
      BY DEF Restarted
    <3>1. k \in i + 1 .. n + 1 /\ k \in 1 .. n /\ shown'[k] = shown[k]
      BY <1>4
    <3> QED BY <1>9, <2>1, <3>1 DEF Restarted
  <2>3. Fwd(shown[i].p) = Fwd(p) => "syn" \notin p.flags
    <3>1. n + 1 \in i + 1 .. n + 1 /\ shown'[n + 1].p = p
      BY <1>2, <1>4
    <3> QED BY <1>9, <2>1, <3>1 DEF Restarted
  <2> QED BY <2>1, <2>2, <2>3
<1>10. Based'
  <2> SUFFICES ASSUME NEW i \in 1 .. n + 1, Comparable(i)',
                      ~Restarted(i, n + 1, Fwd(shown[i].p))'
               PROVE  (IF conf.absSeq THEN shown[i].seq = shown[i].p.seq
                       ELSE /\ Fwd(shown[i].p) \in DOMAIN isn
                            /\ shown[i].seq = Relative(shown[i].p.seq, isn[Fwd(shown[i].p)]))'
    BY <1>4 DEF Based
  <2>1. CASE i = n + 1
    <3>1. CASE conf.absSeq
      BY <1>2, <1>4, <2>1, <3>1 DEF row, PacketRow
    <3>2. CASE ~conf.absSeq
      <4>1. Tracked(p)
        BY <1>2, <1>4, <2>1, <3>2 DEF Comparable, Tracked
      <4>2. Fwd(p) \in DOMAIN isn' /\ isn'[Fwd(p)] = Base(p)
        BY <4>1 DEF PrintPacket, PrintPacketBy
      <4>3. row.seq = Relative(p.seq, Base(p))
        BY <3>2 DEF row, PacketRow
      <4> QED BY <1>2, <1>4, <2>1, <3>2, <4>2, <4>3
    <3> QED BY <3>1, <3>2
  <2>2. CASE i \in 1 .. n
    <3>1. /\ shown'[i] = shown[i] /\ ~Restarted(i, n, Fwd(shown[i].p))
          /\ Fwd(shown[i].p) = Fwd(p) => "syn" \notin p.flags
      BY <1>9, <2>2
    <3>2. Comparable(i)
      BY <3>1 DEF Comparable
    <3>3. CASE conf.absSeq
      BY <1>1, <1>4, <2>2, <3>1, <3>2, <3>3 DEF CapInv, Based
    <3>4. CASE ~conf.absSeq
      BY <1>8, <2>2, <3>1, <3>2, <3>4
    <3> QED BY <3>3, <3>4
  <2> QED BY <2>1, <2>2
(* Of the new row and an old one.                                          *)
<1>11. ASSUME NEW i \in 1 .. n, Comparable(i)', Comparable(n + 1)',
              ~Restarted(i, n + 1, Fwd(shown[i].p))'
       PROVE  /\ Fwd(p) = Fwd(shown[i].p) =>
                   (row.seq - shown[i].seq) % Modulus = (p.seq - shown[i].p.seq) % Modulus
              /\ Rev(p) = Fwd(shown[i].p) /\ "ack" \in p.flags =>
                   (row.ack - shown[i].seq) % Modulus = (p.ack - shown[i].p.seq) % Modulus
  <2> DEFINE f == Fwd(shown[i].p)
  <2>1. /\ shown'[i] = shown[i] /\ ~Restarted(i, n, f)
        /\ f = Fwd(p) => "syn" \notin p.flags
    BY <1>9, <1>11
  <2>2. Comparable(i) /\ shown[i].p.seq \in Int
    <3>1. shown[i] \in Range(shown)
      BY <1>4 DEF Range
    <3> QED BY <1>11, <2>1, <3>1 DEF Comparable, CapInv, CapTypes, Entries, HasNumbers
  <2>3. CASE conf.absSeq
    <3>1. shown[i].seq = shown[i].p.seq
      BY <1>1, <1>4, <2>1, <2>2, <2>3 DEF CapInv, Based
    <3>2. row.seq = p.seq /\ row.ack = p.ack
      BY <2>3 DEF row, PacketRow
    <3> QED BY <3>1, <3>2
  <2>4. CASE ~conf.absSeq
    <3>1. f \in DOMAIN isn /\ shown[i].seq = Relative(shown[i].p.seq, isn[f])
      BY <1>8, <2>1, <2>2, <2>4
    <3>2. isn[f] \in Int
      BY <3>1 DEF CapInv, CapTypes
    <3>3. row.seq = Relative(p.seq, Base(p)) /\ row.ack = RelativeAck(p)
      BY <2>4 DEF row, PacketRow
    <3> HIDE DEF f
    <3>4. f = Fwd(p) => Base(p) = isn[f]
      BY <2>1, <3>1 DEF Base
    <3>5. f = Rev(p) /\ "ack" \in p.flags => RelativeAck(p) = Relative(p.ack, isn[f])
      BY <3>1, <3>4 DEF RelativeAck, PeerBase
    <3>6. /\ (Relative(p.seq, isn[f]) - Relative(shown[i].p.seq, isn[f])) % Modulus
               = (p.seq - shown[i].p.seq) % Modulus
          /\ (Relative(p.ack, isn[f]) - Relative(shown[i].p.seq, isn[f])) % Modulus
               = (p.ack - shown[i].p.seq) % Modulus
      BY <1>6, <2>2, <3>2, RelativeApart
    <3> QED BY <3>1, <3>3, <3>4, <3>5, <3>6 DEF f
  <2> QED BY <2>3, <2>4
<1>12. SequenceAgrees'
  <2> SUFFICES ASSUME NEW i \in 1 .. n + 1, NEW j \in 1 .. n + 1, i < j,
                      Comparable(i)', Comparable(j)',
                      ~Restarted(i, j, Fwd(shown[i].p))'
               PROVE  (/\ Fwd(shown[j].p) = Fwd(shown[i].p) =>
                            (shown[j].seq - shown[i].seq) % Modulus
                              = (shown[j].p.seq - shown[i].p.seq) % Modulus
                       /\ Rev(shown[j].p) = Fwd(shown[i].p) /\ "ack" \in shown[j].p.flags =>
                            (shown[j].ack - shown[i].seq) % Modulus
                              = (shown[j].p.ack - shown[i].p.seq) % Modulus)'
    BY <1>4 DEF SequenceAgrees
  <2>1. i \in 1 .. n
    OBVIOUS
  <2>2. shown'[i] = shown[i]
    BY <1>4, <2>1
  <2>3. CASE j = n + 1
    BY <1>2, <1>4, <1>11, <2>1, <2>2, <2>3
  <2>4. CASE j \in 1 .. n
    <3>1. shown'[j] = shown[j]
      BY <1>4, <2>4
    <3>2. Comparable(i) /\ Comparable(j)
      BY <2>2, <3>1 DEF Comparable
    <3>3. ~Restarted(i, j, Fwd(shown[i].p))
      <4> SUFFICES ASSUME NEW k \in i + 1 .. j, Fwd(shown[k].p) = Fwd(shown[i].p),
                          "syn" \in shown[k].p.flags
                   PROVE  FALSE
        BY DEF Restarted
      <4>1. k \in 1 .. n /\ shown'[k] = shown[k]
        BY <1>4, <2>1, <2>4
      <4> QED BY <2>2, <4>1 DEF Restarted
    <3> QED BY <1>4, <2>1, <2>2, <2>4, <3>1, <3>2, <3>3 DEF CapInv, SequenceAgrees
  <2> QED BY <2>3, <2>4
<1> QED BY <1>5, <1>7, <1>10, <1>12

(* Steps that print nothing.                                               *)
Silent == UNCHANGED <<conf, isn, shown>> /\ (capStep' = "parse" => capStep = "parse")

LEMMA SilentKeeps ==
  ASSUME CapInv, Silent, Entries(buffered)', Entries(pcap.records)', Entries(rest)',
         pcap' = [link |-> pcap'.link, records |-> pcap'.records, torn |-> pcap'.torn]
  PROVE  CapInv'
<1>1. Based' /\ SequenceAgrees'
  BY DEF CapInv, Silent, Based, SequenceAgrees, Comparable, Restarted
<1> QED BY <1>1 DEF CapInv, CapTypes, NothingYet, Silent

LEMMA FlushKeeps ==
  ASSUME CapInv
  PROVE  /\ Entries(Flushed.records)
         /\ Flushed = [link |-> Flushed.link, records |-> Flushed.records, torn |-> Flushed.torn]
<1>1. Entries(pcap.records \o buffered)
  BY KeptConcat DEF CapInv, CapTypes
<1> QED BY <1>1 DEF Flushed, FlushedWith, CapInv, CapTypes

LEMMA RecordKept ==
  ASSUME NEW p, HasNumbers(p), NEW n, NEW at
  PROVE  HasNumbers(Record(p, n, at).p)
BY DEF Record

LEMMA WriteKeeps ==
  ASSUME CapInv, NEW p, HasNumbers(p), WritePacket(p)
  PROVE  /\ Entries(buffered)' /\ Entries(pcap.records)'
         /\ pcap' = [link |-> pcap'.link, records |-> pcap'.records, torn |-> pcap'.torn]
<1> DEFINE r == Record(p, Min({Wire(p), conf.snaplen}), clock + 1)
<1>1. HasNumbers(r.p)
  BY RecordKept
<1> HIDE DEF r
<1>2. Entries(Append(buffered, r)) /\ Entries(<<>>)
  BY <1>1, KeptAppend, KeptEmpty DEF CapInv, CapTypes
<1>3. Entries(<<r>>)
  BY <1>1, KeptIn, <<r>> \in Seq({r})
<1>4. \/ buffered' = Append(buffered, r) /\ pcap' = pcap
      \/ buffered' = <<r>> /\ pcap' = Flushed
      \/ buffered' = <<>> /\ pcap' = [Flushed EXCEPT !.torn = TRUE]
  BY DEF WritePacket, r
<1> QED BY <1>2, <1>3, <1>4, FlushKeeps DEF CapInv, CapTypes

LEMMA StartStep == CapInv /\ Start => CapInv'
<1> SUFFICES ASSUME CapInv, Start PROVE CapInv'
  OBVIOUS
<1>1. shown = <<>> /\ shown' = <<>>
  BY DEF CapInv, NothingYet, Start
<1>2. Based' /\ SequenceAgrees'
  BY <1>1 DEF Based, SequenceAgrees
<1>3. CapTypes' /\ NothingYet'
  BY <1>1, KeptEmpty DEF CapInv, CapTypes, NothingYet, Start
<1> QED BY <1>2, <1>3 DEF CapInv

LEMMA QuietStep ==
  ASSUME CapInv, PickAdapter \/ OpenCapture \/ CtrlC \/ Top \/ NoPacket \/ ReadEnd
  PROVE  CapInv'
BY SilentKeeps
   DEF PickAdapter, OpenCapture, CtrlC, Top, NoPacket, ReadEnd, Silent, CapInv, CapTypes

LEMMA FileStep ==
  ASSUME CapInv, CreateFile \/ CloseFile \/ Killed
  PROVE  CapInv'
<1>1. CASE CreateFile
  BY <1>1, SilentKeeps, KeptEmpty DEF CreateFile, NoPcap, Silent, CapInv, CapTypes
<1>2. CASE CloseFile
  BY <1>2, SilentKeeps, KeptEmpty, FlushKeeps DEF CloseFile, Silent, CapInv, CapTypes
<1>3. CASE Killed
  BY <1>3, SilentKeeps, KeptEmpty DEF Killed, Silent, CapInv, CapTypes
<1> QED BY <1>1, <1>2, <1>3

LEMMA ReceiveStep == TrafficAssumption /\ CapInv /\ Receive => CapInv'
<1> SUFFICES ASSUME TrafficAssumption, CapInv, Receive PROVE CapInv'
  OBVIOUS
<1>1. PICK p \in Traffic :
        IF Parses(p, Wire(p)) /\ FilterMatches(conf.filter, p)
        THEN /\ PrintPacket(p, clock')
             /\ IF conf.write THEN WritePacket(p) ELSE UNCHANGED <<buffered, pcap>>
        ELSE UNCHANGED <<shown, isn, buffered, pcap>>
  BY DEF Receive
<1>2. HasNumbers(p) /\ UNCHANGED <<conf, rest>> /\ capStep' = "top"
  BY DEF TrafficAssumption, Receive, Packet, HasNumbers
<1>3. CASE Parses(p, Wire(p)) /\ FilterMatches(conf.filter, p)
  <2>1. /\ Entries(shown)' /\ (\A f \in DOMAIN isn : isn[f] \in Int)'
        /\ Based' /\ SequenceAgrees'
    BY <1>1, <1>2, <1>3, PrintKeeps
  <2>2. /\ Entries(buffered)' /\ Entries(pcap.records)'
        /\ pcap' = [link |-> pcap'.link, records |-> pcap'.records, torn |-> pcap'.torn]
    BY <1>1, <1>2, <1>3, WriteKeeps DEF CapInv, CapTypes
  <2> QED BY <1>2, <2>1, <2>2 DEF CapInv, CapTypes, NothingYet
<1>4. CASE ~(Parses(p, Wire(p)) /\ FilterMatches(conf.filter, p))
  BY <1>1, <1>2, <1>4, SilentKeeps DEF Silent, CapInv, CapTypes
<1> QED BY <1>3, <1>4

LEMMA ReadKeepsTypes == TrafficAssumption /\ CapInv /\ ReadRecord => CapInv'
<1> SUFFICES ASSUME TrafficAssumption, CapInv, ReadRecord PROVE CapInv'
  OBVIOUS
<1> DEFINE r == Head(rest)
           n == r.bytes - Skips[pcap.link]
           p == Parsed(r.p, n)
<1>1. HasNumbers(r.p) /\ Entries(Tail(rest))
  BY KeptTail DEF ReadRecord, CapInv, CapTypes
<1>2. HasNumbers(p)
  <2> HIDE DEF r, n
  <2> QED BY <1>1 DEF Parsed, HasNumbers
<1>3. UNCHANGED <<conf, buffered, pcap>> /\ capStep' \in {capStep, "exit"}
  BY DEF ReadRecord
<1>4. \/ rest' \in {rest, Tail(rest)} /\ UNCHANGED <<shown, isn>>
      \/ rest' = Tail(rest) /\ PrintPacket(p, r.at) /\ capStep' = "read"
  BY DEF ReadRecord
<1> HIDE DEF r, n, p
<1>5. CASE rest' \in {rest, Tail(rest)} /\ UNCHANGED <<shown, isn>>
  BY <1>1, <1>3, <1>5, SilentKeeps DEF Silent, CapInv, CapTypes
<1>6. CASE rest' = Tail(rest) /\ PrintPacket(p, r.at) /\ capStep' = "read"
  <2>1. /\ Entries(shown)' /\ (\A f \in DOMAIN isn : isn[f] \in Int)'
        /\ Based' /\ SequenceAgrees'
    BY <1>2, <1>3, <1>6, PrintKeeps
  <2> QED BY <1>1, <1>3, <1>6, <2>1 DEF CapInv, CapTypes, NothingYet
<1> QED BY <1>4, <1>5, <1>6

LEMMA RerunStep ==
  ASSUME CapInv, NEW next, Rerun(next)
  PROVE  CapInv'
<1>1. shown' = <<>> /\ isn' = NoFlows
  BY DEF Rerun
<1>2. Based' /\ SequenceAgrees'
  BY <1>1 DEF Based, SequenceAgrees
<1>3. CapTypes' /\ NothingYet'
  BY <1>1, KeptEmpty DEF CapInv, CapTypes, NothingYet, Rerun, NoFlows
<1> QED BY <1>2, <1>3 DEF CapInv

LEMMA CapStutter == CapInv /\ UNCHANGED capVars => CapInv'
BY SilentKeeps DEF capVars, Silent, CapInv, CapTypes

LEMMA CapInitInv == CapIdle => CapInv
BY KeptEmpty DEF CapIdle, CapInv, CapTypes, NothingYet, Based, SequenceAgrees, NoFlows, NoPcap

(* The relative numbers of two rows of one flow are as far apart, modulo   *)
(* the width of the numbers, as those of their packets, and a reply names  *)
(* the number that the row it answers printed, for any packets.            *)
THEOREM SequenceAgreesTheorem ==
  ASSUME NEW next
  PROVE  CapIdle /\ [][CapNext(next)]_capVars => []SequenceAgrees
<1>1. CapInv /\ [CapNext(next)]_capVars => CapInv'
  BY StartStep, QuietStep, FileStep, ReceiveStep, ReadKeepsTypes, RerunStep, CapStutter,
     TrafficAssumption
  DEF CapNext
<1>2. CapInv => SequenceAgrees
  BY DEF CapInv
<1> QED BY CapInitInv, <1>1, <1>2, PTL

-----------------------------------------------------------------------------
(* tcpdump, what it reads back.  The map of flows is a function of the rows*)
(* printed so far, so that a row is a function of its packet and those     *)
(* before it; the file, with what is in the buffer, holds one record for   *)
(* each row, in order; and as long as the records are those of the rows,   *)
(* reading them makes the rows again.                                      *)

(* Of the rows of a flow, the one its numbers are relative to: the last SYN*)
(* or, if there is none, the first row.                                    *)
TcpRows(out, n) == {i \in 1 .. n : out[i].p.proto = TCP}
BaseRow(out, n, f, i) ==
  /\ Fwd(out[i].p) = f
  /\ \A j \in TcpRows(out, n) : Fwd(out[j].p) = f =>
       /\ "syn" \in out[j].p.flags => j <= i
       /\ "syn" \notin out[i].p.flags => i <= j
Traced(t, out, n, off) ==
  /\ t = [f \in DOMAIN t |-> t[f]]
  /\ off => DOMAIN t = {}
  /\ ~off => /\ DOMAIN t = {Fwd(out[i].p) : i \in TcpRows(out, n)}
             /\ \A f \in DOMAIN t : \E i \in TcpRows(out, n) :
                  BaseRow(out, n, f, i) /\ t[f] = out[i].p.seq

LEMMA TracedUnique ==
  ASSUME NEW out, NEW n \in Nat, NEW off \in BOOLEAN, NEW t, Traced(t, out, n, off),
         NEW u, Traced(u, out, n, off)
  PROVE  t = u
<1>1. DOMAIN t = DOMAIN u
  BY DEF Traced
<1>2. ASSUME NEW f \in DOMAIN t PROVE t[f] = u[f]
  <2>1. ~off
    BY DEF Traced
  <2>2. PICK i \in TcpRows(out, n) : BaseRow(out, n, f, i) /\ t[f] = out[i].p.seq
    BY <2>1 DEF Traced
  <2>3. PICK j \in TcpRows(out, n) : BaseRow(out, n, f, j) /\ u[f] = out[j].p.seq
    BY <1>1, <2>1 DEF Traced
  <2>4. i \in Nat /\ j \in Nat
    BY DEF TcpRows
  <2>5. i = j
    BY <2>2, <2>3, <2>4 DEF BaseRow
  <2> QED BY <2>2, <2>3, <2>5
<1> QED BY <1>1, <1>2 DEF Traced

LEMMA TracedSame ==
  ASSUME NEW out, NEW other, NEW n \in Nat, \A i \in 1 .. n : other[i] = out[i],
         NEW off \in BOOLEAN, NEW t, Traced(t, out, n, off)
  PROVE  Traced(t, other, n, off)
<1>1. TcpRows(other, n) = TcpRows(out, n) /\ \A i \in TcpRows(out, n) : i \in 1 .. n
  BY DEF TcpRows
<1>2. ASSUME NEW f, NEW i \in TcpRows(out, n), BaseRow(out, n, f, i)
      PROVE  BaseRow(other, n, f, i)
  BY <1>1, <1>2 DEF BaseRow
<1>3. {Fwd(other[i].p) : i \in TcpRows(other, n)} = {Fwd(out[i].p) : i \in TcpRows(out, n)}
  BY <1>1
<1>4. ASSUME NEW f \in DOMAIN t, ~off
      PROVE  \E i \in TcpRows(other, n) : BaseRow(other, n, f, i) /\ t[f] = other[i].p.seq
  BY <1>1, <1>2, <1>4 DEF Traced
<1> QED BY <1>3, <1>4 DEF Traced

Off == conf.quiet \/ conf.absSeq

LEMMA TracedNext ==
  ASSUME NEW n \in Nat, NEW out, Traced(isn, shown, n, Off), NEW p, NEW at, PrintPacket(p, at),
         \A i \in 1 .. n : out[i] = shown[i], out[n + 1].p = p
  PROVE  Traced(isn', out, n + 1, Off)
<1>0. Off \in BOOLEAN
  BY DEF Off
<1>1. Traced(isn, out, n, Off)
  BY <1>0, TracedSame
<1>2. CASE ~Tracked(p)
  <2>1. isn' = isn
    BY <1>2 DEF PrintPacket, PrintPacketBy
  <2>2. CASE Off
    BY <1>1, <2>1, <2>2 DEF Traced
  <2>3. CASE ~Off
    <3>1. p.proto # TCP
      BY <1>2, <2>3 DEF Tracked, Off
    <3>2. TcpRows(out, n + 1) = TcpRows(out, n)
      BY <3>1 DEF TcpRows
    <3> QED BY <1>1, <2>1, <3>2 DEF Traced, BaseRow
  <2> QED BY <2>2, <2>3
<1>3. CASE Tracked(p)
  <2>1. ~Off /\ p.proto = TCP
    BY <1>3 DEF Tracked, Off
  <2>2. isn' = [f \in DOMAIN isn \cup {Fwd(p)} |-> IF f = Fwd(p) THEN Base(p) ELSE isn[f]]
    BY <1>3 DEF PrintPacket, PrintPacketBy
  <2>3. TcpRows(out, n + 1) = TcpRows(out, n) \cup {n + 1}
    BY <2>1 DEF TcpRows
  <2>4. DOMAIN isn' = {Fwd(out[i].p) : i \in TcpRows(out, n + 1)}
    <3>1. DOMAIN isn = {Fwd(out[i].p) : i \in TcpRows(out, n)}
      BY <1>1, <2>1 DEF Traced
    <3> QED BY <2>2, <2>3, <3>1
  <2>5. ASSUME NEW f \in DOMAIN isn'
        PROVE  \E i \in TcpRows(out, n + 1) :
                 BaseRow(out, n + 1, f, i) /\ isn'[f] = out[i].p.seq
    <3>1. CASE f # Fwd(p)
      <4>1. f \in DOMAIN isn /\ isn'[f] = isn[f]
        BY <2>2, <2>5, <3>1
      <4>2. PICK i \in TcpRows(out, n) : BaseRow(out, n, f, i) /\ isn[f] = out[i].p.seq
        BY <1>1, <2>1, <4>1 DEF Traced
      <4> QED BY <2>3, <3>1, <4>1, <4>2 DEF BaseRow
    <3>2. CASE f = Fwd(p) /\ "syn" \in p.flags
      <4>1. isn'[f] = out[n + 1].p.seq
        BY <2>2, <3>2 DEF Base
      <4>2. BaseRow(out, n + 1, f, n + 1)
        BY <3>2 DEF BaseRow, TcpRows
      <4> QED BY <2>3, <4>1, <4>2
    <3>3. CASE f = Fwd(p) /\ "syn" \notin p.flags /\ f \notin DOMAIN isn
      <4>1. isn'[f] = out[n + 1].p.seq
        BY <2>2, <3>3 DEF Base
      <4>2. \A j \in TcpRows(out, n) : Fwd(out[j].p) # f
        BY <1>1, <2>1, <3>3 DEF Traced
      <4>3. BaseRow(out, n + 1, f, n + 1)
        BY <2>3, <3>3, <4>2 DEF BaseRow
      <4> QED BY <2>3, <4>1, <4>3
    <3>4. CASE f = Fwd(p) /\ "syn" \notin p.flags /\ f \in DOMAIN isn
      <4>1. isn'[f] = isn[f]
        BY <2>2, <3>4 DEF Base
      <4>2. PICK i \in TcpRows(out, n) : BaseRow(out, n, f, i) /\ isn[f] = out[i].p.seq
        BY <1>1, <2>1, <3>4 DEF Traced
      <4>3. BaseRow(out, n + 1, f, i)
        BY <2>3, <3>4, <4>2 DEF BaseRow, TcpRows
      <4> QED BY <2>3, <4>1, <4>2, <4>3
    <3> QED BY <3>1, <3>2, <3>3, <3>4
  <2> QED BY <2>1, <2>2, <2>4, <2>5 DEF Traced
<1> QED BY <1>2, <1>3

-----------------------------------------------------------------------------
(* The row a packet gets, from the flows seen and the row before.          *)
RowBy(t, last, absolute, p, at) ==
  LET base == IF "syn" \in p.flags \/ Fwd(p) \notin DOMAIN t THEN p.seq ELSE t[Fwd(p)]
      peer == IF Rev(p) = Fwd(p) THEN base
              ELSE IF Rev(p) \in DOMAIN t THEN t[Rev(p)] ELSE (p.ack - 1) % Modulus
  IN [p |-> p, at |-> at, since |-> IF last = 0 THEN 0 ELSE at - last,
      seq |-> IF absolute THEN p.seq ELSE Relative(p.seq, base),
      ack |-> IF absolute THEN p.ack
              ELSE IF "ack" \in p.flags THEN Relative(p.ack, peer) ELSE p.ack]
LastAt(out, n) == IF n = 0 THEN 0 ELSE out[n].at

LEMMA RowIs ==
  ASSUME NEW p, NEW at
  PROVE  PacketRow(p, at) = RowBy(isn, prevTime, conf.absSeq, p, at)
BY DEF PacketRow, RowBy, Base, PeerBase, RelativeAck

(* Every row is the one its packet gets after those before it.             *)
Made(out, c) ==
  \A n \in DOMAIN out : \E t :
    /\ Traced(t, out, n - 1, c.quiet \/ c.absSeq)
    /\ out[n] = RowBy(t, LastAt(out, n - 1), c.absSeq, out[n].p, out[n].at)

(* What was printed so far.                                                *)
Printed ==
  /\ shown \in Seq(Range(shown)) /\ captured = Len(shown)
  /\ Traced(isn, shown, Len(shown), Off) /\ prevTime = LastAt(shown, Len(shown))
  /\ Made(shown, conf)

LEMMA NothingPrinted ==
  ASSUME NEW c, NEW off \in BOOLEAN
  PROVE  /\ <<>> \in Seq(Range(<<>>)) /\ Len(<<>>) = 0 /\ Made(<<>>, c)
         /\ Traced(NoFlows, <<>>, 0, off) /\ LastAt(<<>>, 0) = 0
<1>1. <<>> \in Seq(Range(<<>>)) /\ Len(<<>>) = 0 /\ DOMAIN <<>> = {}
  BY DEF Range
<1>2. Traced(NoFlows, <<>>, 0, off)
  BY DEF Traced, TcpRows, NoFlows
<1> QED BY <1>1, <1>2 DEF Made, LastAt

LEMMA PrintedNext ==
  ASSUME Printed, NEW p, NEW at, PrintPacket(p, at), captured' = captured + 1, conf' = conf
  PROVE  Printed'
<1> DEFINE row == PacketRow(p, at)
<1>1. PICK n \in Nat : n = Len(shown)
  BY DEF Printed
<1>2. /\ row = RowBy(isn, prevTime, conf.absSeq, p, at) /\ row.p = p /\ row.at = at
  BY RowIs DEF PacketRow
<1>3. shown' = Append(shown, row) /\ prevTime' = at
  BY DEF PrintPacket, PrintPacketBy
<1> HIDE DEF row
<1>4. /\ Len(shown') = n + 1 /\ DOMAIN shown' = 1 .. n + 1 /\ DOMAIN shown = 1 .. n
      /\ shown'[n + 1] = row /\ \A i \in 1 .. n : shown'[i] = shown[i]
  BY <1>1, <1>3 DEF Printed
<1>5. shown' \in Seq(Range(shown'))
  <2> DEFINE S == Range(shown) \cup {row}
  <2>1. shown \in Seq(S)
    BY DEF Printed
  <2>2. Append(shown, row) \in Seq(S)
    BY <2>1
  <2> QED BY <1>3, <2>2, InOwnRange
<1>6. Traced(isn, shown, n, Off) /\ Off \in BOOLEAN /\ Off' = Off
  BY <1>1 DEF Printed, Off
<1>7. Traced(isn', shown', n + 1, Off)
  BY <1>2, <1>4, <1>6, TracedNext
<1>8. prevTime' = LastAt(shown', n + 1)
  BY <1>2, <1>3, <1>4 DEF LastAt
<1>9. ASSUME NEW k \in 1 .. n + 1
      PROVE  \E t : /\ Traced(t, shown', k - 1, Off)
                    /\ shown'[k] = RowBy(t, LastAt(shown', k - 1), conf.absSeq, shown'[k].p,
                                         shown'[k].at)
  <2>1. CASE k = n + 1
    <3>1. Traced(isn, shown', n, Off)
      BY <1>4, <1>6, TracedSame
    <3>2. LastAt(shown', n) = prevTime
      BY <1>1, <1>4 DEF Printed, LastAt
    <3>3. shown'[k] = RowBy(isn, LastAt(shown', k - 1), conf.absSeq, shown'[k].p, shown'[k].at)
      BY <1>2, <1>4, <2>1, <3>2
    <3> QED BY <2>1, <3>1, <3>3
  <2>2. CASE k \in 1 .. n
    <3>1. PICK t : /\ Traced(t, shown, k - 1, Off)
                   /\ shown[k] =
                        RowBy(t, LastAt(shown, k - 1), conf.absSeq, shown[k].p, shown[k].at)
      BY <1>4, <2>2 DEF Printed, Made, Off
    <3>2. k - 1 \in Nat /\ \A i \in 1 .. k - 1 : shown'[i] = shown[i]
      BY <1>4, <2>2
    <3>3. Traced(t, shown', k - 1, Off)
      BY <1>6, <3>1, <3>2, TracedSame
    <3>4. LastAt(shown', k - 1) = LastAt(shown, k - 1)
      BY <2>2, <3>2 DEF LastAt
    <3> QED BY <1>4, <2>2, <3>1, <3>3, <3>4
  <2> QED BY <2>1, <2>2
<1>10. Made(shown', conf')
  BY <1>4, <1>9 DEF Made, Off
<1>11. captured' = Len(shown')
  BY <1>1, <1>4 DEF Printed
<1> QED BY <1>4, <1>5, <1>6, <1>7, <1>8, <1>10, <1>11 DEF Printed

-----------------------------------------------------------------------------
(* Folds over numbered things.                                             *)
(* The greatest number of a set.                                           *)
LEMMA MaxOfNat ==
  ASSUME NEW k \in Nat, NEW s \in SUBSET (0 .. k), s # {}
  PROVE  Max(s) \in s /\ \A i \in s : i <= Max(s)
<1> DEFINE above == {m \in Nat : \A i \in s : i <= m}
<1>1. k \in above /\ above \in SUBSET Nat
  OBVIOUS
<1>2. PICK m \in above : \A j \in above : m <= j
  BY <1>1, LeastOf
<1>3. m \in s
  <2> SUFFICES ASSUME m \notin s PROVE FALSE
    OBVIOUS
  <2>1. m # 0
    <3>1. PICK i : i \in s /\ i \in 0 .. k
      OBVIOUS
    <3>2. i <= m
      BY <1>2, <3>1
    <3>3. i # m
      BY <3>1
    <3> QED BY <1>2, <3>1, <3>2, <3>3
  <2>2. m - 1 \in above
    BY <1>2, <2>1
  <2> QED BY <1>2, <2>2
<1> QED BY <1>2, <1>3 DEF Max

LEMMA MaxOf ==
  ASSUME NEW k \in Nat, NEW s \in SUBSET (1 .. k), s # {}
  PROVE  Max(s) \in s /\ \A i \in s : i <= Max(s)
<1>1. s \in SUBSET (0 .. k)
  OBVIOUS
<1> QED BY <1>1, MaxOfNat

(* A fold from the left, by the sets of indices it has yet to see: there is*)
(* one, and it stays among the values its steps stay among.                *)
Folded(f, k, b, H) ==
  f = [s \in SUBSET (1 .. k) |-> IF s = {} THEN b ELSE H[<<Max(s), f[s \ {Max(s)}]>>]]

LEMMA FoldExists ==
  ASSUME NEW V, NEW b \in V, NEW n \in Nat, NEW H, \A i \in 1 .. n, v \in V : H[<<i, v>>] \in V
  PROVE  \A k \in 0 .. n : \E f \in [SUBSET (1 .. k) -> V] : Folded(f, k, b, H)
<1> DEFINE Stuck == {k \in 0 .. n : ~ \E f \in [SUBSET (1 .. k) -> V] : Folded(f, k, b, H)}
<1>1. SUFFICES ASSUME Stuck # {} PROVE FALSE
  OBVIOUS
<1>2. PICK m \in Stuck : \A k \in Stuck : m <= k
  <2>1. Stuck \in SUBSET Nat
    OBVIOUS
  <2> HIDE DEF Stuck
  <2> QED BY <1>1, <2>1, LeastOf
<1>3. CASE m = 0
  <2> DEFINE f == [s \in SUBSET (1 .. 0) |-> b]
  <2>1. \A s \in SUBSET (1 .. 0) : s = {}
    OBVIOUS
  <2>2. f \in [SUBSET (1 .. 0) -> V] /\ Folded(f, 0, b, H)
    BY <2>1 DEF Folded
  <2> QED BY <1>2, <1>3, <2>2
<1>4. CASE m # 0
  <2>1. m \in Nat /\ m \in 1 .. n /\ m - 1 \in 0 .. n /\ m - 1 \notin Stuck
    <3>1. m \in Nat /\ m \in 1 .. n /\ m - 1 \in 0 .. n /\ ~(m <= m - 1)
      BY <1>2, <1>4
    <3> HIDE DEF Stuck
    <3> QED BY <1>2, <3>1
  <2>2. PICK f \in [SUBSET (1 .. m - 1) -> V] : Folded(f, m - 1, b, H)
    BY <2>1
  <2> DEFINE g == [s \in SUBSET (1 .. m) |-> IF m \in s THEN H[<<m, f[s \ {m}]>>] ELSE f[s]]
  <2>3. \A s \in SUBSET (1 .. m) : s \ {m} \in SUBSET (1 .. m - 1)
    BY <2>1
  <2>4. g \in [SUBSET (1 .. m) -> V]
    <3> SUFFICES ASSUME NEW s \in SUBSET (1 .. m) PROVE g[s] \in V
      OBVIOUS
    <3>1. f[s \ {m}] \in V
      BY <2>2, <2>3
    <3>2. CASE m \in s
      BY <2>1, <3>1, <3>2
    <3>3. CASE m \notin s
      BY <3>1, <3>3
    <3> QED BY <3>2, <3>3
  <2>5. ASSUME NEW s \in SUBSET (1 .. m)
        PROVE  g[s] = IF s = {} THEN b ELSE H[<<Max(s), g[s \ {Max(s)}]>>]
    <3>1. CASE m \in s
      <4>1. Max(s) = m
        <5>1. ASSUME NEW i \in s PROVE i <= m
          <6>1. i \in 1 .. m
            OBVIOUS
          <6> QED BY <2>1, <6>1
        <5>2. Max(s) \in s /\ m <= Max(s)
          BY <2>1, <3>1, MaxOf
        <5>3. PICK x \in 1 .. m : x = Max(s)
          BY <2>1, <3>1, MaxOf
        <5> QED BY <2>1, <5>1, <5>2, <5>3
      <4>2. g[s \ {m}] = f[s \ {m}]
        BY <2>1
      <4> QED BY <3>1, <4>1, <4>2
    <3>2. CASE m \notin s /\ s # {}
      <4>1. s \in SUBSET (1 .. m - 1) /\ s \ {Max(s)} \in SUBSET (1 .. m - 1)
        BY <2>3, <3>2
      <4>2. g[s] = f[s] /\ g[s \ {Max(s)}] = f[s \ {Max(s)}]
        BY <3>2, <4>1
      <4>3. f[s] = H[<<Max(s), f[s \ {Max(s)}]>>]
        BY <2>2, <3>2, <4>1 DEF Folded
      <4> QED BY <3>2, <4>2, <4>3
    <3>3. CASE s = {}
      <4>1. g[s] = f[s] /\ s \in SUBSET (1 .. m - 1)
        BY <3>3
      <4> QED BY <2>2, <3>3, <4>1 DEF Folded
    <3> QED BY <3>1, <3>2, <3>3
  <2>6. Folded(g, m, b, H)
    <3>1. g = [s \in SUBSET (1 .. m) |-> g[s]]
      OBVIOUS
    <3> HIDE DEF g
    <3> QED BY <2>5, <3>1 DEF Folded
  <2> QED BY <1>2, <2>4, <2>6
<1> QED BY <1>3, <1>4

LEMMA FoldStays ==
  ASSUME NEW V, NEW k \in Nat, NEW g, g[{}] \in V,
         \A s \in SUBSET (1 .. k) : s # {} /\ g[s \ {Max(s)}] \in V => g[s] \in V
  PROVE  g[1 .. k] \in V
<1> DEFINE Astray == {m \in Nat : m <= k /\ \E s \in SUBSET (1 .. m) : g[s] \notin V}
<1>1. SUFFICES ASSUME Astray # {} PROVE FALSE
  OBVIOUS
<1>2. PICK m \in Astray : \A j \in Astray : m <= j
  BY <1>1, LeastOf
<1>3. PICK s \in SUBSET (1 .. m) : g[s] \notin V
  BY <1>2
<1>4. m \in Nat /\ m <= k /\ s # {} /\ s \in SUBSET (1 .. k)
  <2>1. m \in Nat /\ m <= k
    BY <1>2
  <2>2. s # {}
    BY <1>3
  <2> QED BY <2>1, <2>2
<1>5. Max(s) \in s /\ Max(s) \in 1 .. m /\ \A i \in s : i <= Max(s)
  BY <1>4, MaxOf
<1>6. s \ {Max(s)} \in SUBSET (1 .. m - 1) /\ m - 1 \in Nat /\ m - 1 <= k
  <2>1. PICK n \in 1 .. m : n = Max(s)
    BY <1>5
  <2>2. m - 1 \in Nat /\ m - 1 <= k
    BY <1>4, <2>1
  <2>3. ASSUME NEW i \in s \ {n} PROVE i \in 1 .. m - 1
    BY <1>3, <1>4, <1>5, <2>1
  <2> QED BY <2>1, <2>2, <2>3
<1>7. m - 1 \notin Astray
  <2>1. ~(m <= m - 1)
    BY <1>4
  <2> HIDE DEF Astray
  <2> QED BY <1>2, <2>1
<1>8. g[s \ {Max(s)}] \in V
  BY <1>6, <1>7
<1> QED BY <1>3, <1>4, <1>8

-----------------------------------------------------------------------------
(* What a command line is parsed to: numbers and switches.                 *)
WellParsed(c) ==
  /\ {c.count, c.snaplen} \subseteq Nat
  /\ {c.list, c.write, c.read, c.absSeq, c.quiet} \subseteq BOOLEAN
Filters(vals) ==
  [protocol : vals, host : vals, srcHost : vals, dstHost : vals, port : vals, srcPort : vals,
   dstPort : vals, negate : BOOLEAN]
Confs(vals) ==
  [filter : Filters(vals), list : BOOLEAN, iface : vals, count : Nat, write : BOOLEAN,
   read : BOOLEAN, absSeq : BOOLEAN, quiet : BOOLEAN, snaplen : Nat]

LEMMA ParseStays ==
  ASSUME NEW vals, NEW c \in Confs(vals), NEW t, t.val \in vals,
         t.tok \in {"count", "snaplen"} => t.val \in Nat
  PROVE  Parse(c, t) \in Confs(vals)
<1> DEFINE named == {"protocol", "host", "srcHost", "dstHost", "port", "srcPort", "dstPort"}
<1>0. DOMAIN NoFilter \ {"negate"} = named
  BY DEF NoFilter
<1>1. CASE t.tok \in {"list", "write", "read", "absSeq", "quiet"}
  <2>1. Parse(c, t) = [c EXCEPT ![t.tok] = TRUE]
    BY <1>0, <1>1 DEF Parse
  <2> HIDE DEF Filters
  <2> QED BY <1>1, <2>1 DEF Confs
<1>2. CASE t.tok \in {"iface", "count"}
  <2>1. Parse(c, t) = [c EXCEPT ![t.tok] = t.val]
    BY <1>0, <1>2 DEF Parse
  <2> QED BY <1>2, <2>1 DEF Confs
<1>3. CASE t.tok = "snaplen"
  <2>1. Parse(c, t) = [c EXCEPT !.snaplen = IF t.val = 0 THEN 99 ELSE t.val]
    BY <1>0, <1>3 DEF Parse
  <2> QED BY <1>3, <2>1 DEF Confs
<1>4. CASE t.tok = "not"
  <2>1. Parse(c, t) = [c EXCEPT !.filter.negate = ~@]
    BY <1>0, <1>4 DEF Parse
  <2>2. [c.filter EXCEPT !.negate = ~@] \in Filters(vals)
    BY DEF Confs, Filters
  <2> QED BY <2>1, <2>2 DEF Confs
<1>5. CASE t.tok \in named
  <2>1. Parse(c, t) = [c EXCEPT !.filter[t.tok] = t.val]
    BY <1>0, <1>5 DEF Parse
  <2>2. [c.filter EXCEPT ![t.tok] = t.val] \in Filters(vals)
    BY <1>5 DEF Confs, Filters
  <2> QED BY <2>1, <2>2 DEF Confs
<1>6. CASE /\ t.tok \notin {"list", "write", "read", "absSeq", "quiet", "iface", "count"}
           /\ t.tok \notin named \cup {"snaplen", "not"}
  BY <1>0, <1>6 DEF Parse
<1> QED BY <1>1, <1>2, <1>3, <1>4, <1>5, <1>6

LEMMA LineParses ==
  ASSUME NEW tokens, IsCommandLine(tokens)
  PROVE  WellParsed(ParseArgs(tokens))
<1> DEFINE n == Len(tokens)
           vals == {tokens[i].val : i \in 1 .. n} \cup {NoConf.iface, 0}
           V == Confs(vals)
           Step(v, i) == Parse(v, tokens[i])
           H == [p \in (1 .. n) \X V |-> Step(p[2], p[1])]
           Are(f) == f = [s \in SUBSET (1 .. n) |->
                            IF s = {} THEN NoConf ELSE Step(f[s \ {Max(s)}], Max(s))]
           g == CHOOSE f : Are(f)
<1>1. n \in Nat /\ DOMAIN tokens = 1 .. n
  <2> DEFINE W == ToSet(tokens)
  <2>1. tokens \in Seq(W)
    BY DEF IsCommandLine
  <2> HIDE DEF W
  <2> QED BY <2>1
<1>2. NoConf \in V
  <2> HIDE DEF n
  <2>1. NoConf.iface \in vals /\ 0 \in vals
    OBVIOUS
  <2> HIDE DEF vals
  <2>2. NoFilter \in Filters(vals)
    BY <2>1 DEF NoFilter, Filters
  <2> QED BY <2>1, <2>2 DEF NoConf, Confs
<1>3. \A i \in 1 .. n, v \in V : Step(v, i) \in V
  <2> SUFFICES ASSUME NEW i \in 1 .. n, NEW v \in V PROVE Step(v, i) \in V
    OBVIOUS
  <2>1. tokens[i].tok \in {"count", "snaplen"} => tokens[i].val \in Nat
    BY <1>1 DEF IsCommandLine
  <2>2. tokens[i].val \in vals
    OBVIOUS
  <2> HIDE DEF vals, n
  <2> QED BY <2>1, <2>2, ParseStays
<1>4. ParseArgs(tokens) = g[1 .. n]
  BY <1>1, Zenon DEF ParseArgs, FoldLeft, MapThenFoldSet
<1> HIDE DEF n, Step, V
<1>5. \E f : Are(f)
  <2>1. \A i \in 1 .. n, v \in V : H[<<i, v>>] = Step(v, i)
    OBVIOUS
  <2> HIDE DEF H
  <2>2. PICK f \in [SUBSET (1 .. n) -> V] : Folded(f, n, NoConf, H)
    <3>1. \A i \in 1 .. n, v \in V : H[<<i, v>>] \in V
      BY <1>3, <2>1
    <3>2. n \in 0 .. n
      BY <1>1
    <3> QED BY <1>1, <1>2, <3>1, <3>2, FoldExists
  <2>3. ASSUME NEW s \in SUBSET (1 .. n), s # {}
        PROVE  f[s] = Step(f[s \ {Max(s)}], Max(s))
    <3>1. Max(s) \in 1 .. n
      BY <1>1, <2>3, MaxOf
    <3> QED BY <2>1, <2>2, <2>3, <3>1 DEF Folded
  <2>4. f[{}] = NoConf
    BY <2>2 DEF Folded
  <2>5. Are(f)
    BY <2>2, <2>3, <2>4
  <2> QED BY <2>5
<1>6. Are(g)
  <2> HIDE DEF Are
  <2> QED BY <1>5
<1> HIDE DEF g
<1>7. g[{}] \in V
  BY <1>2, <1>6
<1>8. ASSUME NEW s \in SUBSET (1 .. n), s # {}, g[s \ {Max(s)}] \in V PROVE g[s] \in V
  <2>1. Max(s) \in 1 .. n
    BY <1>1, <1>8, MaxOf
  <2> QED BY <1>3, <1>6, <1>8, <2>1
<1> HIDE DEF Are
<1>9. g[1 .. n] \in V
  BY <1>1, <1>7, <1>8, FoldStays
<1>10. ParseArgs(tokens) \in Confs(vals)
  BY <1>4, <1>9 DEF V
<1> HIDE DEF vals
<1> QED BY <1>10 DEF Confs, WellParsed

-----------------------------------------------------------------------------
Good(out, c) ==
  \A i \in DOMAIN out :
    out[i].p \in Packet /\ out[i].p.v4 /\ FilterMatches(c.filter, out[i].p)
RecordOf(row, c) == Record(row.p, Min({Wire(row.p), c.snaplen}), row.at)
Stored(records, out, c) ==
  Len(records) <= Len(out) /\ \A i \in 1 .. Len(records) : records[i] = RecordOf(out[i], c)

Capturing == capStep \in {"top", "recv", "end"}
Phases ==
  /\ capStep \in {"adapter", "socket", "file"} \/ Capturing => ~conf.read
  /\ capStep \in {"parse", "adapter", "socket", "file"} =>
       shown = <<>> /\ isn = NoFlows /\ prevTime = 0 /\ captured = 0
  /\ ~Capturing => buffered = <<>>
  /\ capStep # "parse" => WellParsed(conf)

(* The file of a capture that goes on, with what is in its buffer.         *)
OnItsWay ==
  Capturing /\ conf.write =>
    /\ pcap.link = "raw" /\ Good(shown, conf)
    /\ pcap.torn => damaged /\ Stored(pcap.records, shown, conf)
    /\ ~pcap.torn => /\ Stored(pcap.records \o buffered, shown, conf)
                     /\ Len(pcap.records \o buffered) = Len(shown)

(* The file of the capture that wrote it.                                  *)
Filed ==
  live.conf.write /\ ~(Capturing /\ conf.write) =>
    /\ pcap.link = "raw" /\ live.rows \in Seq(Range(live.rows)) /\ WellParsed(live.conf)
    /\ Good(live.rows, live.conf) /\ Made(live.rows, live.conf)
    /\ Stored(pcap.records, live.rows, live.conf)
    /\ ~damaged => Len(pcap.records) = Len(live.rows)

(* What was read of it so far, with the options it was captured with.      *)
Comparing ==
  /\ live.conf.write
  /\ live.conf.filter = conf.filter /\ live.conf.absSeq = conf.absSeq
  /\ live.conf.quiet = conf.quiet
  /\ \A i \in DOMAIN live.rows : Wire(live.rows[i].p) <= live.conf.snaplen
ReadSoFar ==
  capStep = "read" =>
    /\ conf.count = 0 \/ captured <= conf.count
    /\ Comparing =>
         /\ Len(shown) + Len(rest) = Len(pcap.records)
         /\ \A i \in 1 .. Len(rest) : rest[i] = pcap.records[Len(shown) + i]
         /\ \A i \in 1 .. Len(shown) : shown[i] = live.rows[i]

BackInv == CapInv /\ Printed /\ Phases /\ OnItsWay /\ Filed /\ ReadSoFar /\ ReadBackIsWhole

LEMMA StoredPrefix ==
  ASSUME NEW S, NEW T, NEW s \in Seq(S), NEW t \in Seq(T), NEW out, NEW c,
         Stored(s \o t, out, c), Len(out) \in Nat
  PROVE  Stored(s, out, c)
<1>1. s \in Seq(S \cup T) /\ t \in Seq(S \cup T)
  OBVIOUS
<1>2. /\ Len(s \o t) = Len(s) + Len(t) /\ Len(s) \in Nat /\ Len(t) \in Nat
      /\ \A i \in 1 .. Len(s) : (s \o t)[i] = s[i]
  BY <1>1
<1> QED BY <1>2 DEF Stored

LEMMA StoredNext ==
  ASSUME NEW S, NEW s \in Seq(S), NEW out, NEW longer, NEW c, NEW r,
         Stored(s, out, c), Len(s) = Len(out), Len(longer) = Len(out) + 1,
         \A i \in 1 .. Len(out) : longer[i] = out[i],
         r = RecordOf(longer[Len(out) + 1], c)
  PROVE  Stored(Append(s, r), longer, c) /\ Len(Append(s, r)) = Len(longer)
<1>1. /\ Len(Append(s, r)) = Len(s) + 1 /\ Len(s) \in Nat
      /\ \A i \in 1 .. Len(s) : Append(s, r)[i] = s[i]
      /\ Append(s, r)[Len(s) + 1] = r
  <2>1. s \in Seq(S \cup {r})
    OBVIOUS
  <2> QED BY <2>1
<1> QED BY <1>1 DEF Stored

LEMMA StoredLonger ==
  ASSUME NEW S, NEW s \in Seq(S), NEW out, NEW longer, NEW c,
         Stored(s, out, c), Len(out) \in Nat, Len(longer) = Len(out) + 1,
         \A i \in 1 .. Len(out) : longer[i] = out[i]
  PROVE  Stored(s, longer, c)
<1>1. Len(s) \in Nat
  OBVIOUS
<1> QED BY <1>1 DEF Stored

LEMMA ConcatAppend ==
  ASSUME NEW S, NEW T, NEW s \in Seq(S), NEW t \in Seq(T), NEW r
  PROVE  s \o Append(t, r) = Append(s \o t, r)
<1> DEFINE U == S \cup T \cup {r}
<1>1. s \in Seq(U) /\ t \in Seq(U) /\ r \in U
  OBVIOUS
<1> HIDE DEF U
<1>2. s \o Append(t, r) = s \o (t \o <<r>>) /\ Append(s \o t, r) = (s \o t) \o <<r>>
  BY <1>1, AppendIsConcat, s \o t \in Seq(U)
<1>3. s \o (t \o <<r>>) = (s \o t) \o <<r>>
  BY <1>1, ConcatAssociative, <<r>> \in Seq(U)
<1> QED BY <1>2, <1>3

LEMMA FlushedIs ==
  ASSUME CapInv
  PROVE  /\ pcap.torn => Flushed = pcap
         /\ ~pcap.torn => /\ Flushed.records = pcap.records \o buffered
                          /\ Flushed.torn = pcap.torn /\ Flushed.link = pcap.link
         /\ Flushed = [link |-> Flushed.link, records |-> Flushed.records, torn |-> Flushed.torn]
BY DEF Flushed, FlushedWith, CapInv, CapTypes

LEMMA WriteStored ==
  ASSUME BackInv, Capturing, conf.write, NEW p \in Packet, p.v4, FilterMatches(conf.filter, p),
         PrintPacket(p, clock'), clock' = clock + 1, WritePacket(p), conf' = conf,
         capStep' = "top"
  PROVE  OnItsWay'
<1> DEFINE row == PacketRow(p, clock')
           r == Record(p, Min({Wire(p), conf.snaplen}), clock + 1)
           whole == pcap.records \o buffered
<1>1. PICK n \in Nat : n = Len(shown)
  BY DEF BackInv, Printed
<1>2. row.p = p /\ row.at = clock + 1 /\ r = RecordOf(row, conf)
  BY DEF PacketRow, RecordOf
<1>3. shown' = Append(shown, row)
  BY DEF PrintPacket, PrintPacketBy
<1> HIDE DEF row
<1>4. /\ Len(shown') = n + 1 /\ DOMAIN shown' = 1 .. n + 1 /\ DOMAIN shown = 1 .. n
      /\ shown'[n + 1] = row /\ \A i \in 1 .. n : shown'[i] = shown[i]
  BY <1>1, <1>3 DEF BackInv, Printed
<1>5. Good(shown', conf)
  BY <1>2, <1>4 DEF BackInv, OnItsWay, Good
<1>6. PICK S : pcap.records \in Seq(S) /\ buffered \in Seq(S)
  <2> DEFINE U == Range(pcap.records) \cup Range(buffered)
  <2>1. pcap.records \in Seq(U) /\ buffered \in Seq(U)
    BY DEF BackInv, CapInv, CapTypes, Entries
  <2> QED BY <2>1
<1>7. whole \in Seq(S)
  BY <1>6
<1>8. \/ buffered' = Append(buffered, r) /\ UNCHANGED <<pcap, damaged>>
      \/ buffered' = <<r>> /\ pcap' = Flushed /\ damaged' = damaged
      \/ buffered' = <<>> /\ damaged' = TRUE /\ pcap' = [Flushed EXCEPT !.torn = TRUE]
  BY DEF WritePacket
<1> HIDE DEF r
<1>9. CASE pcap.torn
  <2>1. Stored(pcap.records, shown, conf) /\ damaged
    BY <1>9 DEF BackInv, OnItsWay
  <2>2. Stored(pcap.records, shown', conf)
    BY <1>1, <1>4, <1>6, <2>1, StoredLonger
  <2>3. /\ pcap'.records = pcap.records /\ pcap'.torn /\ pcap'.link = pcap.link /\ damaged'
    BY <1>8, <1>9, <2>1, FlushedIs DEF BackInv, CapInv, CapTypes
  <2> QED BY <1>5, <2>2, <2>3 DEF BackInv, OnItsWay
<1>10. CASE ~pcap.torn
  <2>1. Stored(whole, shown, conf) /\ Len(whole) = Len(shown)
    BY <1>10 DEF BackInv, OnItsWay
  <2>2. /\ Flushed.records = whole /\ ~Flushed.torn /\ Flushed.link = "raw"
        /\ Flushed = [link |-> Flushed.link, records |-> Flushed.records, torn |-> Flushed.torn]
    BY <1>10, FlushedIs DEF BackInv, OnItsWay
  <2>3. Stored(Append(whole, r), shown', conf) /\ Len(Append(whole, r)) = Len(shown')
    <3>1. /\ Len(shown') = Len(shown) + 1 /\ \A i \in 1 .. Len(shown) : shown'[i] = shown[i]
          /\ r = RecordOf(shown'[Len(shown) + 1], conf)
      BY <1>1, <1>2, <1>4
    <3> HIDE DEF whole
    <3> QED BY <1>7, <2>1, <3>1, StoredNext
  <2>4. Stored(whole, shown', conf)
    BY <1>1, <1>4, <1>7, <2>1, StoredLonger
  <2>5. pcap.records \o Append(buffered, r) = Append(whole, r)
    <3>1. \A s, t \in Seq(S) : s \o Append(t, r) = Append(s \o t, r)
      BY ConcatAppend
    <3> QED BY <1>6, <3>1
  <2>6. whole \o <<r>> = Append(whole, r)
    BY <1>7, <<r>> \in Seq({r}), AppendIsConcat
  <2> HIDE DEF whole
  <2>7. CASE buffered' = Append(buffered, r) /\ UNCHANGED <<pcap, damaged>>
    <3>1. pcap'.records \o buffered' = Append(whole, r)
      BY <2>5, <2>7
    <3> QED BY <1>5, <1>10, <2>3, <2>7, <3>1 DEF BackInv, OnItsWay
  <2>8. CASE buffered' = <<r>> /\ pcap' = Flushed /\ damaged' = damaged
    <3>1. pcap'.records \o buffered' = Append(whole, r)
      BY <2>2, <2>6, <2>8
    <3> QED BY <1>5, <2>2, <2>3, <2>8, <3>1 DEF OnItsWay
  <2>9. CASE buffered' = <<>> /\ damaged' = TRUE /\ pcap' = [Flushed EXCEPT !.torn = TRUE]
    <3>1. pcap'.records = whole /\ pcap'.torn = TRUE /\ pcap'.link = "raw"
      BY <2>2, <2>9
    <3> QED BY <1>5, <2>4, <2>9, <3>1 DEF OnItsWay
  <2> QED BY <1>8, <2>7, <2>8, <2>9
<1> QED BY <1>9, <1>10

LEMMA PrintedSame ==
  ASSUME Printed, UNCHANGED <<conf, isn, shown, prevTime, captured>>
  PROVE  Printed'
BY DEF Printed, Made, Off

LEMMA OnItsWaySame ==
  ASSUME OnItsWay, UNCHANGED <<conf, shown, pcap, buffered, damaged>>, Capturing' => Capturing
  PROVE  OnItsWay'
BY DEF OnItsWay

LEMMA FiledSame ==
  ASSUME Filed, UNCHANGED <<live, pcap, damaged>>,
         Capturing /\ conf.write => (Capturing /\ conf.write)'
  PROVE  Filed'
BY DEF Filed

LEMMA BackStart ==
  ASSUME BackInv, Start, IsCommandLine(options)
  PROVE  BackInv'
<1>1. /\ shown = <<>> /\ isn = NoFlows /\ prevTime = 0 /\ captured = 0 /\ ~Capturing
      /\ UNCHANGED <<shown, isn, prevTime, captured, buffered, pcap, damaged, live>>
      /\ WellParsed(conf') /\ ~Capturing'
  BY LineParses DEF BackInv, Phases, Start, Capturing
<1>2. CapInv'
  BY StartStep DEF BackInv
<1>3. Printed'
  BY <1>1, NothingPrinted DEF Printed, Off
<1>4. Phases' /\ OnItsWay' /\ Filed'
  BY <1>1, FiledSame DEF BackInv, Phases, OnItsWay, Start, Capturing, WellParsed
<1>5. ReadSoFar'
  <2>1. Len(shown') = 0 /\ captured' = 0
    BY <1>1
  <2>2. CASE conf'.read
    <3>1. rest' = pcap'.records /\ Len(rest') \in Nat
      BY <2>2 DEF Start, BackInv, CapInv, CapTypes, Entries
    <3>2. conf'.count \in Nat
      BY <1>1 DEF WellParsed
    <3>3. 0 + Len(rest') = Len(pcap'.records) /\ \A i \in 1 .. Len(rest') : 0 + i = i
      BY <3>1
    <3>4. conf'.count = 0 \/ captured' <= conf'.count
      BY <2>1, <3>2
    <3> QED BY <2>1, <3>1, <3>3, <3>4 DEF ReadSoFar
  <2>3. CASE ~conf'.read
    BY <2>3 DEF Start, ReadSoFar
  <2> QED BY <2>2, <2>3
<1>6. ReadBackIsWhole'
  BY <1>1 DEF Start, ReadBackIsWhole, BackInv, Filed, WellParsed
<1> QED BY <1>2, <1>3, <1>4, <1>5, <1>6 DEF BackInv

LEMMA BackQuiet ==
  ASSUME BackInv, PickAdapter \/ OpenCapture \/ CtrlC \/ Top \/ NoPacket
  PROVE  BackInv'
<1>1. CapInv'
  BY QuietStep DEF BackInv
<1>2. /\ UNCHANGED <<conf, isn, shown, prevTime, captured, buffered, pcap, damaged, live>>
      /\ ~conf.read /\ (Capturing' <=> Capturing) /\ capStep' \notin {"parse", "read"}
      /\ capStep # "parse" /\ (capStep' \in {"adapter", "socket", "file"} => ~Capturing)
  BY DEF PickAdapter, OpenCapture, CtrlC, Top, NoPacket, Capturing, BackInv, Phases
<1>3. Printed' /\ OnItsWay' /\ Filed'
  BY <1>2, PrintedSame, OnItsWaySame, FiledSame DEF BackInv
<1>4. Phases'
  BY <1>2 DEF BackInv, Phases, Capturing, PickAdapter, OpenCapture, CtrlC, Top, NoPacket
<1>5. ReadSoFar' /\ ReadBackIsWhole'
  BY <1>2 DEF ReadSoFar, ReadBackIsWhole
<1> QED BY <1>1, <1>3, <1>4, <1>5 DEF BackInv

LEMMA BackCreate ==
  ASSUME BackInv, CreateFile
  PROVE  BackInv'
<1>1. CapInv'
  BY FileStep DEF BackInv
<1>2. /\ UNCHANGED <<conf, isn, shown, prevTime, captured, buffered, damaged, live>>
      /\ shown = <<>> /\ buffered = <<>> /\ ~Capturing /\ ~conf.read /\ WellParsed(conf)
      /\ capStep' \in {"top", "exit"}
  BY DEF BackInv, Phases, CreateFile, Capturing
<1>3. Printed'
  BY <1>2, PrintedSame DEF BackInv
<1>4. OnItsWay'
  <2> SUFFICES ASSUME conf.write, capStep' = "top" PROVE OnItsWay'
    BY <1>2 DEF OnItsWay, Capturing
  <2>1. pcap' = [NoPcap EXCEPT !.link = "raw"]
    BY <1>2 DEF CreateFile
  <2>2. pcap'.link = "raw" /\ pcap'.records = <<>> /\ pcap'.torn = FALSE
    BY <2>1 DEF NoPcap
  <2>3. pcap'.records \o buffered' = <<>>
    BY <1>2, <2>2
  <2>4. Len(<<>>) = 0 /\ DOMAIN <<>> = {} /\ shown' = <<>>
    BY <1>2
  <2>5. Stored(<<>>, <<>>, conf') /\ Good(<<>>, conf')
    BY <2>4 DEF Stored, Good
  <2> QED BY <2>2, <2>3, <2>4, <2>5 DEF OnItsWay
<1>5. Filed'
  BY <1>2, FiledSame DEF CreateFile, BackInv, Capturing, Filed
<1>6. Phases' /\ ReadSoFar' /\ ReadBackIsWhole'
  BY <1>2 DEF Phases, Capturing, ReadSoFar, ReadBackIsWhole
<1> QED BY <1>1, <1>3, <1>4, <1>5, <1>6 DEF BackInv

LEMMA BackReceive ==
  ASSUME BackInv, Receive, TrafficAssumption
  PROVE  BackInv'
<1>1. CapInv'
  BY ReceiveStep DEF BackInv
<1>2. /\ capStep = "recv" /\ capStep' = "top" /\ UNCHANGED <<conf, live>> /\ clock' = clock + 1
      /\ ~conf.read /\ WellParsed(conf)
  BY DEF Receive, BackInv, Phases, Capturing
<1>3. PICK p \in Traffic :
        IF Parses(p, Wire(p)) /\ FilterMatches(conf.filter, p)
        THEN /\ PrintPacket(p, clock') /\ captured' = captured + 1
             /\ IF conf.write THEN WritePacket(p) ELSE UNCHANGED <<buffered, pcap, damaged>>
        ELSE UNCHANGED <<shown, prevTime, isn, captured, buffered, pcap, damaged>>
  BY DEF Receive
<1>4. Phases' /\ ReadSoFar' /\ ReadBackIsWhole'
  BY <1>2 DEF Phases, Capturing, ReadSoFar, ReadBackIsWhole
<1>5. CASE Parses(p, Wire(p)) /\ FilterMatches(conf.filter, p)
  <2>1. Printed'
    BY <1>2, <1>3, <1>5, PrintedNext DEF BackInv
  <2>2. OnItsWay'
    <3>1. CASE conf.write
      <4>1. p \in Packet /\ p.v4
        BY <1>5 DEF TrafficAssumption, Parses
      <4>2. Capturing /\ PrintPacket(p, clock') /\ WritePacket(p) /\ FilterMatches(conf.filter, p)
        BY <1>2, <1>3, <1>5, <3>1 DEF Capturing
      <4> QED BY <1>2, <3>1, <4>1, <4>2, WriteStored
    <3>2. CASE ~conf.write
      BY <1>2, <3>2 DEF OnItsWay
    <3> QED BY <3>1, <3>2
  <2>3. Filed'
    BY <1>2, <1>3, <1>5, FiledSame DEF BackInv, Filed, Capturing
  <2> QED BY <1>1, <1>4, <2>1, <2>2, <2>3 DEF BackInv
<1>6. CASE ~(Parses(p, Wire(p)) /\ FilterMatches(conf.filter, p))
  <2>1. Printed' /\ OnItsWay' /\ Filed'
    BY <1>2, <1>3, <1>6, PrintedSame, OnItsWaySame, FiledSame DEF BackInv, Capturing
  <2> QED BY <1>1, <1>4, <2>1 DEF BackInv
<1> QED BY <1>5, <1>6

LEMMA FiledNow ==
  ASSUME BackInv, Capturing, live' = [rows |-> shown, conf |-> conf], capStep' = "exit",
         pcap'.link = pcap.link,
         \/ pcap'.records = pcap.records /\ damaged'
         \/ pcap'.records = Flushed.records /\ damaged' = damaged
  PROVE  Filed'
<1> SUFFICES ASSUME conf.write
             PROVE  /\ pcap.link = "raw" /\ shown \in Seq(Range(shown)) /\ WellParsed(conf)
                    /\ Good(shown, conf) /\ Made(shown, conf)
                    /\ Stored(pcap'.records, shown, conf)
                    /\ ~damaged' => Len(pcap'.records) = Len(shown)
  BY DEF Filed
<1>1. /\ pcap.link = "raw" /\ shown \in Seq(Range(shown)) /\ WellParsed(conf)
      /\ Good(shown, conf) /\ Made(shown, conf) /\ Len(shown) \in Nat
  BY DEF BackInv, Printed, Phases, OnItsWay, Capturing
<1>2. CASE pcap.torn
  BY <1>1, <1>2, FlushedIs DEF BackInv, OnItsWay
<1>3. CASE ~pcap.torn
  <2>1. /\ Stored(pcap.records \o buffered, shown, conf)
        /\ Len(pcap.records \o buffered) = Len(shown)
        /\ Flushed.records = pcap.records \o buffered
    BY <1>3, FlushedIs DEF BackInv, OnItsWay
  <2>2. Stored(pcap.records, shown, conf)
    BY <1>1, <2>1, StoredPrefix DEF BackInv, CapInv, CapTypes, Entries
  <2> QED BY <1>1, <2>1, <2>2
<1> QED BY <1>2, <1>3

LEMMA BackClose ==
  ASSUME BackInv, CloseFile \/ Killed
  PROVE  BackInv'
<1>1. CapInv'
  BY FileStep DEF BackInv
<1>2. /\ UNCHANGED <<conf, isn, shown, prevTime, captured>> /\ Capturing /\ capStep' = "exit"
      /\ buffered' = <<>> /\ live' = [rows |-> shown, conf |-> conf]
      /\ ~conf.read /\ WellParsed(conf)
  BY DEF CloseFile, Killed, Capturing, BackInv, Phases
<1>3. /\ pcap'.link = pcap.link
      /\ \/ pcap'.records = pcap.records /\ damaged'
         \/ pcap'.records = Flushed.records /\ damaged' = damaged
  BY FlushedIs DEF CloseFile, Killed, BackInv, CapInv, CapTypes
<1>4. Printed' /\ Filed'
  BY <1>2, <1>3, PrintedSame, FiledNow DEF BackInv
<1>5. Phases' /\ OnItsWay' /\ ReadSoFar' /\ ReadBackIsWhole'
  BY <1>2 DEF Phases, OnItsWay, Capturing, ReadSoFar, ReadBackIsWhole
<1> QED BY <1>1, <1>4, <1>5 DEF BackInv

LEMMA LeastOfTwo ==
  ASSUME NEW a \in Nat, NEW b \in Nat
  PROVE  Min({a, b}) = IF a <= b THEN a ELSE b
BY DEF Min

(* Reading changes nothing of the file.                                    *)
Reading ==
  /\ capStep = "read" /\ capStep' \in {"read", "exit"}
  /\ UNCHANGED <<conf, buffered, pcap, damaged, live>>

LEMMA ReadingKeeps ==
  ASSUME BackInv, Reading
  PROVE  /\ Phases' /\ OnItsWay' /\ Filed' /\ (Comparing' <=> Comparing) /\ WellParsed(conf)
         /\ buffered = <<>>
         /\ Comparing =>
              /\ pcap.link = "raw" /\ live.rows \in Seq(Range(live.rows)) /\ WellParsed(live.conf)
              /\ Good(live.rows, live.conf) /\ Made(live.rows, live.conf)
              /\ Stored(pcap.records, live.rows, live.conf)
              /\ ~damaged => Len(pcap.records) = Len(live.rows)
BY FiledSame DEF BackInv, Reading, Phases, Capturing, OnItsWay, Filed, Comparing

LEMMA BackReadEnd ==
  ASSUME BackInv, ReadEnd
  PROVE  BackInv'
<1>1. CapInv'
  BY QuietStep DEF BackInv
<1>2. /\ Reading /\ capStep' = "exit" /\ rest = <<>>
      /\ UNCHANGED <<isn, shown, prevTime, captured>>
  BY DEF ReadEnd, Reading
<1>3. Printed'
  BY <1>2, PrintedSame DEF BackInv, Reading
<1>4. ReadBackIsWhole'
  <2> SUFFICES ASSUME Comparing PROVE ReadBackIsWhole'
    BY <1>2, ReadingKeeps DEF ReadBackIsWhole, Reading, Comparing
  <2>1. /\ Len(shown) = Len(pcap.records) /\ Len(shown) \in Nat /\ captured = Len(shown)
        /\ \A i \in 1 .. Len(shown) : shown[i] = live.rows[i]
        /\ conf.count = 0 \/ captured <= conf.count
    BY <1>2 DEF BackInv, Printed, ReadSoFar, Reading
  <2>2. /\ Len(pcap.records) <= Len(live.rows) /\ Len(live.rows) \in Nat /\ conf.count \in Nat
        /\ ~damaged => Len(pcap.records) = Len(live.rows)
    BY <1>2, ReadingKeeps DEF Stored, WellParsed
  <2>3. Min({conf.count, Len(live.rows)})
          = IF conf.count <= Len(live.rows) THEN conf.count ELSE Len(live.rows)
    BY <2>2, LeastOfTwo
  <2>4. DOMAIN shown = 1 .. Len(shown)
    BY DEF BackInv, Printed
  <2> QED BY <1>2, <2>1, <2>2, <2>3, <2>4 DEF ReadBackIsWhole, SameRow, Reading
<1>5. ReadSoFar'
  BY <1>2 DEF ReadSoFar
<1> QED BY <1>1, <1>2, <1>3, <1>4, <1>5, ReadingKeeps DEF BackInv

(* The next record is that of the next row, whole, and its packet match.  *)
LEMMA NextRecord ==
  ASSUME BackInv, Reading, Comparing, rest # <<>>, TrafficAssumption, NEW k \in Nat,
         k = Len(shown)
  PROVE  /\ k + 1 \in 1 .. Len(live.rows) /\ Len(live.rows) \in Nat
         /\ LET r == Head(rest)
                n == r.bytes - Skips[pcap.link]
            IN /\ n > 0 /\ Parses(r.p, n) /\ Parsed(r.p, n) = r.p
               /\ FilterMatches(conf.filter, r.p)
               /\ r.p = live.rows[k + 1].p /\ r.at = live.rows[k + 1].at
<1> DEFINE r == Head(rest)
           row == live.rows[k + 1]
           p == row.p
<1>1. Len(rest) \in Nat \ {0} /\ r = rest[1]
  BY DEF BackInv, CapInv, CapTypes, Entries
<1>2. k + Len(rest) = Len(pcap.records) /\ rest[1] = pcap.records[k + 1]
  BY <1>1 DEF BackInv, ReadSoFar, Reading
<1>3. Len(live.rows) \in Nat /\ Len(pcap.records) \in Nat /\ Len(pcap.records) <= Len(live.rows)
  BY ReadingKeeps DEF Stored, BackInv, CapInv, CapTypes, Entries
<1>4. k + 1 \in 1 .. Len(pcap.records) /\ k + 1 \in 1 .. Len(live.rows)
  BY <1>1, <1>2, <1>3
<1>5. r = RecordOf(row, live.conf)
  BY <1>1, <1>2, <1>4, ReadingKeeps DEF Stored
<1>6. k + 1 \in DOMAIN live.rows
  BY <1>4, ReadingKeeps
<1>7. p \in Packet /\ p.v4 /\ FilterMatches(conf.filter, p) /\ Wire(p) <= live.conf.snaplen
  BY <1>6, ReadingKeeps DEF Good, Comparing
<1>8. Wire(p) \in Nat /\ Wire(p) = 2 + p.data /\ p.data \in Nat /\ live.conf.snaplen \in Nat
  <2>1. p.data \in Nat
    BY <1>7 DEF Packet
  <2>2. live.conf.snaplen \in Nat
    BY ReadingKeeps DEF WellParsed
  <2> QED BY <2>1, <2>2 DEF Wire, Headers
<1>9. Min({Wire(p), live.conf.snaplen}) = Wire(p)
  BY <1>7, <1>8, LeastOfTwo
<1>10. r.p = p /\ r.at = row.at /\ r.bytes = Wire(p)
  BY <1>5, <1>9 DEF RecordOf, Record
<1>11. r.bytes - Skips[pcap.link] = Wire(p)
  BY <1>8, <1>10, ReadingKeeps DEF TrafficAssumption
<1> HIDE DEF p, r
<1>12. Parsed(p, Wire(p)) = p
  BY <1>7, <1>8 DEF Parsed, Headers, Packet
<1>13. Wire(p) > 0 /\ Parses(p, Wire(p))
  BY <1>7, <1>8 DEF Parses
<1> QED BY <1>3, <1>4, <1>7, <1>10, <1>11, <1>12, <1>13 DEF r, p

LEMMA NextRow ==
  ASSUME BackInv, Reading, Comparing, NEW k \in Nat, k = Len(shown), k + 1 \in DOMAIN live.rows
  PROVE  PacketRow(live.rows[k + 1].p, live.rows[k + 1].at) = live.rows[k + 1]
<1> DEFINE new == live.rows[k + 1]
<1>1. Off = (live.conf.quiet \/ live.conf.absSeq) /\ conf.absSeq = live.conf.absSeq
  BY DEF Comparing, Off
<1>2. PICK t : /\ Traced(t, live.rows, k, Off)
               /\ new = RowBy(t, LastAt(live.rows, k), conf.absSeq, new.p, new.at)
  BY <1>1, ReadingKeeps DEF Made
<1>3. \A i \in 1 .. k : live.rows[i] = shown[i]
  BY DEF BackInv, ReadSoFar, Reading
<1>4. Traced(isn, shown, k, Off) /\ Off \in BOOLEAN
  BY DEF BackInv, Printed, Off
<1>5. t = isn
  <2>1. Traced(isn, live.rows, k, Off)
    BY <1>3, <1>4, TracedSame
  <2> QED BY <1>2, <1>4, <2>1, TracedUnique
<1>6. prevTime = LastAt(live.rows, k)
  BY <1>3 DEF BackInv, Printed, LastAt
<1> QED BY <1>2, <1>5, <1>6, RowIs

LEMMA BackRead ==
  ASSUME BackInv, ReadRecord, TrafficAssumption
  PROVE  BackInv'
<1> DEFINE r == Head(rest)
           n == r.bytes - Skips[pcap.link]
           p == Parsed(r.p, n)
           match == n > 0 /\ Parses(r.p, n) /\ FilterMatches(conf.filter, p)
<1>1. CapInv'
  BY ReadKeepsTypes DEF BackInv
<1>2. Reading /\ rest # <<>>
  BY DEF ReadRecord, Reading
<1>3. \/ /\ match /\ Enough /\ capStep' = "exit"
         /\ UNCHANGED <<rest, shown, prevTime, isn, captured>>
      \/ /\ ~match /\ rest' = Tail(rest) /\ capStep' = "read"
         /\ UNCHANGED <<shown, prevTime, isn, captured>>
      \/ /\ match /\ ~Enough /\ rest' = Tail(rest) /\ capStep' = "read"
         /\ PrintPacket(p, r.at) /\ captured' = captured + 1
  BY DEF ReadRecord
<1>4. PICK k \in Nat : k = Len(shown)
  BY DEF BackInv, Printed
<1>5. /\ captured = k /\ conf.count \in Nat /\ (conf.count = 0 \/ k <= conf.count)
      /\ Enough <=> (conf.count # 0 /\ k >= conf.count)
  BY <1>2, <1>4, ReadingKeeps DEF BackInv, Printed, ReadSoFar, Reading, WellParsed, Enough
<1>6. Comparing =>
        /\ match /\ k + 1 \in 1 .. Len(live.rows) /\ Len(live.rows) \in Nat
        /\ p = live.rows[k + 1].p /\ r.at = live.rows[k + 1].at
  BY <1>2, <1>4, NextRecord
<1> HIDE DEF r, n, p, match
<1>7. Printed'
  BY <1>2, <1>3, PrintedSame, PrintedNext DEF BackInv, Reading
<1>8. ReadSoFar'
  <2> SUFFICES ASSUME capStep' = "read", rest' = Tail(rest)
               PROVE  ReadSoFar'
    BY <1>3 DEF ReadSoFar
  <2>1. conf'.count = 0 \/ captured' <= conf'.count
    BY <1>2, <1>3, <1>5 DEF Reading
  <2> SUFFICES ASSUME Comparing
               PROVE  /\ Len(shown') + Len(rest') = Len(pcap'.records)
                      /\ \A i \in 1 .. Len(rest') : rest'[i] = pcap'.records[Len(shown') + i]
                      /\ \A i \in 1 .. Len(shown') : shown'[i] = live'.rows[i]
    BY <1>2, <2>1, ReadingKeeps DEF ReadSoFar
  <2>2. PrintPacket(p, r.at)
    BY <1>3, <1>6
  <2>3. shown' = Append(shown, live.rows[k + 1])
    <3>1. PacketRow(p, r.at) = live.rows[k + 1]
      BY <1>2, <1>4, <1>6, NextRow, ReadingKeeps
    <3> QED BY <2>2, <3>1 DEF PrintPacket, PrintPacketBy
  <2>4. /\ Len(shown') = k + 1 /\ shown'[k + 1] = live.rows[k + 1]
        /\ \A i \in 1 .. k : shown'[i] = shown[i]
    BY <1>4, <2>3 DEF BackInv, Printed
  <2>5. /\ Len(rest) \in Nat \ {0} /\ Len(rest') = Len(rest) - 1
        /\ \A i \in 1 .. Len(rest') : i + 1 \in 1 .. Len(rest) /\ rest'[i] = rest[i + 1]
    BY <1>2 DEF BackInv, CapInv, CapTypes, Entries
  <2>6. /\ k + Len(rest) = Len(pcap.records)
        /\ \A i \in 1 .. Len(rest) : rest[i] = pcap.records[k + i]
        /\ \A i \in 1 .. k : shown[i] = live.rows[i]
    BY <1>2, <1>4 DEF BackInv, ReadSoFar, Reading
  <2>7. pcap' = pcap /\ live' = live
    BY <1>2 DEF Reading
  <2>8. \A i \in 1 .. Len(rest') : rest'[i] = pcap.records[(k + 1) + i]
    <3> SUFFICES ASSUME NEW i \in 1 .. Len(rest') PROVE rest'[i] = pcap.records[(k + 1) + i]
      OBVIOUS
    <3>1. i \in Int /\ i + 1 \in 1 .. Len(rest) /\ rest'[i] = rest[i + 1]
      BY <2>5
    <3>2. rest[i + 1] = pcap.records[k + (i + 1)]
      BY <2>6, <3>1
    <3>3. k + (i + 1) = (k + 1) + i
      BY <3>1
    <3> QED BY <3>1, <3>2, <3>3
  <2>9. Len(shown') + Len(rest') = Len(pcap.records)
    <3>1. PICK m \in Nat : m = Len(rest)
      BY <2>5
    <3>2. k \in Nat /\ Len(shown') = k + 1
      BY <1>4, <2>4
    <3>3. Len(rest') = m - 1 /\ k + m = Len(pcap.records)
      BY <2>5, <2>6, <3>1
    <3>4. (k + 1) + (m - 1) = k + m
      BY <3>1, <3>2
    <3> QED BY <3>2, <3>3, <3>4, Zenon
  <2>10. \A i \in 1 .. Len(shown') : shown'[i] = live.rows[i]
    <3> SUFFICES ASSUME NEW i \in 1 .. k + 1 PROVE shown'[i] = live.rows[i]
      BY <2>4
    <3>1. i = k + 1 \/ i \in 1 .. k
      OBVIOUS
    <3> QED BY <2>4, <2>6, <3>1
  <2> QED BY <2>4, <2>7, <2>8, <2>9, <2>10
<1>9. ReadBackIsWhole'
  <2> SUFFICES ASSUME Comparing, capStep' = "exit" PROVE ReadBackIsWhole'
    BY <1>2, ReadingKeeps DEF ReadBackIsWhole, Reading, Comparing
  <2>1. Enough /\ shown' = shown
    BY <1>3
  <2>2. k = conf.count /\ conf.count # 0
    BY <1>5, <2>1
  <2>3. Min({conf.count, Len(live.rows)}) = k
    BY <1>5, <1>6, <2>2, LeastOfTwo
  <2>4. \A i \in DOMAIN shown : shown[i] = live.rows[i]
    BY <1>2 DEF BackInv, ReadSoFar, Reading, Printed
  <2> QED BY <1>2, <1>4, <2>1, <2>2, <2>3, <2>4 DEF ReadBackIsWhole, SameRow, Reading
<1> QED BY <1>1, <1>2, <1>7, <1>8, <1>9, ReadingKeeps DEF BackInv

LEMMA BackRerun ==
  ASSUME BackInv, NEW next, Rerun(next)
  PROVE  BackInv'
<1>1. CapInv'
  BY RerunStep DEF BackInv
<1>2. /\ shown' = <<>> /\ isn' = NoFlows /\ prevTime' = 0 /\ captured' = 0 /\ capStep' = "parse"
      /\ UNCHANGED <<conf, buffered, pcap, damaged, live>> /\ capStep = "exit" /\ buffered = <<>>
  BY DEF Rerun, BackInv, Phases, Capturing
<1>3. Printed'
  <2>1. Off' \in BOOLEAN
    BY DEF Off
  <2> QED BY <1>2, <2>1, NothingPrinted DEF Printed
<1>4. Filed' /\ Phases' /\ OnItsWay' /\ ReadSoFar' /\ ReadBackIsWhole'
  BY <1>2, FiledSame DEF BackInv, Phases, Capturing, OnItsWay, ReadSoFar, ReadBackIsWhole
<1> QED BY <1>1, <1>3, <1>4 DEF BackInv

LEMMA BackStutter ==
  ASSUME BackInv, UNCHANGED capVars
  PROVE  BackInv'
<1>1. CapInv'
  BY CapStutter DEF BackInv
<1>2. Printed' /\ Filed' /\ OnItsWay'
  BY PrintedSame, FiledSame, OnItsWaySame DEF BackInv, capVars, Capturing
<1>3. Phases' /\ ReadSoFar' /\ ReadBackIsWhole'
  BY DEF BackInv, Phases, Capturing, ReadSoFar, Comparing, ReadBackIsWhole, capVars
<1> QED BY <1>1, <1>2, <1>3 DEF BackInv

LEMMA BackInit == CapIdle /\ capStep = "parse" => BackInv
<1> SUFFICES ASSUME CapIdle, capStep = "parse" PROVE BackInv
  OBVIOUS
<1>1. CapInv
  BY CapInitInv
<1>2. Off \in BOOLEAN
  BY DEF Off
<1>3. Printed
  BY <1>2, NothingPrinted DEF CapIdle, Printed
<1> QED BY <1>1, <1>3 DEF CapIdle, BackInv, Phases, Capturing, OnItsWay, Filed, ReadSoFar,
                          ReadBackIsWhole, NoLive, NoConf

(* Reading the file of a capture with the same options prints the rows it  *)
(* printed, up to the count, and all of them unless a write failed or the  *)
(* program was killed, for any packets and any command lines.              *)
THEOREM ReadBackIsWholeTheorem ==
  ASSUME NEW typed, \A c \in typed : IsCommandLine(c)
  PROVE  /\ CapIdle /\ capStep = "parse" /\ options \in typed
         /\ [][CapNext(typed)]_capVars
         => []ReadBackIsWhole
<1> DEFINE I == BackInv /\ options \in typed
<1>1. CapIdle /\ capStep = "parse" /\ options \in typed => I
  BY BackInit
<1>2. I /\ [CapNext(typed)]_capVars => I'
  <2> SUFFICES ASSUME I, [CapNext(typed)]_capVars PROVE I'
    OBVIOUS
  <2>1. options' \in typed
    BY DEF CapNext, Start, PickAdapter, OpenCapture, CreateFile, CtrlC, Top, NoPacket, Receive,
           CloseFile, Killed, ReadRecord, ReadEnd, Rerun, capVars
  <2>2. BackInv'
    BY BackStart, BackQuiet, BackCreate, BackReceive, BackClose, BackRead, BackReadEnd, BackRerun,
       BackStutter, TrafficAssumption DEF CapNext
  <2> QED BY <2>1, <2>2
<1>3. I => ReadBackIsWhole
  BY DEF BackInv
<1> QED BY <1>1, <1>2, <1>3, PTL
=============================================================================
