----------------------------- MODULE NanoProofs -----------------------------
(***************************************************************************)
(* The text and the cursor of the editor, for any letters, files, commands *)
(* and searches.  The text is kept: on the way out it is in its file, and  *)
(* on the way from one key to the next it is among the snapshots.  The     *)
(* cursor stays in the buffer, and Replace All leaves no instance.         *)
(***************************************************************************)
EXTENDS Nano, FiniteSetTheorems, SequenceTheorems, WellFoundedInduction, TLAPS

-----------------------------------------------------------------------------
(* A buffer that does not differ from its file, as the editor has it, does *)
(* not, unless a write that nobody needed damaged the file; and no editor  *)
(* quits with a buffer that does, but to discard it.                       *)
Flags == modified \in BOOLEAN /\ failed \in BOOLEAN
Saved == ~modified /\ ~failed => AsLines(lines) = Content(filename)
KeptIsSaved == quit = "kept" => ~modified

SaveInv == Flags /\ Saved /\ KeptIsSaved

LEMMA AsLinesTwice ==
  ASSUME NEW text
  PROVE  AsLines(AsLines(text)) = AsLines(text)
BY DEF AsLines, Blank

LEMMA InitSaved == Init => SaveInv
<1> SUFFICES ASSUME Init PROVE SaveInv
  OBVIOUS
<1>1. AsLines(Content(filename)) = Content(filename)
  BY DEF Content, AsLines, Blank
<1> QED BY <1>1 DEF Init, SaveInv, Flags, Saved, KeptIsSaved

(* What writes no file leaves the text alone, or says that it differs.     *)
LEMMA SameText ==
  ASSUME SaveInv, UNCHANGED <<lines, modified, files>>, quit' \in {quit, "discarded", "panic"}
  PROVE  SaveInv'
BY DEF SaveInv, Flags, Saved, KeptIsSaved, files, AsLines, Content

LEMMA NewText ==
  ASSUME SaveInv, quit = "no", modified' = TRUE, UNCHANGED <<files, quit>>
  PROVE  SaveInv'
BY DEF SaveInv, Flags, Saved, KeptIsSaved, files

(* A write that fails leaves modified as it was.                           *)
LEMMA WriteSaves ==
  ASSUME SaveInv, NEW f, Write(f), filename' = f, lines' = lines
  PROVE  Flags' /\ Saved'
<1>1. CASE disk' = Holding(f, AsLines(lines)) /\ modified' = FALSE /\ failed' = FALSE
  <2>1. f \in DOMAIN disk' /\ disk'[f] = AsLines(lines)
    BY <1>1 DEF Holding
  <2>2. Content(filename)' = AsLines(AsLines(lines))
    BY <2>1 DEF Content
  <2>3. AsLines(lines)' = AsLines(lines)
    BY DEF AsLines
  <2> QED BY <1>1, <2>2, <2>3, AsLinesTwice DEF Flags, Saved
<1>2. CASE modified' = (modified /\ ~FALSE) /\ failed' = (failed \/ ~modified)
  BY <1>2 DEF SaveInv, Flags, Saved
<1> QED BY <1>1, <1>2 DEF Write, AnyWrite

LEMMA WriteOutSaves ==
  ASSUME SaveInv, WriteOut, lines' = lines
  PROVE  Flags' /\ Saved'
BY WriteSaves DEF WriteOut

LEMMA MoveSaved == ASSUME SaveInv, Move PROVE SaveInv'
<1>1. UNCHANGED <<lines, modified, files, quit>>
  BY DEF Move, Go, Clamped, NextRow, Up, Down, PageUp, PageDown, Left, Right, Home, End, WordFwd,
         WordBack, FirstLine, LastLine, GoToLine, Search
<1> QED BY <1>1, SameText

LEMMA EditSaved ==
  ASSUME SaveInv, Idle, NEW text, NEW y, NEW x, Edit(text, y, x)
  PROVE  SaveInv'
BY NewText DEF Edit, Idle

LEMMA ChangeSaved == ASSUME SaveInv, Change PROVE SaveInv'
<1>1. CASE Copy
  BY <1>1, SameText DEF Copy
<1>2. ASSUME NEW block, InsertLines(block) PROVE SaveInv'
  BY <1>2, EditSaved DEF InsertLines, May
<1>3. CASE Newline \/ Backspace \/ Delete \/ Paste \/ Justify
  BY <1>3, EditSaved DEF Newline, Backspace, Delete, Paste, Justify, May
<1>4. CASE Cut
  BY <1>4, EditSaved DEF Cut, AnyCut, May
<1> QED BY <1>1, <1>2, <1>3, <1>4 DEF Change, RunCommand, InsertFile

LEMMA KeySaved == ASSUME SaveInv, Key PROVE SaveInv'
<1>1. CASE Typing
  BY <1>1, NewText DEF Typing, InsertTab, InsertChar, Typed, May, Idle
<1>2. CASE Undo \/ Redo
  BY <1>2, NewText DEF Undo, Redo, AnyRedo, Idle
<1>3. CASE Save \/ SaveAs
  <2>1. lines' = lines /\ quit = "no" /\ quit' = quit
    BY <1>3 DEF Save, SaveAs, May, Idle
  <2>2. (Write(filename) /\ filename' = filename) \/ WriteOut
    BY <1>3 DEF Save, SaveAs
  <2> QED BY <2>1, <2>2, WriteSaves, WriteOutSaves DEF SaveInv, KeptIsSaved
<1>4. CASE Exit
  <2>1. CASE ~modified /\ quit' = "kept" /\ UNCHANGED <<modified, files, lines>>
    BY <2>1 DEF SaveInv, Flags, Saved, KeptIsSaved, files, AsLines, Content
  <2>2. CASE quit' = "discarded" /\ UNCHANGED <<modified, files, lines>>
    BY <2>2, SameText
  <2>3. CASE WriteOut /\ quit' = (IF modified' THEN "no" ELSE "kept") /\ lines' = lines
    BY <2>3, WriteOutSaves DEF SaveInv, KeptIsSaved
  <2> QED BY <1>4, <2>1, <2>2, <2>3 DEF Exit
<1>5. CASE Panic \/ \E t \in Terms, w \in Repls : Replace(t, w)
  BY <1>5, SameText DEF Panic, Replace
<1> QED BY <1>1, <1>2, <1>3, <1>4, <1>5, MoveSaved, ChangeSaved DEF Key

LEMMA ReplacingSaved == ASSUME SaveInv, Replacing PROVE SaveInv'
<1>1. PICK r \in rep : ReplaceStep(r)
  BY DEF Replacing
<1>2. quit = "no" /\ UNCHANGED <<files, quit>>
  BY <1>1 DEF ReplaceStep
<1>3. modified' = TRUE \/ UNCHANGED <<lines, modified>>
  BY <1>1 DEF ReplaceStep, NoneLeft, AnyNoneLeft, Skip, Cancel, Answered, Substitute, AnySubstitute
<1> QED BY <1>2, <1>3, SameText, NewText

LEMMA NextSaved == ASSUME SaveInv, [Next]_vars PROVE SaveInv'
<1>1. CASE UNCHANGED vars
  BY <1>1, SameText DEF vars, files
<1> QED BY <1>1, KeySaved, ReplacingSaved DEF Next

(* Whichever keys were pressed, files written and writes failed: an editor *)
(* that quits without discarding its text leaves it in its file, unless a  *)
(* write of a buffer that was not modified damaged that.                   *)
THEOREM QuitKeepsTextTheorem == Spec => []QuitKeepsText
<1>1. SaveInv => QuitKeepsText
  BY DEF SaveInv, Saved, KeptIsSaved, QuitKeepsText
<1> QED BY InitSaved, NextSaved, <1>1, PTL DEF Spec

-----------------------------------------------------------------------------
(* The snapshots are sequences, at most MaxUndo of them.                   *)
Snapshots == undo \in Seq(Range(undo)) /\ redo \in Seq(Range(redo))

LEMMA Appended ==
  ASSUME NEW s, s \in Seq(Range(s)), NEW x
  PROVE  Append(s, x) \in Seq(Range(Append(s, x))) /\ x \in Range(Append(s, x))
<1> DEFINE r == Append(s, x)
<1>1. /\ s \in Seq(Range(s) \cup {x}) /\ Len(s) \in Nat /\ DOMAIN s = 1 .. Len(s)
  OBVIOUS
<1>2. /\ r \in Seq(Range(s) \cup {x}) /\ Len(r) = Len(s) + 1
      /\ r[Len(s) + 1] = x /\ DOMAIN r = 1 .. Len(s) + 1
  BY <1>1
<1> HIDE DEF r
<1>3. \A i \in 1 .. Len(r) : r[i] \in Range(r)
  BY <1>1, <1>2 DEF Range
<1>4. r \in Seq(Range(r))
  BY <1>1, <1>2, <1>3
<1>5. x \in Range(r)
  BY <1>1, <1>2 DEF Range
<1> QED BY <1>4, <1>5 DEF r

LEMMA Shortened ==
  ASSUME NEW s, s \in Seq(Range(s)), s # <<>>
  PROVE  /\ Tail(s) \in Seq(Range(Tail(s))) /\ Front(s) \in Seq(Range(Front(s)))
<1>1. Len(s) \in Nat \ {0} /\ DOMAIN s = 1 .. Len(s)
  OBVIOUS
<1>2. Tail(s) \in Seq(Range(Tail(s)))
  <2> DEFINE t == Tail(s)
  <2>1. t \in Seq(Range(s)) /\ Len(t) \in Nat /\ DOMAIN t = 1 .. Len(t)
    OBVIOUS
  <2> HIDE DEF t
  <2>2. \A i \in 1 .. Len(t) : t[i] \in Range(t)
    BY <2>1 DEF Range
  <2>3. t \in Seq(Range(t))
    BY <2>1, <2>2
  <2> QED BY <2>3 DEF t
<1>3. Front(s) \in Seq(Range(Front(s)))
  <2> DEFINE t == Front(s)
  <2>1. t \in Seq(Range(s)) /\ Len(t) \in Nat /\ DOMAIN t = 1 .. Len(t)
    BY <1>1 DEF Front
  <2> HIDE DEF t
  <2>2. \A i \in 1 .. Len(t) : t[i] \in Range(t)
    BY <2>1 DEF Range
  <2>3. t \in Seq(Range(t))
    BY <2>1, <2>2
  <2> QED BY <2>3 DEF t
<1> QED BY <1>2, <1>3

LEMMA SnappedIsSnapshots ==
  ASSUME Snapshots
  PROVE  Snapped \in Seq(Range(Snapped)) /\ Snap \in Range(Snapped) /\ Snapped # <<>>
<1> DEFINE kept == IF Len(undo) >= MaxUndo THEN Tail(undo) ELSE undo
<1>1. kept \in Seq(Range(kept))
  <2>1. Len(undo) >= MaxUndo => undo # <<>>
    BY UndoAssumption DEF Snapshots
  <2> QED BY <2>1, Shortened DEF Snapshots
<1>2. Snapped = Append(kept, Snap)
  BY DEF Snapped
<1> HIDE DEF kept
<1>3. Snapped \in Seq(Range(Snapped)) /\ Snap \in Range(Snapped)
  BY <1>1, <1>2, Appended
<1>4. Range(<<>>) = {}
  BY DEF Range
<1> QED BY <1>3, <1>4

(* A step keeps the text, or the snapshots hold it afterwards.             *)
KeepsText == lines' = lines \/ \E s \in Range(undo') \cup Range(redo') : s.lines = lines
Stays == UNCHANGED <<lines, undo, redo>>

LEMMA EmptyIsSnapshots == <<>> \in Seq(Range(<<>>))
OBVIOUS

LEMMA EditKeeps ==
  ASSUME Snapshots, NEW text, NEW y, NEW x, Edit(text, y, x)
  PROVE  Snapshots' /\ KeepsText
<1>1. Snap.lines = lines
  BY DEF Snap
<1> QED BY <1>1, SnappedIsSnapshots, EmptyIsSnapshots DEF Edit, Snapshots, KeepsText

LEMMA MoveStays == ASSUME Move PROVE Stays
BY DEF Move, Go, Clamped, NextRow, Up, Down, PageUp, PageDown, Left, Right, Home, End, WordFwd,
       WordBack, FirstLine, LastLine, GoToLine, Search, Stays

LEMMA ChangeKeeps == ASSUME Snapshots, Change PROVE Snapshots' /\ (KeepsText \/ Stays)
<1>1. CASE Copy
  BY <1>1 DEF Copy, Stays, Snapshots, KeepsText
<1>2. ASSUME NEW block, InsertLines(block) PROVE Snapshots' /\ KeepsText
  BY <1>2, EditKeeps DEF InsertLines
<1>3. CASE Newline \/ Backspace \/ Delete \/ Paste \/ Justify
  BY <1>3, EditKeeps DEF Newline, Backspace, Delete, Paste, Justify
<1>4. CASE Cut
  BY <1>4, EditKeeps DEF Cut, AnyCut
<1> QED BY <1>1, <1>2, <1>3, <1>4 DEF Change, RunCommand, InsertFile

LEMMA UndoKeeps ==
  ASSUME Snapshots, Undo \/ Redo
  PROVE  Snapshots' /\ KeepsText
<1>1. Snap.lines = lines
  BY DEF Snap
<1>2. CASE Undo
  <2>1. undo # <<>> /\ undo' = Front(undo) /\ redo' = Append(redo, Snap)
    BY <1>2 DEF Undo
  <2> QED BY <1>1, <2>1, Shortened, Appended DEF Snapshots, KeepsText
<1>3. CASE Redo
  <2>1. redo # <<>> /\ redo' = Front(redo) /\ undo' = Append(undo, Snap)
    BY <1>3 DEF Redo, AnyRedo
  <2> QED BY <1>1, <2>1, Shortened, Appended DEF Snapshots, KeepsText
<1> QED BY <1>2, <1>3

(* Typing takes no snapshot, and drops none.                               *)
LEMMA KeyKeeps == ASSUME Snapshots, Key PROVE Snapshots' /\ (Typing \/ KeepsText)
<1>1. CASE Typing
  BY <1>1 DEF Typing, InsertTab, InsertChar, Typed, Snapshots
<1>2. CASE Stays
  BY <1>2 DEF Stays, Snapshots, KeepsText
<1>3. CASE Save \/ SaveAs \/ Exit \/ Panic \/ \E t \in Terms, w \in Repls : Replace(t, w)
  BY <1>2, <1>3 DEF Save, SaveAs, Exit, Panic, Replace, Stays
<1> QED BY <1>1, <1>2, <1>3, MoveStays, ChangeKeeps, UndoKeeps DEF Key

(* A replacement's snapshot is taken after the cursor has moved.           *)
LEMMA ReplacingKeeps == ASSUME Snapshots, Replacing PROVE Snapshots' /\ KeepsText
<1>1. PICK r \in rep : ReplaceStep(r)
  BY DEF Replacing
<1>2. CASE Stays
  BY <1>2 DEF Stays, Snapshots, KeepsText
<1>3. ASSUME NEW at, NEW all, Substitute(r, at, all) PROVE Snapshots' /\ KeepsText
  <2> DEFINE snap == [lines |-> lines, cy |-> cy', cx |-> cx']
  <2>1. undo' = Append(Front(Snapped), snap) /\ redo' = <<>>
    BY <1>3 DEF Substitute, AnySubstitute
  <2>2. Front(Snapped) \in Seq(Range(Front(Snapped))) /\ snap.lines = lines
    BY SnappedIsSnapshots, Shortened
  <2> HIDE DEF snap
  <2> QED BY <2>1, <2>2, Appended, EmptyIsSnapshots DEF Snapshots, KeepsText
<1>4. Stays \/ \E at \in Found(r) : Substitute(r, at, r.all) \/ Substitute(r, at, TRUE)
  BY <1>1 DEF ReplaceStep, NoneLeft, AnyNoneLeft, Skip, Cancel, Answered, Stays
<1> QED BY <1>2, <1>3, <1>4

(* No key loses text: what an undo, a redo, an edit or a replacement takes *)
(* off the screen is a snapshot afterwards; what typing takes is not.      *)
THEOREM TextRecoverableTheorem == Spec => TextRecoverable
<1>1. Init => Snapshots
  BY EmptyIsSnapshots DEF Init, Snapshots
<1>2. Snapshots /\ [Next]_vars =>
        Snapshots' /\ [Typing \/ lines' = lines
                         \/ \E s \in Range(undo') \cup Range(redo') : s.lines = lines]_vars
  <2>1. CASE UNCHANGED vars
    BY <2>1 DEF vars, Snapshots
  <2> QED BY <2>1, KeyKeeps, ReplacingKeeps DEF Next, KeepsText
<1> QED BY <1>1, <1>2, PTL DEF Spec, TextRecoverable

-----------------------------------------------------------------------------
(* Numbers and sequences: the least and the greatest of a set, parts of a  *)
(* sequence, and what folds over one give.                                 *)
LEMMA LeastOf ==
  ASSUME NEW S \in SUBSET Nat, S # {}
  PROVE  \E n \in S : \A k \in S : n <= k
<1> DEFINE U == {0 .. k : k \in S}
<1>1. U \subseteq FiniteSubsetsOf(Nat) /\ U # {}
  <2>1. \A k \in S : 0 .. k \in SUBSET Nat /\ IsFiniteSet(0 .. k)
    BY FS_Interval
  <2> QED BY <2>1 DEF FiniteSubsetsOf
<1>2. PICK X \in U : \A Y \in U : <<Y, X>> \notin StrictSubsetOrdering(Nat)
  <2> HIDE DEF U
  <2> QED BY <1>1, FS_StrictSubsetOrderingWellFounded, WFMin
<1>3. PICK n \in S : X = 0 .. n
  OBVIOUS
<1>4. \A m \in S : n <= m
  <2>1. SUFFICES ASSUME NEW m \in S, m < n PROVE FALSE
    OBVIOUS
  <2>2. 0 .. m \subseteq 0 .. n /\ 0 .. m # 0 .. n /\ 0 .. m \in SUBSET Nat /\ 0 .. n \in SUBSET Nat
    BY <2>1
  <2>3. <<0 .. m, 0 .. n>> \in StrictSubsetOrdering(Nat)
    BY <2>2 DEF StrictSubsetOrdering
  <2> QED BY <1>2, <1>3, <2>3
<1> QED BY <1>4

(* The least of a set of numbers.                                          *)
LEMMA MinOf ==
  ASSUME NEW S \in SUBSET Nat, S # {}
  PROVE  Min(S) \in S /\ \A k \in S : Min(S) <= k
<1>1. \E n \in S : \A k \in S : n <= k
  BY LeastOf
<1> QED BY <1>1 DEF Min

(* The greatest number of a set that may hold 0.                           *)
LEMMA MaxOfNat ==
  ASSUME NEW k \in Nat, NEW s \in SUBSET (0 .. k), s # {}
  PROVE  Max(s) \in s /\ \A i \in s : i <= Max(s)
<1> DEFINE above == {m \in Nat : \A i \in s : i <= m}
<1>1. k \in above /\ above \in SUBSET Nat
  OBVIOUS
<1>2. PICK m \in above : \A j \in above : m <= j
  BY <1>1, LeastOf
<1>3. m \in s
  <2> SUFFICES ASSUME m \notin s PROVE FALSE
    OBVIOUS
  <2>1. m # 0
    <3>1. PICK i : i \in s /\ i \in 0 .. k
      OBVIOUS
    <3>2. i <= m
      BY <1>2, <3>1
    <3>3. i # m
      BY <3>1
    <3> QED BY <1>2, <3>1, <3>2, <3>3
  <2>2. m - 1 \in above
    BY <1>2, <2>1
  <2> QED BY <1>2, <2>2
<1> QED BY <1>2, <1>3 DEF Max

LEMMA MaxOf ==
  ASSUME NEW k \in Nat, NEW s \in SUBSET (1 .. k), s # {}
  PROVE  Max(s) \in s /\ \A i \in s : i <= Max(s)
<1>1. s \in SUBSET (0 .. k)
  OBVIOUS
<1> QED BY <1>1, MaxOfNat

(* Parts of sequences, and sequences with an element more or less.         *)
LEMMA PartOf ==
  ASSUME NEW S, NEW s \in Seq(S), NEW m \in 1 .. Len(s) + 1, NEW n \in 0 .. Len(s)
  PROVE  /\ SubSeq(s, m, n) \in Seq(S)
         /\ Len(SubSeq(s, m, n)) = IF m <= n THEN n - m + 1 ELSE 0
         /\ \A i \in 1 .. n - m + 1 : SubSeq(s, m, n)[i] = s[m + i - 1]
<1>1. Len(s) \in Nat /\ m \in Int /\ n \in Int
  OBVIOUS
<1>2. ASSUME NEW i \in m .. n PROVE s[i] \in S
  <2>1. i \in 1 .. Len(s)
    BY <1>1
  <2> QED BY <2>1
<1> QED BY <1>1, <1>2, SubSeqProperties

LEMMA Removed ==
  ASSUME NEW S, NEW s \in Seq(S), NEW i \in 1 .. Len(s)
  PROVE  /\ RemoveAt(s, i) \in Seq(S)
         /\ Len(RemoveAt(s, i)) = Len(s) - 1
         /\ \A j \in 1 .. i - 1 : RemoveAt(s, i)[j] = s[j]
<1>1. Len(s) \in Nat /\ i - 1 \in 0 .. Len(s) /\ i + 1 \in 1 .. Len(s) + 1 /\ 1 \in 1 .. Len(s) + 1
      /\ Len(s) \in 0 .. Len(s)
  OBVIOUS
<1> DEFINE a == SubSeq(s, 1, i - 1)
           b == SubSeq(s, i + 1, Len(s))
<1>2. a \in Seq(S) /\ Len(a) = i - 1 /\ \A j \in 1 .. i - 1 : a[j] = s[j]
  BY <1>1, PartOf
<1>3. b \in Seq(S) /\ Len(b) = Len(s) - i
  <2>1. Len(b) = IF i + 1 <= Len(s) THEN Len(s) - (i + 1) + 1 ELSE 0
    BY <1>1, PartOf
  <2>2. b \in Seq(S)
    BY <1>1, PartOf
  <2> QED BY <1>1, <2>1, <2>2
<1>4. RemoveAt(s, i) = a \o b
  BY DEF RemoveAt
<1> HIDE DEF a, b
<1>5. a \o b \in Seq(S) /\ Len(a \o b) = (i - 1) + (Len(s) - i)
      /\ \A j \in 1 .. Len(a) + Len(b) : (a \o b)[j] = IF j <= Len(a) THEN a[j] ELSE b[j - Len(a)]
  <2>1. a \in Seq(S) /\ b \in Seq(S)
    BY <1>2, <1>3
  <2>2. a \o b \in Seq(S) /\ Len(a \o b) = Len(a) + Len(b)
        /\ \A j \in 1 .. Len(a) + Len(b) : (a \o b)[j] = IF j <= Len(a) THEN a[j] ELSE b[j - Len(a)]
    BY <2>1, ConcatProperties, Zenon
  <2> QED BY <1>2, <1>3, <2>2, Zenon
<1>6. (i - 1) + (Len(s) - i) = Len(s) - 1
  BY <1>1
<1>7. ASSUME NEW j \in 1 .. i - 1 PROVE (a \o b)[j] = s[j]
  <2>1. j \in 1 .. (i - 1) + (Len(s) - i) /\ j <= i - 1
    BY <1>1
  <2> QED BY <1>2, <1>3, <1>5, <2>1
<1> QED BY <1>4, <1>5, <1>6, <1>7

LEMMA InsertedAt ==
  ASSUME NEW S, NEW s \in Seq(S), NEW i \in 1 .. Len(s) + 1, NEW e \in S
  PROVE  InsertAt(s, i, e) \in Seq(S) /\ Len(InsertAt(s, i, e)) = Len(s) + 1
<1>1. Len(s) \in Nat /\ i - 1 \in 0 .. Len(s) /\ 1 \in 1 .. Len(s) + 1 /\ Len(s) \in 0 .. Len(s)
  OBVIOUS
<1> DEFINE a == SubSeq(s, 1, i - 1)
           b == SubSeq(s, i, Len(s))
<1>2. a \in Seq(S) /\ Len(a) = i - 1
  BY <1>1, PartOf
<1>3. b \in Seq(S) /\ Len(b) = Len(s) - i + 1
  <2>1. Len(b) = IF i <= Len(s) THEN Len(s) - i + 1 ELSE 0
    BY <1>1, PartOf
  <2>2. b \in Seq(S)
    BY <1>1, PartOf
  <2> QED BY <1>1, <2>1, <2>2
<1>4. InsertAt(s, i, e) = a \o <<e>> \o b
  BY DEF InsertAt
<1> HIDE DEF a, b
<1>5. <<e>> \in Seq(S) /\ Len(<<e>>) = 1
  OBVIOUS
<1>6. a \o <<e>> \in Seq(S) /\ Len(a \o <<e>>) = i - 1 + 1
  BY <1>2, <1>5, ConcatProperties
<1>7. a \o <<e>> \o b \in Seq(S) /\ Len(a \o <<e>> \o b) = i - 1 + 1 + (Len(s) - i + 1)
  <2> DEFINE c == a \o <<e>>
  <2>1. c \in Seq(S) /\ b \in Seq(S) /\ Len(c) = i - 1 + 1 /\ Len(b) = Len(s) - i + 1
    BY <1>3, <1>6
  <2> HIDE DEF c
  <2>2. c \o b \in Seq(S) /\ Len(c \o b) = Len(c) + Len(b)
    BY <2>1, ConcatProperties, Zenon
  <2>3. c \o b \in Seq(S) /\ Len(c \o b) = i - 1 + 1 + (Len(s) - i + 1)
    BY <2>1, <2>2, Zenon
  <2> QED BY <2>3 DEF c
<1> QED BY <1>1, <1>4, <1>7

(* A fold from the left, by the sets of indices it has yet to see: there is*)
(* one, and it stays among the values its steps stay among.                *)
Folded(f, k, b, H) ==
  f = [s \in SUBSET (1 .. k) |-> IF s = {} THEN b ELSE H[<<Max(s), f[s \ {Max(s)}]>>]]

LEMMA FoldExists ==
  ASSUME NEW V, NEW b \in V, NEW n \in Nat, NEW H, \A i \in 1 .. n, v \in V : H[<<i, v>>] \in V
  PROVE  \A k \in 0 .. n : \E f \in [SUBSET (1 .. k) -> V] : Folded(f, k, b, H)
<1> DEFINE Stuck == {k \in 0 .. n : ~ \E f \in [SUBSET (1 .. k) -> V] : Folded(f, k, b, H)}
<1>1. SUFFICES ASSUME Stuck # {} PROVE FALSE
  OBVIOUS
<1>2. PICK m \in Stuck : \A k \in Stuck : m <= k
  <2>1. Stuck \in SUBSET Nat
    OBVIOUS
  <2> HIDE DEF Stuck
  <2> QED BY <1>1, <2>1, LeastOf
<1>3. CASE m = 0
  <2> DEFINE f == [s \in SUBSET (1 .. 0) |-> b]
  <2>1. \A s \in SUBSET (1 .. 0) : s = {}
    OBVIOUS
  <2>2. f \in [SUBSET (1 .. 0) -> V] /\ Folded(f, 0, b, H)
    BY <2>1 DEF Folded
  <2> QED BY <1>2, <1>3, <2>2
<1>4. CASE m # 0
  <2>1. m \in Nat /\ m \in 1 .. n /\ m - 1 \in 0 .. n /\ m - 1 \notin Stuck
    <3>1. m \in Nat /\ m \in 1 .. n /\ m - 1 \in 0 .. n /\ ~(m <= m - 1)
      BY <1>2, <1>4
    <3> HIDE DEF Stuck
    <3> QED BY <1>2, <3>1
  <2>2. PICK f \in [SUBSET (1 .. m - 1) -> V] : Folded(f, m - 1, b, H)
    BY <2>1
  <2> DEFINE g == [s \in SUBSET (1 .. m) |-> IF m \in s THEN H[<<m, f[s \ {m}]>>] ELSE f[s]]
  <2>3. \A s \in SUBSET (1 .. m) : s \ {m} \in SUBSET (1 .. m - 1)
    BY <2>1
  <2>4. g \in [SUBSET (1 .. m) -> V]
    <3> SUFFICES ASSUME NEW s \in SUBSET (1 .. m) PROVE g[s] \in V
      OBVIOUS
    <3>1. f[s \ {m}] \in V
      BY <2>2, <2>3
    <3>2. CASE m \in s
      BY <2>1, <3>1, <3>2
    <3>3. CASE m \notin s
      BY <3>1, <3>3
    <3> QED BY <3>2, <3>3
  <2>5. ASSUME NEW s \in SUBSET (1 .. m)
        PROVE  g[s] = IF s = {} THEN b ELSE H[<<Max(s), g[s \ {Max(s)}]>>]
    <3>1. CASE m \in s
      <4>1. Max(s) = m
        <5>1. ASSUME NEW i \in s PROVE i <= m
          <6>1. i \in 1 .. m
            OBVIOUS
          <6> QED BY <2>1, <6>1
        <5>2. Max(s) \in s /\ m <= Max(s)
          BY <2>1, <3>1, MaxOf
        <5>3. PICK x \in 1 .. m : x = Max(s)
          BY <2>1, <3>1, MaxOf
        <5> QED BY <2>1, <5>1, <5>2, <5>3
      <4>2. g[s \ {m}] = f[s \ {m}]
        BY <2>1
      <4> QED BY <3>1, <4>1, <4>2
    <3>2. CASE m \notin s /\ s # {}
      <4>1. s \in SUBSET (1 .. m - 1) /\ s \ {Max(s)} \in SUBSET (1 .. m - 1)
        BY <2>3, <3>2
      <4>2. g[s] = f[s] /\ g[s \ {Max(s)}] = f[s \ {Max(s)}]
        BY <3>2, <4>1
      <4>3. f[s] = H[<<Max(s), f[s \ {Max(s)}]>>]
        BY <2>2, <3>2, <4>1 DEF Folded
      <4> QED BY <3>2, <4>2, <4>3
    <3>3. CASE s = {}
      <4>1. g[s] = f[s] /\ s \in SUBSET (1 .. m - 1)
        BY <3>3
      <4> QED BY <2>2, <3>3, <4>1 DEF Folded
    <3> QED BY <3>1, <3>2, <3>3
  <2>6. Folded(g, m, b, H)
    <3>1. g = [s \in SUBSET (1 .. m) |-> g[s]]
      OBVIOUS
    <3> HIDE DEF g
    <3> QED BY <2>5, <3>1 DEF Folded
  <2> QED BY <1>2, <2>4, <2>6
<1> QED BY <1>3, <1>4

LEMMA FoldStays ==
  ASSUME NEW V, NEW k \in Nat, NEW g, g[{}] \in V,
         \A s \in SUBSET (1 .. k) : s # {} /\ g[s \ {Max(s)}] \in V => g[s] \in V
  PROVE  g[1 .. k] \in V
<1> DEFINE Off == {m \in Nat : m <= k /\ \E s \in SUBSET (1 .. m) : g[s] \notin V}
<1>1. SUFFICES ASSUME Off # {} PROVE FALSE
  OBVIOUS
<1>2. PICK m \in Off : \A j \in Off : m <= j
  BY <1>1, LeastOf
<1>3. PICK s \in SUBSET (1 .. m) : g[s] \notin V
  BY <1>2
<1>4. m \in Nat /\ m <= k /\ s # {} /\ s \in SUBSET (1 .. k)
  <2>1. m \in Nat /\ m <= k
    BY <1>2
  <2>2. s # {}
    BY <1>3
  <2> QED BY <2>1, <2>2
<1>5. Max(s) \in s /\ Max(s) \in 1 .. m /\ \A i \in s : i <= Max(s)
  BY <1>4, MaxOf
<1>6. s \ {Max(s)} \in SUBSET (1 .. m - 1) /\ m - 1 \in Nat /\ m - 1 <= k
  <2>1. PICK n \in 1 .. m : n = Max(s)
    BY <1>5
  <2>2. m - 1 \in Nat /\ m - 1 <= k
    BY <1>4, <2>1
  <2>3. ASSUME NEW i \in s \ {n} PROVE i \in 1 .. m - 1
    BY <1>3, <1>4, <1>5, <2>1
  <2> QED BY <2>1, <2>2, <2>3
<1>7. m - 1 \notin Off
  <2>1. ~(m <= m - 1)
    BY <1>4
  <2> HIDE DEF Off
  <2> QED BY <1>2, <2>1
<1>8. g[s \ {Max(s)}] \in V
  BY <1>6, <1>7
<1> QED BY <1>3, <1>4, <1>8

-----------------------------------------------------------------------------
(* Words and what they fill are text.                                      *)
Line == Seq(Chars)
WordLists == Text \ {<<>>}

LEMMA Ends ==
  ASSUME NEW S, NEW s \in Seq(S), s # <<>>
  PROVE  Front(s) \in Seq(S) /\ Last(s) \in S /\ Len(Front(s)) = Len(s) - 1
<1>1. Len(s) \in Nat \ {0} /\ s \in [1 .. Len(s) -> S]
  <2>1. Len(s) \in Nat /\ s \in [1 .. Len(s) -> S]
    OBVIOUS
  <2>2. Len(s) # 0
    BY EmptySeq
  <2> QED BY <2>1, <2>2
<1>2. Len(s) \in 1 .. Len(s) /\ Len(s) - 1 \in 0 .. Len(s) /\ 1 \in 1 .. Len(s) + 1
  BY <1>1
<1>3. Last(s) \in S
  BY <1>1, <1>2 DEF Last
<1>4. \A i \in 1 .. Len(s) - 1 : i \in 1 .. Len(s)
  BY <1>1
<1>5. Front(s) \in Seq(S) /\ Len(Front(s)) = Len(s) - 1
  <2>1. PICK n \in Nat : n = Len(s) - 1
    <3>1. Len(s) - 1 \in Nat
      BY <1>1
    <3> QED BY <3>1
  <2>2. \A i \in 1 .. n : s[i] \in S
    BY <1>1, <1>4, <2>1
  <2>3. SubSeq(s, 1, n) \in Seq(S) /\ Len(SubSeq(s, 1, n)) = IF 1 <= n THEN n - 1 + 1 ELSE 0
    BY <2>2, SubSeqProperties
  <2>4. Front(s) = SubSeq(s, 1, n)
    BY <2>1, Zenon DEF Front
  <2>5. n = IF 1 <= n THEN n - 1 + 1 ELSE 0
    OBVIOUS
  <2> QED BY <2>1, <2>3, <2>4, <2>5, Zenon
<1> QED BY <1>3, <1>5

LEMMA TakeWord ==
  ASSUME NEW v \in WordLists, NEW c \in Chars
  PROVE  Take(v, c) \in WordLists
<1>1. v \in Text /\ Front(v) \in Text /\ Last(v) \in Line
  BY Ends DEF WordLists, Text, Line
<1>2. Append(Last(v), c) \in Line /\ <<>> \in Line
  BY <1>1 DEF Line
<1>3. ASSUME NEW t \in Text, NEW w \in Line PROVE Append(t, w) \in WordLists
  <2>1. t \in Seq(Line) /\ Append(t, w) \in Seq(Line) /\ Len(Append(t, w)) = Len(t) + 1
    BY DEF Text, Line
  <2>2. Len(t) + 1 # 0 /\ Len(<<>>) = 0
    BY <2>1
  <2> QED BY <2>1, <2>2 DEF WordLists, Text, Line
<1> QED BY <1>1, <1>2, <1>3 DEF Take

LEMMA PutWord ==
  ASSUME NEW v \in Text, NEW w \in Line
  PROVE  Put(v, w) \in Text
<1>1. \A t \in Text, u \in Line : Append(t, u) \in Text
  BY DEF Text, Line
<1>2. v # <<>> => Front(v) \in Text /\ Last(v) \o <<Space>> \o w \in Line
  <2>1. v # <<>> => Front(v) \in Text /\ Last(v) \in Line
    BY Ends DEF Text, Line
  <2>2. <<Space>> \in Line
    BY DEF Line, Chars
  <2> QED BY <2>1, <2>2 DEF Line
<1> QED BY <1>1, <1>2 DEF Put

LEMMA SpacedIsLine ==
  ASSUME NEW text \in Text
  PROVE  Spaced(text) \in Line
<1> DEFINE n == Len(text)
           Step(v, i) == v \o text[i] \o <<Space>>
           H == [p \in (1 .. n) \X Line |-> Step(p[2], p[1])]
           Are(f) == f = [s \in SUBSET (1 .. n) |->
                            IF s = {} THEN <<>> ELSE Step(f[s \ {Max(s)}], Max(s))]
           g == CHOOSE f : Are(f)
<1>1. n \in Nat /\ DOMAIN text = 1 .. n /\ <<>> \in Line
  BY DEF Text, Line
<1>2. \A i \in 1 .. n, v \in Line : Step(v, i) \in Line
  <2>1. <<Space>> \in Line /\ \A i \in 1 .. n : text[i] \in Line
    BY DEF Text, Line, Chars
  <2> QED BY <2>1 DEF Line
<1>3. Spaced(text) = g[1 .. n]
  BY <1>1, Zenon DEF Spaced, FoldLeft, MapThenFoldSet
<1> HIDE DEF n, Step
<1>4. \E f : Are(f)
  <2>1. \A i \in 1 .. n, v \in Line : H[<<i, v>>] = Step(v, i)
    OBVIOUS
  <2> HIDE DEF H
  <2>2. PICK f \in [SUBSET (1 .. n) -> Line] : Folded(f, n, <<>>, H)
    <3>1. \A i \in 1 .. n, v \in Line : H[<<i, v>>] \in Line
      BY <1>2, <2>1
    <3>2. n \in 0 .. n
      BY <1>1
    <3> QED BY <1>1, <3>1, <3>2, FoldExists
  <2>3. ASSUME NEW s \in SUBSET (1 .. n), s # {}
        PROVE  f[s] = Step(f[s \ {Max(s)}], Max(s))
    <3>1. Max(s) \in 1 .. n
      BY <1>1, <2>3, MaxOf
    <3> QED BY <2>1, <2>2, <2>3, <3>1 DEF Folded
  <2>4. f[{}] = <<>>
    BY <2>2 DEF Folded
  <2>5. Are(f)
    BY <2>2, <2>3, <2>4
  <2> QED BY <2>5
<1>5. Are(g)
  <2> HIDE DEF Are
  <2> QED BY <1>4
<1> HIDE DEF g
<1>6. g[{}] \in Line
  BY <1>1, <1>5
<1>7. ASSUME NEW s \in SUBSET (1 .. n), s # {}, g[s \ {Max(s)}] \in Line PROVE g[s] \in Line
  <2>1. Max(s) \in 1 .. n
    BY <1>1, <1>7, MaxOf
  <2> QED BY <1>2, <1>5, <1>7, <2>1
<1> HIDE DEF Are
<1>8. g[1 .. n] \in Line
  BY <1>1, <1>6, <1>7, FoldStays
<1> QED BY <1>3, <1>8

LEMMA WordsAreText ==
  ASSUME NEW text \in Text
  PROVE  Words(text) \in WordLists
<1> DEFINE n == Len(Spaced(text))
           Step(v, i) == Take(v, Spaced(text)[i])
           H == [p \in (1 .. n) \X WordLists |-> Step(p[2], p[1])]
           Are(f) == f = [s \in SUBSET (1 .. n) |->
                            IF s = {} THEN << <<>> >> ELSE Step(f[s \ {Max(s)}], Max(s))]
           g == CHOOSE f : Are(f)
<1>1. n \in Nat /\ DOMAIN Spaced(text) = 1 .. n /\ << <<>> >> \in WordLists
  BY SpacedIsLine DEF Text, Line, WordLists
<1>2. \A i \in 1 .. n, v \in WordLists : Step(v, i) \in WordLists
  <2>1. \A i \in 1 .. n : Spaced(text)[i] \in Chars
    BY SpacedIsLine DEF Line
  <2> QED BY <2>1, TakeWord
<1>3. Words(text) = g[1 .. n]
  BY <1>1, Zenon DEF Words, FoldLeft, MapThenFoldSet
<1> HIDE DEF n, Step
<1>4. \E f : Are(f)
  <2>1. \A i \in 1 .. n, v \in WordLists : H[<<i, v>>] = Step(v, i)
    OBVIOUS
  <2> HIDE DEF H
  <2>2. PICK f \in [SUBSET (1 .. n) -> WordLists] : Folded(f, n, << <<>> >>, H)
    <3>1. \A i \in 1 .. n, v \in WordLists : H[<<i, v>>] \in WordLists
      BY <1>2, <2>1
    <3>2. n \in 0 .. n
      BY <1>1
    <3> QED BY <1>1, <3>1, <3>2, FoldExists
  <2>3. ASSUME NEW s \in SUBSET (1 .. n), s # {}
        PROVE  f[s] = Step(f[s \ {Max(s)}], Max(s))
    <3>1. Max(s) \in 1 .. n
      BY <1>1, <2>3, MaxOf
    <3> QED BY <2>1, <2>2, <2>3, <3>1 DEF Folded
  <2>4. f[{}] = << <<>> >>
    BY <2>2 DEF Folded
  <2>5. Are(f)
    BY <2>2, <2>3, <2>4
  <2> QED BY <2>5
<1>5. Are(g)
  <2> HIDE DEF Are
  <2> QED BY <1>4
<1> HIDE DEF g
<1>6. g[{}] \in WordLists
  BY <1>1, <1>5
<1>7. ASSUME NEW s \in SUBSET (1 .. n), s # {}, g[s \ {Max(s)}] \in WordLists
      PROVE g[s] \in WordLists
  <2>1. Max(s) \in 1 .. n
    BY <1>1, <1>7, MaxOf
  <2> QED BY <1>2, <1>5, <1>7, <2>1
<1> HIDE DEF Are
<1>8. g[1 .. n] \in WordLists
  BY <1>1, <1>6, <1>7, FoldStays
<1> QED BY <1>3, <1>8

LEMMA FilledIsText ==
  ASSUME NEW words \in Text
  PROVE  Filled(words) \in Text
<1> DEFINE n == Len(words)
           Step(v, i) == Put(v, words[i])
           H == [p \in (1 .. n) \X Text |-> Step(p[2], p[1])]
           Are(f) == f = [s \in SUBSET (1 .. n) |->
                            IF s = {} THEN <<>> ELSE Step(f[s \ {Max(s)}], Max(s))]
           g == CHOOSE f : Are(f)
<1>1. n \in Nat /\ DOMAIN words = 1 .. n /\ <<>> \in Text
  BY DEF Text
<1>2. \A i \in 1 .. n, v \in Text : Step(v, i) \in Text
  <2>1. \A i \in 1 .. n : words[i] \in Line
    BY DEF Text, Line
  <2> QED BY <2>1, PutWord
<1>3. Filled(words) = g[1 .. n]
  BY <1>1, Zenon DEF Filled, FoldLeft, MapThenFoldSet
<1> HIDE DEF n, Step
<1>4. \E f : Are(f)
  <2>1. \A i \in 1 .. n, v \in Text : H[<<i, v>>] = Step(v, i)
    OBVIOUS
  <2> HIDE DEF H
  <2>2. PICK f \in [SUBSET (1 .. n) -> Text] : Folded(f, n, <<>>, H)
    <3>1. \A i \in 1 .. n, v \in Text : H[<<i, v>>] \in Text
      BY <1>2, <2>1
    <3>2. n \in 0 .. n
      BY <1>1
    <3> QED BY <1>1, <3>1, <3>2, FoldExists
  <2>3. ASSUME NEW s \in SUBSET (1 .. n), s # {}
        PROVE  f[s] = Step(f[s \ {Max(s)}], Max(s))
    <3>1. Max(s) \in 1 .. n
      BY <1>1, <2>3, MaxOf
    <3> QED BY <2>1, <2>2, <2>3, <3>1 DEF Folded
  <2>4. f[{}] = <<>>
    BY <2>2 DEF Folded
  <2>5. Are(f)
    BY <2>2, <2>3, <2>4
  <2> QED BY <2>5
<1>5. Are(g)
  <2> HIDE DEF Are
  <2> QED BY <1>4
<1> HIDE DEF g
<1>6. g[{}] \in Text
  BY <1>1, <1>5
<1>7. ASSUME NEW s \in SUBSET (1 .. n), s # {}, g[s \ {Max(s)}] \in Text PROVE g[s] \in Text
  <2>1. Max(s) \in 1 .. n
    BY <1>1, <1>7, MaxOf
  <2> QED BY <1>2, <1>5, <1>7, <2>1
<1> HIDE DEF Are
<1>8. g[1 .. n] \in Text
  BY <1>1, <1>6, <1>7, FoldStays
<1> QED BY <1>3, <1>8

-----------------------------------------------------------------------------
(* A row and a column of a text, a column being possibly the one behind the*)
(* last character.                                                         *)
At(text, y, x) == y \in 0 .. Len(text) - 1 /\ x \in 0 .. Len(text[y + 1])

(* Snapshots hold a cursor that is in their lines, until one strayed.      *)
Snaps == [lines : Text, cy : Nat, cx : Nat]
SnapsOf(lost) == {s \in Snaps : lost \/ At(s.lines, s.cy, s.cx)}

Asked == [term : Line, repl : Line, row : Nat, col : Nat, all : BOOLEAN, skipped : BOOLEAN,
          made : SUBSET (Nat \X Nat)]

CursorInv ==
  /\ Snap \in SnapsOf(strayed)
  /\ undo \in Seq(SnapsOf(strayed)) /\ redo \in Seq(SnapsOf(strayed))
  /\ cutBuf \in Text /\ \A f \in DOMAIN disk : disk[f] \in Text
  /\ rep \subseteq Asked
  /\ strayed \in BOOLEAN

(* The cursor is in the buffer because it is in a snapshot taken now.      *)
LEMMA CursorInvKeeps == CursorInv => CursorKept
BY DEF CursorInv, SnapsOf, Snap, At, CursorKept, InBuffer, Clen, Row

(* What the invariant says of the buffer.                                  *)
LEMMA TypedBuffer ==
  ASSUME CursorInv
  PROVE  lines \in Text /\ lines \in Seq(Line) /\ Len(lines) \in Nat /\ cy \in Nat /\ cx \in Nat
         /\ (~strayed => At(lines, cy, cx))
BY DEF CursorInv, SnapsOf, Snaps, Snap, Text, Line

LEMMA RowOf ==
  ASSUME CursorInv, NEW r \in Nat, r < Len(lines)
  PROVE  r + 1 \in 1 .. Len(lines) /\ Row(r) \in Line /\ Clen(r) = Len(Row(r)) /\ Clen(r) \in Nat
<1>1. r + 1 \in 1 .. Len(lines)
  BY TypedBuffer
<1> QED BY <1>1, TypedBuffer DEF Row, Clen, Line

-----------------------------------------------------------------------------
(* Moves.                                                                  *)
LEMMA GoKeeps ==
  ASSUME CursorInv, NEW y \in Nat, NEW x \in Nat, ~strayed => At(lines, y, x), Go(y, x)
  PROVE  CursorInv'
<1>1. [lines |-> lines, cy |-> y, cx |-> x] \in SnapsOf(strayed)
  BY TypedBuffer DEF SnapsOf, Snaps
<1> QED BY <1>1 DEF Go, CursorInv, Snap, files, SnapsOf, Asked

LEMMA ClampedKeeps ==
  ASSUME CursorInv, NEW y \in Nat, Clamped(y)
  PROVE  CursorInv'
<1>1. y < Len(lines) /\ Go(y, IF cx <= Clen(y) THEN cx ELSE Clen(y))
  BY DEF Clamped, Least
<1>2. cx \in Nat /\ Clen(y) \in Nat /\ y \in 0 .. Len(lines) - 1 /\ Clen(y) = Len(lines[y + 1])
  BY <1>1, TypedBuffer, RowOf DEF Row
<1>3. CASE cx <= Clen(y)
  <2>1. At(lines, y, cx)
    BY <1>2, <1>3 DEF At
  <2> QED BY <1>1, <1>2, <1>3, <2>1, GoKeeps
<1>4. CASE ~(cx <= Clen(y))
  <2>1. At(lines, y, Clen(y))
    BY <1>2 DEF At
  <2> QED BY <1>1, <1>2, <1>4, <2>1, GoKeeps
<1> QED BY <1>3, <1>4

LEMMA RowKeeps ==
  ASSUME CursorInv, NEW y \in Nat, y < Len(lines), NEW x \in 0 .. Clen(y), Go(y, x)
  PROVE  CursorInv'
<1>1. y \in 0 .. Len(lines) - 1 /\ Clen(y) = Len(lines[y + 1]) /\ x \in Nat
  BY TypedBuffer, RowOf DEF Row
<1>2. At(lines, y, x)
  BY <1>1 DEF At
<1> QED BY <1>1, <1>2, GoKeeps

LEMMA NextRowKeeps ==
  ASSUME CursorInv, OnRow, NEW x \in 0 .. Clen(cy), NextRow(x)
  PROVE  CursorInv'
<1>1. CASE cy + 1 < Len(lines) /\ Go(cy + 1, 0)
  <2>1. cy + 1 \in Nat /\ Clen(cy + 1) \in Nat
    BY <1>1, TypedBuffer, RowOf
  <2>2. 0 \in 0 .. Clen(cy + 1)
    BY <2>1
  <2> QED BY <1>1, <2>1, <2>2, RowKeeps
<1>2. CASE Go(cy, x)
  BY <1>2, TypedBuffer, RowKeeps DEF OnRow
<1> QED BY <1>1, <1>2 DEF NextRow

(* A match is in its row, from the column on.                              *)
LEMMA MatchesIn ==
  ASSUME NEW text \in Text, NEW r \in 0 .. Len(text) - 1, NEW skip \in Nat, NEW term \in Line
  PROVE  /\ Matches(text, r, skip, term) \in SUBSET Nat
         /\ \A c \in Matches(text, r, skip, term) :
              skip <= c /\ c + Len(term) <= Len(text[r + 1]) /\ At(text, r, c)
<1>1. r + 1 \in 1 .. Len(text) /\ text[r + 1] \in Line
  BY DEF Text, Line
<1>2. Len(text[r + 1]) \in Nat /\ Len(term) \in Nat
  BY <1>1 DEF Line
<1>3. ASSUME NEW c \in Matches(text, r, skip, term)
      PROVE  c \in Nat /\ skip <= c /\ c + Len(term) <= Len(text[r + 1]) /\ At(text, r, c)
  <2>1. c \in skip .. Len(text[r + 1]) - Len(term)
    BY DEF Matches
  <2>2. c \in Nat /\ skip <= c /\ c + Len(term) <= Len(text[r + 1]) /\ c \in 0 .. Len(text[r + 1])
    BY <1>2, <2>1
  <2> QED BY <2>2 DEF At
<1> QED BY <1>3

(* What find returns is a match, in a row of the text.                     *)
LEMMA FindIn ==
  ASSUME NEW text \in Text, NEW row \in Nat, NEW col \in Nat, NEW term \in Line,
         NEW at \in Find(text, row, col, term)
  PROVE  \E skip \in Nat : /\ at[1] \in 0 .. Len(text) - 1
                           /\ at[2] \in Matches(text, at[1], skip, term)
<1> DEFINE n == Len(text)
           Ats(i) == Matches(text, (row + i) % n, IF i = 0 THEN col ELSE 0, term)
           hits == {i \in 0 .. n - 1 : Ats(i) # {}}
<1>1. hits # {} /\ at = <<(row + Min(hits)) % n, Min(Ats(Min(hits)))>>
  BY DEF Find
<1>2. n \in Nat /\ hits \in SUBSET Nat
  BY DEF Text
<1>3. Min(hits) \in hits
  <2> HIDE DEF hits
  <2> QED BY <1>1, <1>2, MinOf
<1>4. PICK i \in 0 .. n - 1 : i = Min(hits) /\ Ats(i) # {}
  BY <1>3
<1>5. (row + i) % n \in 0 .. n - 1
  <2>1. n \in Nat /\ n # 0 /\ row + i \in Nat
    BY <1>2, <1>4
  <2> HIDE DEF n
  <2> QED BY <2>1
<1>6. PICK skip \in Nat : skip = IF i = 0 THEN col ELSE 0
  OBVIOUS
<1>7. PICK r \in 0 .. n - 1 : r = (row + i) % n
  BY <1>5
<1>8. Ats(i) = Matches(text, r, skip, term)
  BY <1>6, <1>7
<1>9. Min(Ats(i)) \in Ats(i)
  <2>1. Ats(i) \in SUBSET Nat
    BY <1>8, MatchesIn
  <2> HIDE DEF Ats
  <2> QED BY <1>4, <2>1, MinOf
<1>10. at = <<r, Min(Ats(i))>>
  BY <1>1, <1>4, <1>7
<1> HIDE DEF Ats, n
<1> QED BY <1>8, <1>9, <1>10 DEF n

LEMMA LeftRightKeep ==
  ASSUME CursorInv, Left \/ Right \/ Home \/ End \/ FirstLine \/ LastLine
  PROVE  CursorInv'
<1>1. ASSUME cy \in 1 .. Len(lines), Go(cy - 1, Clen(cy - 1)) PROVE CursorInv'
  <2>1. cy - 1 \in Nat /\ cy - 1 < Len(lines) /\ Clen(cy - 1) \in 0 .. Clen(cy - 1)
    <3>1. cy - 1 \in Nat /\ cy - 1 < Len(lines)
      BY <1>1, TypedBuffer
    <3>2. Clen(cy - 1) \in Nat
      BY <3>1, RowOf
    <3> QED BY <3>1, <3>2
  <2> QED BY <1>1, <2>1, RowKeeps
<1>2. CASE cx > 0 /\ Go(cy, cx - 1)
  <2>1. cx - 1 \in Nat /\ (~strayed => At(lines, cy, cx - 1))
    BY <1>2, TypedBuffer DEF At
  <2> QED BY <1>2, <2>1, TypedBuffer, GoKeeps
<1>3. CASE Left
  BY <1>1, <1>2, <1>3 DEF Left
<1>4. CASE Right
  <2>1. OnRow /\ Clen(cy) \in Nat
    BY <1>4, TypedBuffer, RowOf DEF Right, OnRow
  <2>2. CASE cx < Clen(cy) /\ Go(cy, cx + 1)
    <3>1. cx + 1 \in 0 .. Clen(cy)
      BY <2>1, <2>2, TypedBuffer
    <3> QED BY <2>1, <2>2, <3>1, TypedBuffer, RowKeeps DEF OnRow
  <2>3. CASE ~(cx < Clen(cy)) /\ NextRow(cx)
    <3>1. CASE cy + 1 < Len(lines)
      <4>1. NextRow(0)
        BY <2>3, <3>1 DEF NextRow
      <4>2. 0 \in 0 .. Clen(cy)
        BY <2>1
      <4> QED BY <2>1, <4>1, <4>2, NextRowKeeps
    <3>2. CASE Go(cy, cx)
      BY <3>2, TypedBuffer, GoKeeps
    <3> QED BY <2>3, <3>1, <3>2 DEF NextRow
  <2> QED BY <1>4, <2>2, <2>3 DEF Right
<1>5. CASE Home
  <2>1. ~strayed => At(lines, cy, 0)
    BY TypedBuffer DEF At
  <2> QED BY <1>5, <2>1, TypedBuffer, GoKeeps DEF Home
<1>6. CASE End
  <2>1. OnRow /\ Clen(cy) \in 0 .. Clen(cy)
    BY <1>6, TypedBuffer, RowOf DEF End, OnRow
  <2> QED BY <1>6, <2>1, TypedBuffer, RowKeeps DEF End, OnRow
<1>7. CASE FirstLine
  <2>1. ~strayed => At(lines, 0, 0)
    <3>1. ASSUME ~strayed PROVE 0 \in 0 .. Len(lines) - 1 /\ 0 \in 0 .. Len(lines[1])
      <4>1. Len(lines) > 0
        BY <3>1, TypedBuffer DEF At
      <4>2. 0 < Len(lines) /\ Clen(0) \in Nat /\ Clen(0) = Len(lines[1])
        BY <4>1, TypedBuffer, RowOf DEF Clen, Row
      <4> QED BY <4>2, TypedBuffer
    <3> QED BY <3>1 DEF At
  <2> QED BY <1>7, <2>1, GoKeeps DEF FirstLine
<1>8. CASE LastLine
  <2>1. Len(lines) - 1 \in Nat /\ Len(lines) - 1 < Len(lines)
    <3>1. lines \in Seq(Line) /\ lines # <<>>
      BY <1>8, TypedBuffer DEF LastLine
    <3> QED BY <3>1, EmptySeq
  <2>2. 0 \in 0 .. Clen(Len(lines) - 1)
    BY <2>1, RowOf
  <2> QED BY <1>8, <2>1, <2>2, RowKeeps DEF LastLine
<1> QED BY <1>3, <1>4, <1>5, <1>6, <1>7, <1>8

LEMMA WordKeeps ==
  ASSUME CursorInv, WordFwd \/ WordBack
  PROVE  CursorInv'
<1>1. ASSUME cy \in 1 .. Len(lines), Go(cy - 1, Clen(cy - 1)) PROVE CursorInv'
  <2>1. Left \/ cx # 0
    BY <1>1 DEF Left
  <2>2. cy - 1 \in Nat /\ cy - 1 < Len(lines)
    BY <1>1, TypedBuffer
  <2>3. Clen(cy - 1) \in 0 .. Clen(cy - 1)
    BY <2>2, RowOf
  <2> QED BY <1>1, <2>2, <2>3, RowKeeps
<1>2. CASE WordFwd
  <2> DEFINE ends == {i \in cx + 1 .. Clen(cy) - 1 : Row(cy)[i + 1] = Space /\ Row(cy)[i] # Space}
  <2>1. OnRow /\ cy \in Nat /\ cy < Len(lines) /\ Clen(cy) \in Nat /\ cx \in Nat
    BY <1>2, TypedBuffer, RowOf DEF WordFwd, OnRow
  <2>2. CASE ends # {} /\ Go(cy, Min(ends))
    <3>1. ends \in SUBSET Nat /\ \A i \in ends : i \in 0 .. Clen(cy)
      BY <2>1
    <3> HIDE DEF ends
    <3>2. Min(ends) \in 0 .. Clen(cy)
      BY <2>2, <3>1, MinOf
    <3> QED BY <2>1, <2>2, <3>2, RowKeeps
  <2>3. CASE NextRow(Clen(cy))
    <3>1. Clen(cy) \in 0 .. Clen(cy)
      BY <2>1
    <3> QED BY <2>1, <2>3, <3>1, NextRowKeeps
  <2> QED BY <1>2, <2>2, <2>3 DEF WordFwd
<1>3. CASE WordBack
  <2> DEFINE starts == {0} \cup {i \in 1 .. cx - 1 : Row(cy)[i] = Space /\ Row(cy)[i + 1] # Space}
  <2>1. CASE InBuffer /\ Go(cy, Max(starts))
    <3>1. cy \in Nat /\ cy < Len(lines) /\ Clen(cy) \in Nat /\ cx \in 0 .. Clen(cy)
      BY <2>1, TypedBuffer, RowOf DEF InBuffer
    <3>2. starts \in SUBSET (0 .. Clen(cy)) /\ starts # {}
      BY <3>1
    <3> HIDE DEF starts
    <3>3. Max(starts) \in 0 .. Clen(cy)
      BY <3>1, <3>2, MaxOfNat
    <3> QED BY <2>1, <3>1, <3>3, RowKeeps
  <2> QED BY <1>1, <1>3, <2>1 DEF WordBack
<1> QED BY <1>2, <1>3

LEMMA MoveKeeps == ASSUME CursorInv, Move PROVE CursorInv'
<1>1. CASE Up
  <2>1. cy - 1 \in Nat
    BY <1>1, TypedBuffer DEF Up
  <2> QED BY <1>1, <2>1, ClampedKeeps DEF Up
<1>2. CASE Down
  BY <1>2, TypedBuffer, ClampedKeeps DEF Down
<1>3. CASE PageUp
  <2>1. (IF cy > Page THEN cy - Page ELSE 0) \in Nat
    BY TypedBuffer, TextAssumption
  <2> QED BY <1>3, <2>1, ClampedKeeps DEF PageUp
<1>4. CASE PageDown
  <2>1. Least(cy + Page, Len(lines) - 1) \in Nat
    <3>1. lines \in Seq(Line) /\ lines # <<>> /\ Page \in Nat /\ cy \in Nat
      BY <1>4, TypedBuffer, TextAssumption DEF PageDown
    <3>2. Len(lines) - 1 \in Nat
      BY <3>1, EmptySeq
    <3> QED BY <3>1, <3>2 DEF Least
  <2> QED BY <1>4, <2>1, ClampedKeeps DEF PageDown
<1>5. ASSUME NEW r \in 0 .. Len(lines), GoToLine(r) PROVE CursorInv'
  BY <1>5, TypedBuffer, RowKeeps DEF GoToLine
<1>6. ASSUME NEW term \in Terms, Search(term) PROVE CursorInv'
  <2>1. PICK row \in Nat, col \in Nat : \E at \in Find(lines, row, col, term) : Go(at[1], at[2])
    <3>1. cx + 1 \in Nat /\ (cy + 1) % Len(lines) \in Nat /\ cy \in Nat
      <4>1. cy + 1 \in Nat /\ Len(lines) \in Nat /\ Len(lines) # 0 /\ cx + 1 \in Nat
        BY <1>6, TypedBuffer DEF Search, OnRow
      <4>2. (cy + 1) % Len(lines) \in Nat
        BY <4>1
      <4> QED BY <4>1, <4>2, TypedBuffer
    <3>2. PICK at \in IF cx + 1 <= Clen(cy) THEN Find(lines, cy, cx + 1, term)
                      ELSE Find(lines, (cy + 1) % Len(lines), 0, term) : Go(at[1], at[2])
      BY <1>6 DEF Search
    <3>3. CASE cx + 1 <= Clen(cy)
      BY <3>1, <3>2, <3>3
    <3>4. CASE ~(cx + 1 <= Clen(cy))
      BY <3>1, <3>2, <3>4
    <3> QED BY <3>3, <3>4
  <2>2. PICK at \in Find(lines, row, col, term) : Go(at[1], at[2])
    BY <2>1
  <2>3. lines \in Text /\ term \in Line
    BY TypedBuffer, TextAssumption DEF Line
  <2>4. PICK skip \in Nat : at[1] \in 0 .. Len(lines) - 1
        /\ at[2] \in Matches(lines, at[1], skip, term)
    BY <2>3, FindIn
  <2>5. At(lines, at[1], at[2]) /\ at[1] \in Nat /\ at[2] \in Nat
    <3>1. Matches(lines, at[1], skip, term) \in SUBSET Nat /\ At(lines, at[1], at[2])
      BY <2>3, <2>4, MatchesIn
    <3> QED BY <2>4, <3>1 DEF At
  <2> QED BY <2>2, <2>5, GoKeeps
<1> QED BY <1>1, <1>2, <1>3, <1>4, <1>5, <1>6, LeftRightKeep, WordKeeps DEF Move

(* The snapshot of the buffer, and the snapshots with it.                  *)
LEMMA SnapsGrow ==
  SnapsOf(FALSE) \subseteq SnapsOf(TRUE) /\ \A b \in BOOLEAN : SnapsOf(b) \subseteq Snaps
BY DEF SnapsOf

LEMMA SnapsLater ==
  ASSUME CursorInv, strayed' \in BOOLEAN, strayed => strayed'
  PROVE  SnapsOf(strayed) \subseteq SnapsOf(strayed')
BY DEF CursorInv, SnapsOf

LEMMA SeqLater ==
  ASSUME NEW S, NEW T, S \subseteq T, NEW s \in Seq(S)
  PROVE  s \in Seq(T)
OBVIOUS

LEMMA TailOf ==
  ASSUME NEW S, NEW s \in Seq(S), s # <<>>
  PROVE  Tail(s) \in Seq(S)
OBVIOUS

LEMMA SnappedStays ==
  ASSUME CursorInv
  PROVE  Snapped \in Seq(SnapsOf(strayed)) /\ Snapped # <<>>
<1> DEFINE kept == IF Len(undo) >= MaxUndo THEN Tail(undo) ELSE undo
           S == SnapsOf(strayed)
<1>1. undo \in Seq(S) /\ Snap \in S /\ (Len(undo) >= MaxUndo => undo # <<>>)
  BY UndoAssumption DEF CursorInv
<1> HIDE DEF S
<1>2. kept \in Seq(S)
  BY <1>1, TailOf
<1>3. Snapped = Append(kept, Snap)
  BY DEF Snapped
<1> HIDE DEF kept
<1>4. Append(kept, Snap) \in Seq(S) /\ Append(kept, Snap) # <<>>
  BY <1>1, <1>2, AppendProperties
<1> QED BY <1>3, <1>4 DEF S

LEMMA SnapOf ==
  ASSUME NEW text \in Text, NEW y \in Nat, NEW x \in Nat, NEW lost, ~lost => At(text, y, x)
  PROVE  [lines |-> text, cy |-> y, cx |-> x] \in SnapsOf(lost)
BY DEF SnapsOf, Snaps

(* An edit keeps the cursor if it puts it in the text it leaves.           *)
LEMMA EditStays ==
  ASSUME CursorInv, NEW text \in Text, NEW y \in Nat, NEW x \in Nat, Edit(text, y, x),
         strayed' \in BOOLEAN, strayed => strayed', ~strayed' => At(text, y, x), cutBuf' \in Text
  PROVE  CursorInv'
<1>1. SnapsOf(strayed) \subseteq SnapsOf(strayed')
  BY SnapsLater
<1>2. Snap' \in SnapsOf(strayed')
  <2>1. Snap' = [lines |-> text, cy |-> y, cx |-> x]
    BY DEF Snap, Edit
  <2> QED BY <2>1, SnapOf
<1>3. undo' \in Seq(SnapsOf(strayed'))
  BY <1>1, SnappedStays, SeqLater DEF Edit
<1>4. redo' \in Seq(SnapsOf(strayed'))
  BY EmptySeq DEF Edit
<1>5. SnapsOf(strayed)' = SnapsOf(strayed')
  BY DEF SnapsOf, At, Snaps, Text, Chars
<1>6. UNCHANGED <<disk, rep>> /\ Asked' = Asked /\ Text' = Text
  BY DEF Edit, files, Asked, Line, Text, Chars
<1>7. undo' \in Seq(SnapsOf(strayed)') /\ redo' \in Seq(SnapsOf(strayed)')
      /\ Snap' \in SnapsOf(strayed)'
  BY <1>2, <1>3, <1>4, <1>5
<1> QED BY <1>6, <1>7 DEF CursorInv

-----------------------------------------------------------------------------
LEMMA RowLine ==
  ASSUME CursorInv, OnRow
  PROVE  cy + 1 \in 1 .. Len(lines) /\ Row(cy) = lines[cy + 1] /\ Row(cy) \in Line
         /\ Clen(cy) \in Nat
         /\ Clen(cy) = Len(Row(cy))
BY TypedBuffer, RowOf DEF OnRow, Row

(* A text with a row replaced.                                             *)
LEMMA RowReplaced ==
  ASSUME NEW text \in Text, NEW r \in 1 .. Len(text), NEW w \in Line
  PROVE  /\ [text EXCEPT ![r] = w] \in Text /\ Len([text EXCEPT ![r] = w]) = Len(text)
         /\ \A q \in 1 .. Len(text) : [text EXCEPT ![r] = w][q] = IF q = r THEN w ELSE text[q]
BY DEF Text, Line

LEMMA PartOfLine ==
  ASSUME NEW w \in Line, NEW n \in 0 .. Len(w)
  PROVE  SubSeq(w, 1, n) \in Line /\ Len(SubSeq(w, 1, n)) = n
         /\ SubSeq(w, n + 1, Len(w)) \in Line /\ Len(SubSeq(w, n + 1, Len(w))) = Len(w) - n
<1>1. w \in Seq(Chars) /\ Len(w) \in Nat /\ 1 \in 1 .. Len(w) + 1 /\ n + 1 \in 1 .. Len(w) + 1
      /\ Len(w) \in 0 .. Len(w)
  BY DEF Line
<1>2. SubSeq(w, 1, n) \in Seq(Chars) /\ Len(SubSeq(w, 1, n)) = IF 1 <= n THEN n - 1 + 1 ELSE 0
  BY <1>1, PartOf
<1>3. SubSeq(w, n + 1, Len(w)) \in Seq(Chars)
      /\ Len(SubSeq(w, n + 1, Len(w))) = IF n + 1 <= Len(w) THEN Len(w) - (n + 1) + 1 ELSE 0
  BY <1>1, PartOf
<1> QED BY <1>1, <1>2, <1>3 DEF Line

LEMMA Glued ==
  ASSUME NEW v \in Line, NEW w \in Line
  PROVE  v \o w \in Line /\ Len(v \o w) = Len(v) + Len(w) /\ Len(v) \in Nat /\ Len(w) \in Nat
BY ConcatProperties DEF Line

-----------------------------------------------------------------------------
(* Every edit leaves a text with the cursor in it.                         *)
LEMMA TypedStays == ASSUME CursorInv, Typing PROVE CursorInv'
<1>1. PICK s \in Line : Typed(s)
  <2>1. ASSUME NEW c \in Chars PROVE <<c>> \in Line
    BY DEF Line
  <2>2. [i \in 1 .. TabWidth |-> Space] \in Line
    BY TextAssumption DEF Line, Chars
  <2> QED BY <2>1, <2>2 DEF Typing, InsertTab, InsertChar
<1> DEFINE at == Least(cx, Clen(cy))
           w == SubSeq(Row(cy), 1, at) \o s \o SubSeq(Row(cy), at + 1, Len(Row(cy)))
<1>2. OnRow /\ lines' = [lines EXCEPT ![cy + 1] = w] /\ cx' = cx + Len(s) /\ cy' = cy
      /\ cutBuf' = <<>>
      /\ UNCHANGED <<undo, redo, disk, rep, strayed>>
  BY <1>1 DEF Typed, files, Row
<1>3. cy + 1 \in 1 .. Len(lines) /\ Row(cy) \in Line /\ lines \in Text /\ Clen(cy) = Len(Row(cy))
      /\ Len(Row(cy)) \in Nat /\ cx \in Nat /\ cy \in Nat
  BY <1>2, TypedBuffer, RowLine
<1>4. at \in 0 .. Len(Row(cy)) /\ (cx <= Len(Row(cy)) => at = cx)
  BY <1>3 DEF Least
<1> HIDE DEF at
<1>5. w \in Line /\ Len(w) = at + Len(s) + (Len(Row(cy)) - at) /\ Len(s) \in Nat
  <2> DEFINE a == SubSeq(Row(cy), 1, at)
             b == SubSeq(Row(cy), at + 1, Len(Row(cy)))
  <2>1. a \in Line /\ Len(a) = at /\ b \in Line /\ Len(b) = Len(Row(cy)) - at
    BY <1>3, <1>4, PartOfLine
  <2> HIDE DEF a, b
  <2>2. a \o s \in Line /\ Len(a \o s) = at + Len(s) /\ Len(s) \in Nat
    BY <2>1, Glued
  <2>3. a \o s \o b \in Line /\ Len(a \o s \o b) = Len(a \o s) + Len(b)
    BY <2>1, <2>2, Glued
  <2>4. a \o s \o b \in Line /\ Len(a \o s \o b) = at + Len(s) + (Len(Row(cy)) - at)
        /\ Len(s) \in Nat
    BY <2>1, <2>2, <2>3, Zenon
  <2> QED BY <2>4 DEF a, b
<1> HIDE DEF w
<1>6. lines' \in Text /\ Len(lines') = Len(lines) /\ lines'[cy + 1] = w
  <2>1. PICK r \in 1 .. Len(lines) : r = cy + 1
    BY <1>3
  <2>2. [lines EXCEPT ![r] = w] \in Text /\ Len([lines EXCEPT ![r] = w]) = Len(lines)
        /\ [lines EXCEPT ![r] = w][r] = w
    BY <1>3, <1>5, RowReplaced
  <2> QED BY <1>2, <2>1, <2>2, Zenon
<1>7. ~strayed => At(lines', cy, cx + Len(s))
  <2> SUFFICES ASSUME ~strayed PROVE At(lines', cy, cx + Len(s))
    OBVIOUS
  <2>1. cy \in 0 .. Len(lines) - 1 /\ cx \in 0 .. Len(Row(cy))
    BY <1>3, TypedBuffer DEF At, Row
  <2>2. cx + Len(s) \in 0 .. Len(w)
    BY <1>3, <1>4, <1>5, <2>1
  <2> QED BY <1>6, <2>1, <2>2 DEF At
<1>8. Snap' \in SnapsOf(strayed)
  <2>1. Snap' = [lines |-> lines', cy |-> cy, cx |-> cx + Len(s)]
    BY <1>2 DEF Snap
  <2>2. cx + Len(s) \in Nat
    BY <1>3, <1>5
  <2> QED BY <1>3, <1>6, <1>7, <2>1, <2>2, SnapOf
<1>9. <<>> \in Text
  BY DEF Text
<1> QED BY <1>2, <1>8, <1>9 DEF CursorInv, SnapsOf, Snaps, At, Asked, Line, Text

LEMMA NewlineStays == ASSUME CursorInv, Newline PROVE CursorInv'
<1> DEFINE at == Least(cx, Clen(cy))
           a == SubSeq(Row(cy), 1, at)
           b == SubSeq(Row(cy), at + 1, Len(Row(cy)))
           cutRow == [lines EXCEPT ![cy + 1] = a]
           text == InsertAt(cutRow, cy + 2, b)
<1>1. OnRow /\ Edit(text, cy + 1, 0) /\ cutBuf' = <<>> /\ strayed' = strayed
  <2>1. OnRow /\ cutBuf' = <<>> /\ strayed' = strayed
    BY DEF Newline
  <2>2. cutRow = [lines EXCEPT ![cy + 1] = SubSeq(@, 1, at)] /\ Clen(cy) = Len(Row(cy))
    BY DEF Row, Clen
  <2> QED BY <2>1, <2>2 DEF Newline
<1>2. PICK r \in 1 .. Len(lines) : r = cy + 1 /\ Row(cy) \in Line /\ Clen(cy) = Len(Row(cy))
      /\ cx \in Nat
                                  /\ Len(Row(cy)) \in Nat /\ lines \in Text /\ Len(lines) \in Nat
                                  /\ cy \in Nat /\ cy + 2 = r + 1
  BY <1>1, TypedBuffer, RowLine
<1>3. at \in 0 .. Len(Row(cy))
  BY <1>2 DEF Least
<1> HIDE DEF at
<1>4. a \in Line /\ b \in Line
  BY <1>2, <1>3, PartOfLine
<1> HIDE DEF a, b
<1>5. cutRow \in Text /\ Len(cutRow) = Len(lines)
  <2>1. [lines EXCEPT ![r] = a] \in Text /\ Len([lines EXCEPT ![r] = a]) = Len(lines)
    BY <1>2, <1>4, RowReplaced
  <2> QED BY <1>2, <2>1
<1> HIDE DEF cutRow
<1>6. text \in Text /\ Len(text) = Len(lines) + 1
  <2>1. cutRow \in Seq(Line) /\ cy + 2 \in 1 .. Len(cutRow) + 1
    BY <1>2, <1>5 DEF Text, Line
  <2>2. InsertAt(cutRow, cy + 2, b) \in Seq(Line)
        /\ Len(InsertAt(cutRow, cy + 2, b)) = Len(cutRow) + 1
    BY <1>4, <2>1, InsertedAt
  <2> QED BY <1>5, <2>2 DEF Text, Line
<1> HIDE DEF text
<1>7. At(text, cy + 1, 0) /\ cy + 1 \in Nat
  <2>1. cy + 1 \in 0 .. Len(text) - 1 /\ cy + 1 + 1 \in 1 .. Len(text) /\ cy + 1 \in Nat
    BY <1>2, <1>6
  <2>2. text[cy + 1 + 1] \in Line
    BY <1>6, <2>1 DEF Text, Line
  <2>3. Len(text[cy + 1 + 1]) \in Nat
    BY <2>2 DEF Line
  <2> QED BY <2>1, <2>3 DEF At
<1>8. strayed \in BOOLEAN /\ <<>> \in Text
  BY DEF CursorInv, Text
<1> QED BY <1>1, <1>6, <1>7, <1>8, EditStays

(* A column of a row there is.                                             *)
LEMMA AtRow ==
  ASSUME NEW text \in Text, NEW y \in 0 .. Len(text) - 1
  PROVE  y + 1 \in 1 .. Len(text) /\ text[y + 1] \in Line /\ Len(text[y + 1]) \in Nat
         /\ At(text, y, 0)
         /\ At(text, y, Len(text[y + 1]))
<1>1. y + 1 \in 1 .. Len(text) /\ Len(text) \in Nat
  BY DEF Text
<1>2. text[y + 1] \in Line
  BY <1>1 DEF Text, Line
<1>3. Len(text[y + 1]) \in Nat
  BY <1>2 DEF Line
<1> QED BY <1>1, <1>2, <1>3 DEF At

LEMMA JoinedIn ==
  ASSUME CursorInv, NEW r \in Nat, r + 1 < Len(lines)
  PROVE  Joined(r) \in Text /\ At(Joined(r), r, Clen(r)) /\ Clen(r) \in Nat
<1>1. lines \in Text /\ Len(lines) \in Nat /\ r + 1 \in 1 .. Len(lines) /\ r + 2 \in 1 .. Len(lines)
  BY TypedBuffer
<1>2. Row(r) \in Line /\ Row(r + 1) \in Line /\ Clen(r) = Len(Row(r)) /\ Clen(r) \in Nat
      /\ Row(r) = lines[r + 1]
  <2>1. r < Len(lines) /\ r + 1 \in Nat
    BY <1>1
  <2> QED BY <2>1, RowOf DEF Row
<1> DEFINE w == Row(r) \o Row(r + 1)
<1>3. w \in Line /\ Len(w) = Clen(r) + Len(Row(r + 1)) /\ Len(Row(r + 1)) \in Nat
  BY <1>2, Glued
<1>4. PICK q \in 1 .. Len(lines) : q = r + 1
  BY <1>1
<1> DEFINE text == [lines EXCEPT ![q] = w]
<1>5. Joined(r) = RemoveAt(text, r + 2)
  BY <1>2, <1>4 DEF Joined
<1> HIDE DEF w
<1>6. text \in Text /\ Len(text) = Len(lines) /\ text[q] = w
  BY <1>1, <1>3, RowReplaced
<1> HIDE DEF text
<1>7. /\ RemoveAt(text, r + 2) \in Seq(Line) /\ Len(RemoveAt(text, r + 2)) = Len(text) - 1
      /\ \A j \in 1 .. r + 2 - 1 : RemoveAt(text, r + 2)[j] = text[j]
  <2>1. text \in Seq(Line) /\ r + 2 \in 1 .. Len(text)
    BY <1>1, <1>6 DEF Text, Line
  <2> QED BY <2>1, Removed
<1>8. Joined(r) \in Text /\ Len(Joined(r)) = Len(lines) - 1 /\ Joined(r)[r + 1] = w
  <2>1. r + 1 \in 1 .. r + 2 - 1
    OBVIOUS
  <2>2. Joined(r)[r + 1] = w
    BY <1>4, <1>5, <1>6, <1>7, <2>1
  <2> QED BY <1>5, <1>6, <1>7, <2>2 DEF Text, Line
<1>9. r \in 0 .. Len(Joined(r)) - 1 /\ Clen(r) \in 0 .. Len(w)
  BY <1>1, <1>2, <1>3, <1>8
<1> QED BY <1>2, <1>8, <1>9 DEF At

LEMMA CharRemoved ==
  ASSUME CursorInv, OnRow, NEW i \in 1 .. Clen(cy)
  PROVE  /\ [lines EXCEPT ![cy + 1] = RemoveAt(@, i)] \in Text
         /\ At([lines EXCEPT ![cy + 1] = RemoveAt(@, i)], cy, i - 1)
<1>1. PICK r \in 1 .. Len(lines) : r = cy + 1 /\ Row(cy) \in Line /\ Row(cy) = lines[r]
      /\ cy \in Nat
                                 /\ Clen(cy) = Len(Row(cy)) /\ lines \in Text /\ Len(lines) \in Nat
                                 /\ Clen(cy) \in Nat
  BY TypedBuffer, RowLine
<1> DEFINE w == RemoveAt(Row(cy), i)
           text == [lines EXCEPT ![r] = w]
<1>2. w \in Line /\ Len(w) = Clen(cy) - 1
  <2>1. Row(cy) \in Seq(Chars) /\ i \in 1 .. Len(Row(cy))
    BY <1>1 DEF Line
  <2> QED BY <1>1, <2>1, Removed DEF Line
<1>3. [lines EXCEPT ![cy + 1] = RemoveAt(@, i)] = text
  BY <1>1
<1> HIDE DEF w
<1>4. text \in Text /\ Len(text) = Len(lines) /\ text[r] = w
  BY <1>1, <1>2, RowReplaced
<1> HIDE DEF text
<1>5. cy \in 0 .. Len(text) - 1 /\ i - 1 \in 0 .. Len(w)
  BY <1>1, <1>2, <1>4
<1> QED BY <1>1, <1>3, <1>4, <1>5 DEF At

LEMMA EraseStays == ASSUME CursorInv, Backspace \/ Delete PROVE CursorInv'
<1>1. OnRow /\ InBuffer /\ cutBuf' = <<>> /\ strayed' = strayed /\ cy \in Nat /\ cx \in Nat
      /\ Clen(cy) \in Nat /\ Len(lines) \in Nat /\ strayed \in BOOLEAN /\ <<>> \in Text
  <2>1. InBuffer /\ cutBuf' = <<>> /\ strayed' = strayed
    BY DEF Backspace, Delete
  <2>2. OnRow
    BY <2>1, TypedBuffer DEF InBuffer, OnRow
  <2> QED BY <2>1, <2>2, TypedBuffer, RowLine DEF CursorInv, Text
<1>2. ASSUME NEW r \in Nat, r + 1 < Len(lines), Edit(Joined(r), r, Clen(r)) PROVE CursorInv'
  BY <1>1, <1>2, JoinedIn, EditStays
<1>3. ASSUME NEW i \in 1 .. Clen(cy), Edit([lines EXCEPT ![cy + 1] = RemoveAt(@, i)], cy, i - 1)
      PROVE  CursorInv'
  <2> DEFINE text == [lines EXCEPT ![cy + 1] = RemoveAt(@, i)]
  <2>1. text \in Text /\ At(text, cy, i - 1) /\ i - 1 \in Nat
    BY <1>1, CharRemoved
  <2> HIDE DEF text
  <2>2. Edit(text, cy, i - 1)
    BY <1>3 DEF text
  <2> QED BY <1>1, <2>1, <2>2, EditStays
<1>4. CASE cx = 0 /\ cy > 0 /\ Edit(Joined(cy - 1), cy - 1, Clen(cy - 1))
  <2>1. cy - 1 \in Nat /\ cy - 1 + 1 < Len(lines)
    BY <1>1, <1>4 DEF OnRow
  <2> QED BY <1>2, <1>4, <2>1
<1>5. CASE cx > 0 /\ Edit([lines EXCEPT ![cy + 1] = RemoveAt(@, cx)], cy, cx - 1)
  <2>1. cx \in 1 .. Clen(cy)
    BY <1>1, <1>5 DEF InBuffer
  <2> QED BY <1>3, <1>5, <2>1
<1>6. CASE cx = Clen(cy) /\ cy + 1 < Len(lines) /\ Edit(Joined(cy), cy, cx)
  BY <1>1, <1>2, <1>6
<1>7. CASE cx < Clen(cy) /\ Edit([lines EXCEPT ![cy + 1] = RemoveAt(@, cx + 1)], cy, cx)
  <2>1. PICK i \in 1 .. Clen(cy) : i = cx + 1 /\ cx = i - 1
    BY <1>1, <1>7
  <2>2. Edit([lines EXCEPT ![cy + 1] = RemoveAt(@, i)], cy, i - 1)
    BY <1>7, <2>1, Zenon
  <2> QED BY <1>3, <2>2
<1> QED BY <1>4, <1>5, <1>6, <1>7 DEF Backspace, Delete

LEMMA CutKeepsCursor == ASSUME CursorInv, Cut PROVE CursorInv'
<1>1. strayed' = strayed /\ strayed \in BOOLEAN /\ lines \in Text /\ Len(lines) \in Nat
      /\ cy \in Nat
      /\ cutBuf \in Text
  BY TypedBuffer DEF Cut, AnyCut, CursorInv
<1>2. ASSUME OnRow PROVE Append(cutBuf, Row(cy)) \in Text
  <2>1. Row(cy) \in Line /\ cutBuf \in Seq(Line)
    BY <1>1, <1>2, RowLine DEF Text, Line
  <2> QED BY <2>1 DEF Text, Line
<1>3. CASE /\ Len(lines) > 1 /\ OnRow /\ cutBuf' = Append(cutBuf, Row(cy))
           /\ Edit(RemoveAt(lines, cy + 1), Least(cy, Len(lines) - 2), 0)
  <2> DEFINE text == RemoveAt(lines, cy + 1)
             y == Least(cy, Len(lines) - 2)
  <2>1. text \in Text /\ Len(text) = Len(lines) - 1
    <3>1. lines \in Seq(Line) /\ cy + 1 \in 1 .. Len(lines)
      BY <1>1, <1>3 DEF Text, Line, OnRow
    <3> QED BY <3>1, Removed DEF Text, Line
  <2> HIDE DEF text
  <2>2. y \in 0 .. Len(text) - 1 /\ y \in Nat
    BY <1>1, <1>3, <2>1 DEF Least, OnRow
  <2> HIDE DEF y
  <2>3. At(text, y, 0)
    BY <2>1, <2>2, AtRow
  <2>4. Edit(text, y, 0) /\ cutBuf' \in Text
    BY <1>2, <1>3 DEF text, y
  <2> QED BY <1>1, <2>1, <2>2, <2>3, <2>4, EditStays
<1>4. CASE Len(lines) = 1 /\ cutBuf' = Append(cutBuf, Row(0)) /\ Edit(<<Blank>>, cy, 0)
  <2>1. <<Blank>> \in Text /\ Len(<<Blank>>) = 1
    BY DEF Blank, Text
  <2>2. ~strayed => At(<<Blank>>, cy, 0)
    <3>1. ~strayed => cy = 0
      BY <1>4, TypedBuffer DEF At
    <3>2. 0 \in 0 .. Len(<<Blank>>) - 1
      BY <2>1
    <3>3. At(<<Blank>>, 0, 0)
      BY <2>1, <3>2, AtRow
    <3> QED BY <3>1, <3>3
  <2>3. Append(cutBuf, Row(0)) \in Text
    <3>1. Row(0) \in Line /\ cutBuf \in Seq(Line)
      BY <1>1, <1>4, RowOf DEF Text, Line
    <3> QED BY <3>1 DEF Text, Line
  <2> QED BY <1>1, <1>4, <2>1, <2>2, <2>3, EditStays
<1> QED BY <1>3, <1>4 DEF Cut, AnyCut

LEMMA CopyStays == ASSUME CursorInv, Copy PROVE CursorInv'
<1>1. OnRow /\ cutBuf' = <<Row(cy)>> /\ UNCHANGED <<lines, cy, cx, undo, redo, disk, rep, strayed>>
  BY DEF Copy, cursor, files
<1>2. cutBuf' \in Text
  <2>1. Row(cy) \in Line
    BY <1>1, RowLine
  <2> QED BY <1>1, <2>1 DEF Text, Line
<1> QED BY <1>1, <1>2 DEF CursorInv, SnapsOf, Snaps, At, Asked, Line, Text, Snap

LEMMA InsertedIn ==
  ASSUME CursorInv, NEW block \in Text, NEW r \in Nat, NEW n \in Nat, n = Len(block)
  PROVE  /\ Inserted(block, r) \in Text
         /\ (r <= Len(lines) => Len(Inserted(block, r)) = Len(lines) + n)
<1> DEFINE m == Least(r, Len(lines))
           a == SubSeq(lines, 1, m)
           b == SubSeq(lines, r + 1, Len(lines))
<1>1. lines \in Seq(Line) /\ Len(lines) \in Nat /\ m \in 0 .. Len(lines)
      /\ 1 \in 1 .. Len(lines) + 1
      /\ (r <= Len(lines) => m = r /\ r + 1 \in 1 .. Len(lines) + 1)
      /\ Len(lines) \in 0 .. Len(lines)
  BY TypedBuffer DEF Least
<1> HIDE DEF m
<1>2. a \in Text /\ Len(a) = m
  <2>1. a \in Seq(Line) /\ Len(a) = IF 1 <= m THEN m - 1 + 1 ELSE 0
    BY <1>1, PartOf
  <2> QED BY <1>1, <2>1 DEF Text, Line
<1>3. b \in Text /\ (r <= Len(lines) => Len(b) = Len(lines) - r)
  <2>1. CASE r <= Len(lines)
    <3>1. b \in Seq(Line) /\ Len(b) = IF r + 1 <= Len(lines) THEN Len(lines) - (r + 1) + 1 ELSE 0
      BY <1>1, <2>1, PartOf
    <3> QED BY <1>1, <2>1, <3>1 DEF Text, Line
  <2>2. CASE ~(r <= Len(lines))
    <3>1. b = <<>>
      <4>1. r + 1 \in Int /\ Len(lines) \in Int /\ Len(lines) < r + 1
        BY <1>1, <2>2
      <4> QED BY <4>1, SubSeqEmpty
    <3> QED BY <2>2, <3>1 DEF Text
  <2> QED BY <2>1, <2>2
<1>4. Inserted(block, r) = a \o block \o b
  BY DEF Inserted, m
<1> HIDE DEF a, b
<1>5. a \o block \in Text /\ Len(a \o block) = m + n
  <2>1. a \in Seq(Line) /\ block \in Seq(Line)
    BY <1>2 DEF Text, Line
  <2>2. a \o block \in Seq(Line) /\ Len(a \o block) = Len(a) + Len(block)
    BY <2>1, ConcatProperties, Zenon
  <2> QED BY <1>2, <2>2, Zenon DEF Text, Line
<1> DEFINE c == a \o block
<1>6. c \in Text /\ Len(c) = m + n
  BY <1>5
<1> HIDE DEF c
<1>7. c \o b \in Text /\ Len(c \o b) = m + n + Len(b)
  <2>1. c \in Seq(Line) /\ b \in Seq(Line)
    BY <1>3, <1>6 DEF Text, Line
  <2>2. c \o b \in Seq(Line) /\ Len(c \o b) = Len(c) + Len(b)
    BY <2>1, ConcatProperties, Zenon
  <2> QED BY <1>6, <2>2, Zenon DEF Text, Line
<1>8. r <= Len(lines) => m + n + Len(b) = Len(lines) + n
  BY <1>1, <1>3
<1>9. Inserted(block, r) = c \o b
  BY <1>4 DEF c
<1> QED BY <1>7, <1>8, <1>9, Zenon

LEMMA LenOf ==
  ASSUME NEW text \in Text
  PROVE  Len(text) \in Nat /\ (text # <<>> => Len(text) > 0)
<1>1. text \in Seq(Line)
  BY DEF Text, Line
<1> QED BY <1>1, EmptySeq

LEMMA PasteStays == ASSUME CursorInv, Paste PROVE CursorInv'
<1> DEFINE text == Inserted(cutBuf, cy)
<1>1. cutBuf # <<>> /\ cy <= Len(lines) /\ Edit(text, cy, 0) /\ cutBuf' = cutBuf
      /\ strayed' = strayed
  BY DEF Paste
<1>2. cutBuf \in Text /\ strayed \in BOOLEAN /\ cy \in Nat /\ Len(lines) \in Nat
  BY TypedBuffer DEF CursorInv
<1>3. PICK n \in Nat : n = Len(cutBuf) /\ n > 0
  BY <1>1, <1>2, LenOf
<1>4. text \in Text /\ Len(text) = Len(lines) + n
  BY <1>1, <1>2, <1>3, InsertedIn
<1> HIDE DEF text
<1>5. At(text, cy, 0)
  <2>1. cy \in 0 .. Len(text) - 1
    BY <1>1, <1>2, <1>3, <1>4
  <2> QED BY <1>4, <2>1, AtRow
<1> QED BY <1>1, <1>2, <1>4, <1>5, EditStays

LEMMA InsertStays ==
  ASSUME CursorInv, NEW block \in Text, InsertLines(block)
  PROVE  CursorInv'
<1> DEFINE text == Inserted(block, cy + 1)
<1>1. (OnRow \/ block = <<>>) /\ Edit(text, cy + 1, 0) /\ cutBuf' = cutBuf
      /\ strayed' = (strayed \/ block = <<>>)
  BY DEF InsertLines
<1>2. cutBuf \in Text /\ strayed \in BOOLEAN /\ cy \in Nat /\ Len(lines) \in Nat /\ cy + 1 \in Nat
  BY TypedBuffer DEF CursorInv
<1>3. PICK n \in Nat : n = Len(block) /\ (block # <<>> => n > 0)
  BY LenOf
<1>4. text \in Text /\ (cy + 1 <= Len(lines) => Len(text) = Len(lines) + n)
  BY <1>2, <1>3, InsertedIn
<1> HIDE DEF text
<1>5. ~strayed' => At(text, cy + 1, 0)
  <2> SUFFICES ASSUME ~strayed' PROVE At(text, cy + 1, 0)
    OBVIOUS
  <2>1. cy < Len(lines) /\ n > 0
    BY <1>1, <1>3 DEF OnRow
  <2>2. cy + 1 \in 0 .. Len(text) - 1
    BY <1>2, <1>4, <2>1
  <2> QED BY <1>4, <2>2, AtRow
<1>6. strayed' \in BOOLEAN /\ (strayed => strayed')
  BY <1>1, <1>2
<1> QED BY <1>1, <1>2, <1>4, <1>5, <1>6, EditStays

(* The paragraph is within the buffer.                                     *)
LEMMA ParaIn ==
  ASSUME CursorInv, cy <= Len(lines)
  PROVE  ParaStart \in 0 .. cy /\ ParaEnd \in 0 .. Len(lines)
<1> DEFINE starts == {0} \cup {r + 1 : r \in {q \in 0 .. cy - 1 : IsBlank(q)}}
           ends == {Len(lines)} \cup {r \in cy + 1 .. Len(lines) - 1 : IsBlank(r)}
<1>1. cy \in Nat /\ Len(lines) \in Nat
  BY TypedBuffer
<1>2. starts \in SUBSET (0 .. cy) /\ starts # {}
  BY <1>1
<1>3. ends \in SUBSET Nat /\ ends # {} /\ \A e \in ends : e \in 0 .. Len(lines)
  BY <1>1
<1>4. ParaStart = Max(starts) /\ ParaEnd = Min(ends)
  BY DEF ParaStart, ParaEnd
<1> HIDE DEF starts, ends
<1>5. Max(starts) \in starts
  BY <1>1, <1>2, MaxOfNat
<1>6. Min(ends) \in ends
  BY <1>3, MinOf
<1> QED BY <1>2, <1>3, <1>4, <1>5, <1>6

LEMMA JustifyStays == ASSUME CursorInv, Justify PROVE CursorInv'
<1> DEFINE s == ParaStart
           e == ParaEnd
           para == Filled(Words(SubSeq(lines, s + 1, e)))
           a == SubSeq(lines, 1, s)
           b == SubSeq(lines, e + 1, Len(lines))
<1>1. cy <= Len(lines) /\ s < e /\ Edit(a \o para \o b, s, 0) /\ cutBuf' = cutBuf
      /\ strayed' = (strayed \/ para = <<>>)
  BY DEF Justify
<1>2. cutBuf \in Text /\ strayed \in BOOLEAN /\ Len(lines) \in Nat /\ lines \in Seq(Line)
      /\ cy \in Nat
  BY TypedBuffer DEF CursorInv
<1>3. s \in 0 .. cy /\ e \in 0 .. Len(lines)
  BY <1>1, ParaIn
<1> HIDE DEF s, e
<1>4. s \in Nat /\ s \in 0 .. Len(lines) /\ s + 1 \in 1 .. Len(lines) + 1
      /\ e + 1 \in 1 .. Len(lines) + 1
      /\ 1 \in 1 .. Len(lines) + 1 /\ Len(lines) \in 0 .. Len(lines)
  BY <1>1, <1>2, <1>3
<1>5. para \in Text
  <2>1. SubSeq(lines, s + 1, e) \in Text
    BY <1>2, <1>3, <1>4, PartOf DEF Text, Line
  <2>2. Words(SubSeq(lines, s + 1, e)) \in Text
    BY <2>1, WordsAreText DEF WordLists
  <2> QED BY <2>2, FilledIsText
<1>6. a \in Text /\ Len(a) = s
  <2>1. a \in Seq(Line) /\ Len(a) = IF 1 <= s THEN s - 1 + 1 ELSE 0
    BY <1>2, <1>4, PartOf
  <2> QED BY <1>4, <2>1 DEF Text, Line
<1>7. b \in Text
  BY <1>2, <1>4, PartOf DEF Text, Line
<1>8. PICK n \in Nat, k \in Nat : n = Len(para) /\ (para # <<>> => n > 0) /\ k = Len(b)
  BY <1>5, <1>7, LenOf
<1> HIDE DEF a, b, para
<1> DEFINE c == a \o para
<1>9. c \in Text /\ Len(c) = s + n
  <2>1. a \in Seq(Line) /\ para \in Seq(Line)
    BY <1>5, <1>6 DEF Text, Line
  <2>2. a \o para \in Seq(Line) /\ Len(a \o para) = Len(a) + Len(para)
    BY <2>1, ConcatProperties, Zenon
  <2> QED BY <1>6, <1>8, <2>2, Zenon DEF Text, Line
<1>10. Edit(c \o b, s, 0)
  BY <1>1
<1> HIDE DEF c
<1>11. c \o b \in Text /\ Len(c \o b) = s + n + k
  <2>1. c \in Seq(Line) /\ b \in Seq(Line)
    BY <1>7, <1>9 DEF Text, Line
  <2>2. c \o b \in Seq(Line) /\ Len(c \o b) = Len(c) + Len(b)
    BY <2>1, ConcatProperties, Zenon
  <2> QED BY <1>8, <1>9, <2>2, Zenon DEF Text, Line
<1> DEFINE text == c \o b
<1>12. text \in Text /\ Len(text) = s + n + k /\ Edit(text, s, 0)
  BY <1>10, <1>11
<1> HIDE DEF text
<1>13. ~strayed' => At(text, s, 0)
  <2> SUFFICES ASSUME ~strayed' PROVE At(text, s, 0)
    OBVIOUS
  <2>2. n > 0
    BY <1>1, <1>8
  <2>3. s \in 0 .. s + n + k - 1
    BY <1>4, <1>8, <2>2
  <2>1. s \in 0 .. Len(text) - 1
    BY <1>12, <2>3
  <2> QED BY <1>12, <2>1, AtRow
<1>14. strayed' \in BOOLEAN /\ (strayed => strayed') /\ cutBuf' \in Text
  BY <1>1, <1>2
<1> QED BY <1>4, <1>12, <1>13, <1>14, EditStays

LEMMA ChangeStays == ASSUME CursorInv, Change PROVE CursorInv'
<1>1. ASSUME NEW f \in Files, InsertFile(f) PROVE CursorInv'
  BY <1>1, InsertStays DEF InsertFile, CursorInv
<1>2. CASE RunCommand
  <2>1. Outputs \subseteq Text
    BY TextAssumption
  <2> QED BY <1>2, <2>1, InsertStays DEF RunCommand
<1> QED BY <1>1, <1>2, NewlineStays, EraseStays, CutKeepsCursor, CopyStays, PasteStays,
      JustifyStays DEF Change

-----------------------------------------------------------------------------
(* Snapshots come back with their cursor; the replace loop and the keys    *)
(* that write.                                                             *)
LEMMA FrontLast ==
  ASSUME NEW S, NEW s \in Seq(S), s # <<>>
  PROVE  Front(s) \in Seq(S) /\ Last(s) \in S
BY Ends

LEMMA UndoStays == ASSUME CursorInv, Undo \/ Redo PROVE CursorInv'
<1> DEFINE S == SnapsOf(strayed)
<1>1. undo \in Seq(S) /\ redo \in Seq(S) /\ Snap \in S
  BY DEF CursorInv
<1>2. ASSUME NEW s \in S, lines' = s.lines, cy' = s.cy, cx' = s.cx PROVE Snap' \in S
  <2>1. s = [lines |-> s.lines, cy |-> s.cy, cx |-> s.cx]
    BY DEF SnapsOf, Snaps
  <2>2. Snap' = [lines |-> s.lines, cy |-> s.cy, cx |-> s.cx]
    BY <1>2 DEF Snap
  <2> QED BY <2>1, <2>2
<1>3. UNCHANGED <<cutBuf, disk, rep, strayed>>
  BY DEF Undo, Redo, AnyRedo, files
<1>4. undo' \in Seq(S) /\ redo' \in Seq(S) /\ Snap' \in S
  <2> HIDE DEF S
  <2>1. CASE Undo
    <3>1. undo # <<>> /\ undo' = Front(undo) /\ redo' = Append(redo, Snap)
          /\ lines' = Last(undo).lines /\ cy' = Last(undo).cy /\ cx' = Last(undo).cx
      BY <2>1 DEF Undo
    <3> QED BY <1>1, <1>2, <3>1, FrontLast, AppendProperties
  <2>2. CASE Redo
    <3>1. redo # <<>> /\ redo' = Front(redo) /\ undo' = Append(undo, Snap)
          /\ lines' = Last(redo).lines /\ cy' = Last(redo).cy /\ cx' = Last(redo).cx
      BY <2>2 DEF Redo, AnyRedo
    <3> QED BY <1>1, <1>2, <3>1, FrontLast, AppendProperties
  <2> QED BY <2>1, <2>2
<1>5. S' = S
  BY <1>3 DEF SnapsOf, Snaps, At, Text
<1> HIDE DEF S
<1>6. undo' \in Seq(S') /\ redo' \in Seq(S') /\ Snap' \in S'
  BY <1>4, <1>5
<1> QED BY <1>3, <1>6 DEF CursorInv, S, Asked, Line, Text

LEMMA SameCursor ==
  ASSUME CursorInv, UNCHANGED <<lines, cursor, undo, redo, cutBuf, strayed>>,
         rep' \subseteq Asked, \A f \in DOMAIN disk' : disk'[f] \in Text
  PROVE  CursorInv'
BY DEF CursorInv, cursor, SnapsOf, Snaps, At, Asked, Line, Text, Snap

LEMMA WriteStays ==
  ASSUME CursorInv, NEW f, Write(f)
  PROVE  \A g \in DOMAIN disk' : disk'[g] \in Text
<1>1. lines \in Text /\ lines \in Seq(Line) /\ Len(lines) \in Nat
      /\ \A g \in DOMAIN disk : disk[g] \in Text
  BY TypedBuffer DEF CursorInv
<1>2. ASSUME NEW text \in Text, disk' = Holding(f, text)
      PROVE  \A g \in DOMAIN disk' : disk'[g] \in Text
  BY <1>1, <1>2 DEF Holding
<1>3. AsLines(lines) \in Text
  BY <1>1 DEF AsLines, Blank, Text
<1>4. \A n \in 0 .. Len(lines) - 1 : SubSeq(lines, 1, n) \in Text
  <2> SUFFICES ASSUME NEW n \in 0 .. Len(lines) - 1 PROVE SubSeq(lines, 1, n) \in Text
    OBVIOUS
  <2>1. n \in 0 .. Len(lines) /\ 1 \in 1 .. Len(lines) + 1
    BY <1>1
  <2> QED BY <1>1, <2>1, PartOf DEF Text, Line
<1>5. disk' = disk \/ \E text \in Text : disk' = Holding(f, text)
  BY <1>3, <1>4 DEF Write, AnyWrite
<1> QED BY <1>1, <1>2, <1>5

LEMMA SavingStays ==
  ASSUME CursorInv, Save \/ SaveAs \/ Exit \/ Panic \/ \E t \in Terms, w \in Repls : Replace(t, w)
  PROVE  CursorInv'
<1>1. UNCHANGED <<lines, cursor, undo, redo, cutBuf, strayed>>
  BY DEF Save, SaveAs, Exit, Panic, Replace
<1>2. \A f \in DOMAIN disk : disk[f] \in Text
  BY DEF CursorInv
<1>3. ASSUME disk' = disk PROVE \A f \in DOMAIN disk' : disk'[f] \in Text
  BY <1>2, <1>3
<1>4. disk' = disk \/ \E f : Write(f)
  BY DEF Save, SaveAs, WriteOut, Exit, Panic, Replace, files
<1>5. \A f \in DOMAIN disk' : disk'[f] \in Text
  BY <1>3, <1>4, WriteStays
<1>6. rep' \subseteq Asked
  <2>1. rep \subseteq Asked
    BY DEF CursorInv
  <2>2. ASSUME NEW t \in Terms, NEW w \in Repls, Replace(t, w) PROVE rep' \subseteq Asked
    <3>1. t \in Line /\ w \in Line
      BY TextAssumption DEF Line
    <3> QED BY <2>2, <3>1 DEF Replace, Asked
  <2>3. rep' = rep \/ \E t \in Terms, w \in Repls : Replace(t, w)
    BY DEF Save, SaveAs, Exit, Panic
  <2> QED BY <2>1, <2>2, <2>3
<1> QED BY <1>1, <1>5, <1>6, SameCursor

-----------------------------------------------------------------------------
LEMMA AtColIn ==
  ASSUME NEW r \in Asked, NEW text, NEW y \in Nat, NEW x \in Nat
  PROVE  AtCol(r, text, y, x) \in Asked /\ AtCol(r, text, y, x).all = r.all
         /\ AtCol(r, text, y, x).made = r.made
<1>1. ASSUME NEW z \in Nat, NEW c \in Nat
      PROVE  \A u : u = [r EXCEPT !.row = z, !.col = c] =>
                   u \in Asked /\ u.all = r.all /\ u.made = r.made
  BY DEF Asked
<1>2. PICK z \in Nat, c \in Nat : AtCol(r, text, y, x) = [r EXCEPT !.row = z, !.col = c]
  <2>1. y + 1 \in Nat /\ 0 \in Nat
    BY SMT
  <2> QED BY <2>1, Zenon DEF AtCol
<1> QED BY <1>1, <1>2, Zenon

LEMMA FoundIn ==
  ASSUME CursorInv, NEW r \in Asked, NEW at \in Found(r)
  PROVE  /\ at[1] \in 0 .. Len(lines) - 1 /\ at[1] \in Nat /\ at[2] \in Nat
         /\ at[2] + Len(r.term) <= Len(lines[at[1] + 1])
         /\ lines[at[1] + 1] \in Line /\ At(lines, at[1], at[2])
<1>1. lines \in Text /\ r.row \in Nat /\ r.col \in Nat /\ r.term \in Line
  BY TypedBuffer DEF Asked
<1>2. PICK skip \in Nat : at[1] \in 0 .. Len(lines) - 1
      /\ at[2] \in Matches(lines, at[1], skip, r.term)
  BY <1>1, FindIn DEF Found
<1>3. Matches(lines, at[1], skip, r.term) \in SUBSET Nat /\ At(lines, at[1], at[2])
      /\ at[2] + Len(r.term) <= Len(lines[at[1] + 1])
  BY <1>1, <1>2, MatchesIn
<1>4. lines[at[1] + 1] \in Line
  BY <1>1, <1>2, AtRow
<1> QED BY <1>2, <1>3, <1>4

LEMMA AnswerStays ==
  ASSUME CursorInv, NEW r \in Asked, NEW at \in Found(r), NEW next \in SUBSET Asked,
         Answered(r, at, next),
         UNCHANGED <<cutBuf, files>>
  PROVE  CursorInv'
<1>1. lines' = lines /\ cy' = at[1] /\ cx' = at[2] /\ rep' = next
      /\ UNCHANGED <<undo, redo, strayed, cutBuf, disk>>
  BY DEF Answered, files
<1>2. [lines |-> lines, cy |-> at[1], cx |-> at[2]] \in SnapsOf(strayed)
  BY TypedBuffer, FoundIn, SnapOf
<1>3. Snap' \in SnapsOf(strayed)
  BY <1>1, <1>2 DEF Snap
<1> QED BY <1>1, <1>3 DEF CursorInv, SnapsOf, Snaps, At, Asked, Line, Text

LEMMA SubstituteStays ==
  ASSUME CursorInv, NEW r \in Asked, NEW at \in Found(r), NEW all \in BOOLEAN,
         Substitute(r, at, all),
         UNCHANGED <<cutBuf, files>>
  PROVE  CursorInv'
<1> DEFINE row == Row(at[1])
           w == SubSeq(row, 1, at[2]) \o r.repl \o SubSeq(row, at[2] + Len(r.term) + 1, Len(row))
           text == [lines EXCEPT ![at[1] + 1] = w]
           col == at[2] + Len(r.repl)
<1>1. /\ IF r.all THEN UNCHANGED cursor ELSE cy' = at[1] /\ cx' = at[2]
      /\ lines' = text /\ redo' = <<>>
      /\ undo' = Append(Front(Snapped), [lines |-> lines, cy |-> cy', cx |-> cx'])
      /\ rep' = {[AtCol(r, text, at[1], col) EXCEPT !.all = all, !.made = MadeWith(r, at)]}
      /\ strayed' = (strayed \/ (at[1] = cy' /\ at[2] < cx'))
      /\ UNCHANGED <<cutBuf, disk>>
  BY DEF Substitute, AnySubstitute, files
<1>2. PICK y \in Nat, x \in Nat, q \in 1 .. Len(lines) :
        at[1] = y /\ at[2] = x /\ q = y + 1 /\ y \in 0 .. Len(lines) - 1
  <2>1. at[1] \in Nat /\ at[2] \in Nat /\ at[1] \in 0 .. Len(lines) - 1
    BY FoundIn
  <2> QED BY <2>1, TypedBuffer
<1>3. row \in Line /\ Len(row) \in Nat /\ row = lines[q]
  BY <1>2, FoundIn DEF Row, Line
<1>4. r.term \in Line /\ r.repl \in Line /\ Len(r.repl) \in Nat /\ Len(r.term) \in Nat
      /\ r.made \subseteq Nat \X Nat
  BY DEF Asked, Line
<1>5. x \in 0 .. Len(row) /\ x + Len(r.term) \in 0 .. Len(row)
  <2>1. at[2] + Len(r.term) <= Len(lines[at[1] + 1])
    BY FoundIn
  <2>2. x + Len(r.term) <= Len(row)
    BY <1>2, <1>3, <2>1
  <2> HIDE DEF row
  <2>3. PICK t \in Nat, n \in Nat : t = Len(r.term) /\ n = Len(row)
    BY <1>3, <1>4
  <2>4. x + t <= n
    BY <2>2, <2>3
  <2>5. x \in 0 .. n /\ x + t \in 0 .. n
    BY <1>2, <2>3, <2>4
  <2> QED BY <2>3, <2>5
<1> HIDE DEF row
<1>6. w \in Line /\ Len(w) \in Nat /\ x <= Len(w)
  <2> DEFINE a == SubSeq(row, 1, at[2])
             b == SubSeq(row, at[2] + Len(r.term) + 1, Len(row))
  <2>1. a \in Line /\ Len(a) = x /\ b \in Line
    BY <1>2, <1>3, <1>5, PartOfLine
  <2> HIDE DEF a, b
  <2>2. a \o r.repl \in Line /\ Len(a \o r.repl) = x + Len(r.repl)
    BY <1>4, <2>1, Glued, Zenon
  <2> DEFINE c == a \o r.repl
  <2>3. c \in Line /\ Len(c) = x + Len(r.repl)
    BY <2>2
  <2> HIDE DEF c
  <2>4. c \o b \in Line /\ Len(c \o b) = Len(c) + Len(b) /\ Len(b) \in Nat /\ Len(c \o b) \in Nat
    BY <2>1, <2>3, Glued DEF Line
  <2>5. PICK m \in Nat, n \in Nat : Len(b) = m /\ Len(c \o b) = n
    BY <2>4
  <2>6. n = x + Len(r.repl) + m
    BY <2>3, <2>4, <2>5, Zenon
  <2>7. x <= n
    BY <1>4, <2>6
  <2>8. w = c \o b
    BY DEF a, b, c
  <2> QED BY <2>4, <2>5, <2>7, <2>8, Zenon
<1> HIDE DEF w
<1>7. text \in Text /\ Len(text) = Len(lines) /\ text[q] = w
      /\ \A p \in 1 .. Len(lines) : p # q => text[p] = lines[p]
  <2>1. lines \in Text /\ text = [lines EXCEPT ![q] = w]
    BY <1>2, TypedBuffer
  <2>2. [lines EXCEPT ![q] = w] \in Text /\ Len([lines EXCEPT ![q] = w]) = Len(lines)
        /\ \A p \in 1 .. Len(lines) : [lines EXCEPT ![q] = w][p] = IF p = q THEN w ELSE lines[p]
    BY <1>6, <2>1, RowReplaced
  <2> QED BY <2>1, <2>2
<1> HIDE DEF text
<1>8. cy' \in Nat /\ cx' \in Nat /\ (~strayed => At(lines, cy', cx'))
  BY <1>1, TypedBuffer, FoundIn DEF cursor
<1>9. strayed' \in BOOLEAN /\ (strayed => strayed')
  BY <1>1 DEF CursorInv
<1>10. [lines |-> lines, cy |-> cy', cx |-> cx'] \in SnapsOf(strayed')
  BY <1>8, <1>9, TypedBuffer, SnapOf
<1>11. ~strayed' => At(text, cy', cx')
  <2> SUFFICES ASSUME ~strayed' PROVE At(text, cy', cx')
    OBVIOUS
  <2>1. ~strayed /\ ~(y = cy' /\ x < cx')
    BY <1>1, <1>2
  <2>2. cy' \in 0 .. Len(lines) - 1 /\ cx' \in 0 .. Len(lines[cy' + 1])
    BY <1>8, <2>1 DEF At
  <2>3. CASE cy' = y
    <3>1. cx' \in 0 .. Len(w) /\ cy' + 1 = q
      BY <1>2, <1>6, <1>8, <2>1, <2>3
    <3> QED BY <1>7, <2>2, <3>1 DEF At
  <2>4. CASE cy' # y
    <3>1. cy' + 1 \in 1 .. Len(lines) /\ cy' + 1 # q
      <4>1. PICK z \in 0 .. Len(lines) - 1 : z = cy'
        BY <2>2
      <4>2. z # y /\ q = y + 1 /\ Len(lines) \in Nat
        BY <1>2, <2>4, <4>1, TypedBuffer
      <4>3. z + 1 \in 1 .. Len(lines) /\ z + 1 # q
        BY <4>2
      <4> QED BY <4>1, <4>3
    <3> QED BY <1>7, <2>2, <3>1 DEF At
  <2> QED BY <2>3, <2>4
<1>12. Snap' \in SnapsOf(strayed')
  <2>1. Snap' = [lines |-> text, cy |-> cy', cx |-> cx']
    BY <1>1 DEF Snap
  <2> QED BY <1>7, <1>8, <1>11, <2>1, SnapOf
<1>13. undo' \in Seq(SnapsOf(strayed')) /\ redo' \in Seq(SnapsOf(strayed'))
  <2> DEFINE S == SnapsOf(strayed')
             s == [lines |-> lines, cy |-> cy', cx |-> cx']
  <2>1. Snapped \in Seq(SnapsOf(strayed)) /\ Snapped # <<>>
    BY SnappedStays
  <2>2. SnapsOf(strayed) \subseteq S
    BY <1>9, SnapsLater
  <2>3. s \in S /\ undo' = Append(Front(Snapped), s) /\ redo' = <<>>
    BY <1>1, <1>10
  <2> HIDE DEF S, s
  <2>4. Front(Snapped) \in Seq(S)
    <3>1. Snapped \in Seq(S)
      BY <2>1, <2>2, SeqLater
    <3> QED BY <2>1, <3>1, FrontLast
  <2>5. undo' \in Seq(S) /\ redo' \in Seq(S)
    BY <2>3, <2>4, AppendProperties
  <2> QED BY <2>5 DEF S
<1>14. rep' \subseteq Asked
  <2>1. AtCol(r, text, y, x + Len(r.repl)) \in Asked
    BY <1>4, AtColIn
  <2>2. MadeWith(r, at) \in SUBSET (Nat \X Nat)
    BY <1>2, <1>4 DEF MadeWith
  <2>3. ASSUME NEW u \in Asked, NEW m \in SUBSET (Nat \X Nat)
        PROVE  [u EXCEPT !.all = all, !.made = m] \in Asked
    BY DEF Asked
  <2> QED BY <1>1, <1>2, <2>1, <2>2, <2>3
<1>15. SnapsOf(strayed)' = SnapsOf(strayed') /\ Asked' = Asked /\ Text' = Text
  BY DEF SnapsOf, Snaps, At, Text, Asked, Line, Chars
<1>16. undo' \in Seq(SnapsOf(strayed)') /\ redo' \in Seq(SnapsOf(strayed)')
      /\ Snap' \in SnapsOf(strayed)'
  BY <1>12, <1>13, <1>15
<1> QED BY <1>1, <1>9, <1>14, <1>15, <1>16 DEF CursorInv

LEMMA ReplacingStays == ASSUME CursorInv, Replacing PROVE CursorInv'
<1>1. PICK r \in rep : ReplaceStep(r)
  BY DEF Replacing
<1>2. r \in Asked /\ UNCHANGED <<cutBuf, files>> /\ disk' = disk
  BY <1>1 DEF CursorInv, ReplaceStep, files
<1>3. CASE NoneLeft(r)
  <2>1. UNCHANGED <<lines, cursor, undo, redo, strayed>> /\ rep' = {}
    BY <1>3 DEF NoneLeft, AnyNoneLeft
  <2> QED BY <1>2, <2>1, SameCursor DEF CursorInv
<1>4. ASSUME NEW at \in Found(r), Skip(r, at) PROVE CursorInv'
  <2> DEFINE u == AtCol(r, lines, at[1], at[2] + 1)
  <2>1. u \in Asked
    <3>1. at[1] \in Nat /\ at[2] + 1 \in Nat
      BY <1>2, FoundIn
    <3> QED BY <1>2, <3>1, AtColIn
  <2>2. Answered(r, at, {[u EXCEPT !.skipped = TRUE]})
    BY <1>4 DEF Skip
  <2> HIDE DEF u
  <2>3. {[u EXCEPT !.skipped = TRUE]} \in SUBSET Asked
    BY <2>1 DEF Asked
  <2> QED BY <1>2, <2>2, <2>3, AnswerStays
<1>5. ASSUME NEW at \in Found(r), Cancel(r, at) PROVE CursorInv'
  <2>1. {} \in SUBSET Asked
    OBVIOUS
  <2> QED BY <1>2, <1>5, <2>1, AnswerStays DEF Cancel
<1>6. ASSUME NEW at \in Found(r), Substitute(r, at, r.all) \/ Substitute(r, at, TRUE)
      PROVE CursorInv'
  <2>1. r.all \in BOOLEAN
    BY <1>2 DEF Asked
  <2> QED BY <1>2, <1>6, <2>1, SubstituteStays
<1> QED BY <1>1, <1>3, <1>4, <1>5, <1>6 DEF ReplaceStep

LEMMA NextStays == ASSUME CursorInv, [Next]_vars PROVE CursorInv'
<1>1. CASE UNCHANGED vars
  BY <1>1, SameCursor DEF vars, cursor, files, CursorInv
<1> QED BY <1>1, MoveKeeps, TypedStays, ChangeStays, UndoStays, SavingStays,
      ReplacingStays DEF Next, Key

LEMMA InitStays == Init => CursorInv
<1> SUFFICES ASSUME Init PROVE CursorInv
  OBVIOUS
<1>1. \A f \in DOMAIN disk : disk[f] \in Text
  <2>1. Texts \subseteq Text
    BY TextAssumption
  <2>2. PICK fs \in SUBSET Files : disk \in [fs -> Texts]
    BY DEF Init
  <2> QED BY <2>1, <2>2
<1>2. lines \in Text /\ Len(lines) > 0 /\ Len(lines) \in Nat
  <2>1. <<Blank>> \in Text /\ <<Blank>> # <<>>
    BY DEF Blank, Text
  <2>2. lines \in Text /\ lines # <<>>
    BY <1>1, <2>1 DEF Init, Content, AsLines
  <2> QED BY <2>2, LenOf
<1>3. At(lines, 0, 0)
  <2>1. 0 \in 0 .. Len(lines) - 1
    BY <1>2
  <2> QED BY <1>2, <2>1, AtRow
<1>4. Snap \in SnapsOf(strayed)
  <2>1. Snap = [lines |-> lines, cy |-> 0, cx |-> 0]
    BY DEF Init, Snap
  <2> QED BY <1>2, <1>3, <2>1, SnapOf
<1> QED BY <1>1, <1>4, EmptySeq DEF Init, CursorInv, Text

(* The cursor is in the buffer, whatever was typed, cut, joined, filled    *)
(* anew, undone or searched for, in texts of any rows and any length, save *)
(* after the three keys that lose it.                                      *)
THEOREM CursorKeptTheorem == Spec => []CursorKept
BY InitStays, NextStays, CursorInvKeeps, PTL DEF Spec

-----------------------------------------------------------------------------
(* The parts of two lines that agree are the same.                         *)
LEMMA SamePart ==
  ASSUME NEW v \in Line, NEW w \in Line, NEW c \in Nat, NEW n \in Nat,
         c + n <= Len(v), c + n <= Len(w), \A i \in 1 .. c + n : v[i] = w[i]
  PROVE  SubSeq(v, c + 1, c + n) = SubSeq(w, c + 1, c + n)
<1> DEFINE a == SubSeq(v, c + 1, c + n)
           b == SubSeq(w, c + 1, c + n)
<1>1. v \in Seq(Chars) /\ w \in Seq(Chars) /\ Len(v) \in Nat /\ Len(w) \in Nat
  BY DEF Line
<1>2. c + 1 \in 1 .. Len(v) + 1 /\ c + n \in 0 .. Len(v) /\ c + 1 \in 1 .. Len(w) + 1
      /\ c + n \in 0 .. Len(w)
  BY <1>1
<1>3. a \in Seq(Chars) /\ Len(a) = n /\ \A i \in 1 .. n : a[i] = v[c + i]
  <2>1. /\ a \in Seq(Chars) /\ Len(a) = IF c + 1 <= c + n THEN c + n - (c + 1) + 1 ELSE 0
        /\ \A i \in 1 .. c + n - (c + 1) + 1 : a[i] = v[c + 1 + i - 1]
    BY <1>1, <1>2, PartOf
  <2>2. c + n - (c + 1) + 1 = n /\ \A i \in 1 .. n : c + 1 + i - 1 = c + i
    OBVIOUS
  <2> QED BY <2>1, <2>2
<1>4. b \in Seq(Chars) /\ Len(b) = n /\ \A i \in 1 .. n : b[i] = w[c + i]
  <2>1. /\ b \in Seq(Chars) /\ Len(b) = IF c + 1 <= c + n THEN c + n - (c + 1) + 1 ELSE 0
        /\ \A i \in 1 .. c + n - (c + 1) + 1 : b[i] = w[c + 1 + i - 1]
    BY <1>1, <1>2, PartOf
  <2>2. c + n - (c + 1) + 1 = n /\ \A i \in 1 .. n : c + 1 + i - 1 = c + i
    OBVIOUS
  <2> QED BY <2>1, <2>2
<1> HIDE DEF a, b
<1>5. \A i \in 1 .. n : c + i \in 1 .. c + n
  OBVIOUS
<1>6. \A i \in 1 .. Len(a) : a[i] = b[i]
  BY <1>3, <1>4, <1>5
<1>7. a = b
  BY <1>3, <1>4, <1>6, SeqEqual
<1> QED BY <1>7 DEF a, b

(* Rows count modulo the number of them.                                   *)
Around(a, n) == a % n

LEMMA AroundIs ==
  ASSUME NEW n \in Nat \ {0}, NEW a \in 0 .. n - 1
  PROVE  Around(a, n) = a /\ Around(n + a, n) = a /\ Around(a + n, n) = a
BY DEF Around

(* A row that is n rows from another in a round is it.                     *)
LEMMA RowsAround ==
  ASSUME NEW n \in Nat \ {0}, NEW row \in 0 .. n, NEW y \in 0 .. n - 1
  PROVE  \E i \in 0 .. n - 1 : Around(row + i, n) = y /\ (i = 0 => y = row \/ row = n)
<1>1. CASE row = n
  <2>1. Around(row + y, n) = y
    BY <1>1, AroundIs
  <2> WITNESS y \in 0 .. n - 1
  <2> QED BY <1>1, <2>1
<1>2. CASE row < n /\ row <= y
  <2>1. y - row \in 0 .. n - 1 /\ row + (y - row) = y
    BY <1>2
  <2>2. Around(row + (y - row), n) = y /\ (y - row = 0 => y = row)
    BY <2>1, AroundIs
  <2> QED BY <2>1, <2>2, Zenon
<1>3. CASE row < n /\ y < row
  <2>1. y + n - row \in 1 .. n - 1 /\ row + (y + n - row) = y + n
    BY <1>3
  <2>2. Around(y + n, n) = y
    BY AroundIs
  <2>3. y + n - row \in 0 .. n - 1 /\ y + n - row # 0
    BY <2>1
  <2> QED BY <2>1, <2>2, <2>3
<1> QED BY <1>1, <1>2, <1>3

MatchesFrom(text, row, col, term, i) ==
  Matches(text, Around(row + i, Len(text)), IF i = 0 THEN col ELSE 0, term)

LEMMA MatchesSkip ==
  ASSUME NEW text, NEW r, NEW skip, NEW term, NEW c \in Matches(text, r, 0, term), c >= skip,
         skip \in Nat
  PROVE  c \in Matches(text, r, skip, term)
BY DEF Matches

(* Nothing is found: there is no match, but before the column asked for.   *)
LEMMA NothingFound ==
  ASSUME NEW text \in Text, NEW row \in 0 .. Len(text), NEW col \in Nat, NEW term \in Line,
         Find(text, row, col, term) = {}, row = Len(text) => col = 0,
         NEW y \in 0 .. Len(text) - 1, NEW c \in Matches(text, y, 0, term)
  PROVE  y = row /\ c < col
<1> DEFINE n == Len(text)
           hits == {i \in 0 .. n - 1 : MatchesFrom(text, row, col, term, i) # {}}
<1>1. hits = {}
  BY DEF Find, MatchesFrom, Around
<1>2. n \in Nat \ {0} /\ row \in 0 .. n /\ y \in 0 .. n - 1
  <2>1. n \in Nat
    BY DEF Text
  <2> QED BY <2>1
<1> HIDE DEF n
<1>3. PICK i \in 0 .. n - 1 : Around(row + i, n) = y /\ (i = 0 => y = row \/ row = n)
  BY <1>2, RowsAround
<1>4. MatchesFrom(text, row, col, term, i) = {}
  BY <1>1, <1>3
<1>5. c \in Nat
  BY MatchesIn
<1>6. CASE i # 0
  BY <1>3, <1>4, <1>6 DEF MatchesFrom, n
<1>7. CASE i = 0
  <2>1. Matches(text, y, col, term) = {}
    BY <1>3, <1>4, <1>7 DEF MatchesFrom, n
  <2>2. c < col
    BY <1>5, <2>1, MatchesSkip
  <2>3. row # n
    BY <1>5, <2>2 DEF n
  <2> QED BY <1>3, <1>7, <2>2, <2>3
<1> QED BY <1>6, <1>7

(* What find returns is the first match of its row, but for those before   *)
(* the column asked for.                                                   *)
LEMMA FoundIsFirst ==
  ASSUME NEW text \in Text, NEW row \in 0 .. Len(text), NEW col \in Nat, NEW term \in Line,
         row = Len(text) => col = 0, NEW at \in Find(text, row, col, term),
         NEW c \in Matches(text, at[1], 0, term), c < at[2]
  PROVE  at[1] = row /\ c < col
<1> DEFINE n == Len(text)
           Ats(i) == MatchesFrom(text, row, col, term, i)
           hits == {i \in 0 .. n - 1 : Ats(i) # {}}
<1>1. hits # {} /\ at = <<Around(row + Min(hits), n), Min(Ats(Min(hits)))>>
  BY DEF Find, MatchesFrom, Around
<1>2. n \in Nat /\ hits \in SUBSET Nat
  BY DEF Text
<1>3. PICK i \in 0 .. n - 1 : i = Min(hits) /\ Ats(i) # {}
  <2>1. Min(hits) \in hits
    <3> HIDE DEF hits
    <3> QED BY <1>1, <1>2, MinOf
  <2> QED BY <2>1
<1>4. at[1] = Around(row + i, n) /\ at[2] = Min(Ats(i))
  BY <1>1, <1>3
<1>5. n \in Nat \ {0} /\ row \in 0 .. n
  BY <1>2, <1>3
<1>6. at[1] \in 0 .. n - 1
  BY FindIn
<1>7. c \in Nat
  BY <1>6, MatchesIn
<1>8. Ats(i) = Matches(text, at[1], IF i = 0 THEN col ELSE 0, term)
  BY <1>4 DEF MatchesFrom
<1>9. ~(c \in Ats(i))
  <2>1. Ats(i) \in SUBSET Nat
    <3>1. PICK skip \in Nat : skip = IF i = 0 THEN col ELSE 0
      OBVIOUS
    <3>2. Ats(i) = Matches(text, at[1], skip, term)
      BY <1>8, <3>1
    <3> HIDE DEF Ats
    <3> QED BY <1>6, <3>2, MatchesIn
  <2> HIDE DEF Ats
  <2>2. at[2] \in Nat /\ \A k \in Ats(i) : at[2] <= k
    BY <1>3, <1>4, <2>1, MinOf
  <2> QED BY <1>7, <2>2
<1>10. i = 0 /\ c < col
  <2>1. CASE i # 0
    BY <1>8, <1>9, <2>1
  <2>2. CASE i = 0
    <3>1. ~(c >= col)
      BY <1>8, <1>9, <2>2, MatchesSkip
    <3> QED BY <1>7, <2>2, <3>1
  <2> QED BY <2>1, <2>2
<1>11. row # n
  BY <1>7, <1>10
<1>12. at[1] = row
  <2>1. row \in 0 .. n - 1 /\ row + 0 = row
    BY <1>5, <1>11
  <2>2. at[1] = Around(row + 0, n)
    BY <1>4, <1>10
  <2> QED BY <1>5, <2>1, <2>2, AroundIs
<1> QED BY <1>10, <1>12

-----------------------------------------------------------------------------
(* The loop has looked at what is before its column: an instance there was *)
(* skipped or came to be by a replacement.                                 *)
Looked(r) ==
  /\ rep = {r} /\ r.row \in 0 .. Len(lines) /\ (r.row = Len(lines) => r.col = 0)
  /\ r.row < Len(lines) /\ ~r.skipped =>
       \A c \in Matches(lines, r.row, 0, r.term) : c < r.col => Remade(r, r.row, c)
LoopInv == (\A r \in rep : Looked(r)) /\ (\A r \in rep : r.term # <<>>)

(* A replacement: the row before it is as it was.                          *)
Spliced(row, x, t, repl) == SubSeq(row, 1, x) \o repl \o SubSeq(row, x + t + 1, Len(row))

Replaces(w, row, x, t, repl) ==
  /\ w \in Line /\ Len(w) = x + Len(repl) + (Len(row) - (x + t))
  /\ \A i \in 1 .. x : w[i] = row[i]

LEMMA Prefix ==
  ASSUME NEW row \in Line, NEW repl \in Line, NEW x \in Nat, NEW t \in Nat, x + t <= Len(row)
  PROVE  Replaces(Spliced(row, x, t, repl), row, x, t, repl)
<1> DEFINE a == SubSeq(row, 1, x)
           b == SubSeq(row, x + t + 1, Len(row))
<1>1. Len(row) \in Nat /\ x \in 0 .. Len(row) /\ x + t \in 0 .. Len(row) /\ Len(repl) \in Nat
  BY DEF Line
<1>2. a \in Line /\ Len(a) = x /\ b \in Line /\ Len(b) = Len(row) - (x + t)
  BY <1>1, PartOfLine
<1>3. \A i \in 1 .. x : a[i] = row[i]
  <2>1. row \in Seq(Chars) /\ 1 \in 1 .. Len(row) + 1
    BY <1>1 DEF Line
  <2>2. \A i \in 1 .. x - 1 + 1 : a[i] = row[1 + i - 1]
    BY <1>1, <2>1, PartOf
  <2>3. x - 1 + 1 = x /\ \A i \in 1 .. x : 1 + i - 1 = i
    OBVIOUS
  <2> QED BY <2>2, <2>3
<1>4. Spliced(row, x, t, repl) = a \o repl \o b
  BY DEF Spliced
<1> HIDE DEF a, b
<1>5. a \o repl \in Line /\ Len(a \o repl) = x + Len(repl)
      /\ \A i \in 1 .. x : (a \o repl)[i] = a[i]
  <2>1. a \in Seq(Chars) /\ repl \in Seq(Chars)
    BY <1>2 DEF Line
  <2>2. /\ a \o repl \in Seq(Chars) /\ Len(a \o repl) = Len(a) + Len(repl)
        /\ \A i \in 1 .. Len(a) + Len(repl) :
             (a \o repl)[i] = IF i <= Len(a) THEN a[i] ELSE repl[i - Len(a)]
    BY <2>1, ConcatProperties, Zenon
  <2>3. \A i \in 1 .. x : i \in 1 .. x + Len(repl) /\ i <= x
    BY <1>1
  <2>4. \A i \in 1 .. x : (a \o repl)[i] = a[i]
    BY <1>2, <2>2, <2>3
  <2> QED BY <1>2, <2>2, <2>4, Zenon DEF Line
<1> DEFINE c == a \o repl
<1>6. c \in Line /\ Len(c) = x + Len(repl) /\ \A i \in 1 .. x : c[i] = row[i]
  BY <1>3, <1>5
<1>7. Spliced(row, x, t, repl) = c \o b
  BY <1>4
<1> HIDE DEF c
<1>8. /\ c \o b \in Seq(Chars) /\ Len(c \o b) = Len(c) + Len(b)
      /\ \A i \in 1 .. Len(c) + Len(b) : (c \o b)[i] = IF i <= Len(c) THEN c[i] ELSE b[i - Len(c)]
  <2>1. c \in Seq(Chars) /\ b \in Seq(Chars)
    BY <1>2, <1>6 DEF Line
  <2> QED BY <2>1, ConcatProperties, Zenon
<1>9. \A i \in 1 .. x : i \in 1 .. x + Len(repl) + (Len(row) - (x + t)) /\ i <= x + Len(repl)
  BY <1>1
<1>10. \A i \in 1 .. x : (c \o b)[i] = row[i]
  BY <1>2, <1>6, <1>8, <1>9
<1>11. c \o b \in Line /\ Len(c \o b) = x + Len(repl) + (Len(row) - (x + t))
  BY <1>2, <1>6, <1>8, Zenon DEF Line
<1> QED BY <1>7, <1>10, <1>11 DEF Replaces

(* A match of the new row that ends where the replacement starts was one.  *)
LEMMA MatchBefore ==
  ASSUME NEW text, NEW old, NEW y, NEW x \in Nat, NEW term \in Line,
         text[y + 1] \in Line, old[y + 1] \in Line, x <= Len(old[y + 1]), x <= Len(text[y + 1]),
         \A i \in 1 .. x : text[y + 1][i] = old[y + 1][i],
         NEW c \in Matches(text, y, 0, term), c + Len(term) <= x
  PROVE  c \in Matches(old, y, 0, term)
<1>1. PICK v \in Line, w \in Line : v = text[y + 1] /\ w = old[y + 1]
  OBVIOUS
<1>2. PICK n \in Nat, l \in Nat, k \in Nat : n = Len(term) /\ l = Len(v) /\ k = Len(w)
  BY DEF Line
<1>3. c \in 0 .. l - n /\ SubSeq(v, c + 1, c + n) = term
  BY <1>1, <1>2 DEF Matches
<1>4. c \in Nat /\ c + n <= l /\ c + n <= k /\ c + n <= x /\ c \in 0 .. k - n
  BY <1>1, <1>2, <1>3
<1>5. \A i \in 1 .. c + n : v[i] = w[i]
  <2>1. \A i \in 1 .. c + n : i \in 1 .. x
    BY <1>4
  <2> QED BY <1>1, <2>1
<1>6. SubSeq(v, c + 1, c + n) = SubSeq(w, c + 1, c + n)
  BY <1>2, <1>4, <1>5, SamePart
<1> QED BY <1>1, <1>2, <1>3, <1>4, <1>6, Zenon DEF Matches

(* A replacement was of the first instance the loop had not looked at: what*)
(* is an instance before its end was one before, or overlaps with it.      *)
LEMMA SubstituteLooks ==
  ASSUME CursorInv, NEW r \in Asked, Looked(r), r.term # <<>>, NEW at \in Found(r),
         NEW all \in BOOLEAN,
         Substitute(r, at, all)
  PROVE  LoopInv'
<1> DEFINE row == Row(at[1])
           w == SubSeq(row, 1, at[2]) \o r.repl \o SubSeq(row, at[2] + Len(r.term) + 1, Len(row))
           text == [lines EXCEPT ![at[1] + 1] = w]
           col == at[2] + Len(r.repl)
           made == MadeWith(r, at)
           u == [AtCol(r, text, at[1], col) EXCEPT !.all = all, !.made = made]
<1>1. lines' = text /\ rep' = {u}
  BY DEF Substitute, AnySubstitute
<1>2. PICK y \in Nat, x \in Nat, q \in 1 .. Len(lines) :
        at[1] = y /\ at[2] = x /\ q = y + 1 /\ y \in 0 .. Len(lines) - 1
  <2>1. at[1] \in Nat /\ at[2] \in Nat /\ at[1] \in 0 .. Len(lines) - 1
    BY FoundIn
  <2> QED BY <2>1, TypedBuffer
<1>3. PICK t \in Nat, p \in Nat, n \in Nat : t = Len(r.term) /\ p = Len(r.repl) /\ n = Len(row)
      /\ t > 0
                                         /\ r.term \in Line /\ r.repl \in Line
  <2>1. r.term \in Seq(Chars) /\ r.repl \in Seq(Chars) /\ row \in Seq(Chars)
    BY FoundIn DEF Asked, Line, Row
  <2>2. Len(r.term) \in Nat /\ Len(r.term) # 0 /\ Len(r.repl) \in Nat /\ Len(row) \in Nat
    BY <2>1, EmptySeq
  <2> HIDE DEF row
  <2> QED BY <2>1, <2>2 DEF Line
<1>4. row \in Line /\ row = lines[q] /\ x + t <= n
  BY <1>2, <1>3, FoundIn DEF Row
<1> HIDE DEF row
<1>5. w \in Line /\ Len(w) = x + p + (n - (x + t)) /\ \A i \in 1 .. x : w[i] = row[i]
  <2>1. w = Spliced(row, x, t, r.repl)
    BY <1>2, <1>3 DEF Spliced
  <2> HIDE DEF w
  <2>2. x + t <= Len(row)
    BY <1>3, <1>4
  <2>3. Replaces(Spliced(row, x, t, r.repl), row, x, t, r.repl)
    <3>1. PICK v \in Line, z \in Line : v = r.repl /\ z = row
      BY <1>3, <1>4
    <3>2. x \in Nat /\ t \in Nat /\ x + t <= Len(z)
      BY <1>2, <1>3, <2>2, <3>1
    <3>3. Replaces(Spliced(z, x, t, v), z, x, t, v)
      BY <3>2, Prefix, Zenon
    <3> QED BY <3>1, <3>3, Zenon
  <2> QED BY <1>3, <2>1, <2>3, Zenon DEF Replaces
<1> HIDE DEF w
<1>6. x + p <= x + p + (n - (x + t)) /\ x <= x + p + (n - (x + t)) /\ x <= n
  <2>1. x \in Nat /\ p \in Nat /\ n \in Nat /\ t \in Nat /\ x + t <= n
    BY <1>2, <1>3, <1>4, Zenon
  <2> QED BY <2>1
<1>7. text \in Text /\ Len(text) = Len(lines) /\ text[q] = w /\ lines \in Text
  <2>1. lines \in Text /\ text = [lines EXCEPT ![q] = w]
    BY <1>2, TypedBuffer
  <2>2. [lines EXCEPT ![q] = w] \in Text /\ Len([lines EXCEPT ![q] = w]) = Len(lines)
        /\ [lines EXCEPT ![q] = w][q] = w
    BY <1>5, <2>1, RowReplaced
  <2> QED BY <2>1, <2>2
<1> HIDE DEF text
<1>8. /\ u.row = y /\ u.col = x + p /\ u.term = r.term /\ u.skipped = r.skipped /\ u.made = made
  <2>1. AtCol(r, text, at[1], col) = [r EXCEPT !.row = y, !.col = x + p]
    <3>1. ~(x + p > Len(text[y + 1]))
      <4>1. Len(text[y + 1]) = x + p + (n - (x + t))
        BY <1>2, <1>5, <1>7
      <4>2. ~(x + p > x + p + (n - (x + t)))
        BY <1>6
      <4> QED BY <4>1, <4>2
    <3> QED BY <1>2, <1>3, <3>1 DEF AtCol
  <2> HIDE DEF made, col
  <2>2. u = [[r EXCEPT !.row = y, !.col = x + p] EXCEPT !.all = all, !.made = made]
    BY <2>1
  <2> QED BY <2>2 DEF Asked
<1>9. made = (IF y = r.row THEN r.made ELSE {}) \cup {<<x, x + p>>}
  BY <1>2, <1>3 DEF MadeWith
<1> HIDE DEF made
<1>10. ASSUME ~r.skipped, NEW c \in Matches(text, y, 0, r.term), c < x + p
       PROVE  \E m \in made : c < m[2] /\ c + t > m[1]
  <2>1. c \in Nat /\ c + t \in Nat
    BY <1>2, <1>3, <1>7, MatchesIn
  <2>2. CASE c + t > x
    <3>1. <<x, x + p>> \in made /\ <<x, x + p>>[1] = x /\ <<x, x + p>>[2] = x + p
      BY <1>9
    <3> QED BY <1>10, <2>2, <3>1
  <2>3. CASE ~(c + t > x)
    <3>1. c + t <= x /\ c < x
      BY <1>3, <2>1, <2>3
    <3>2. c \in Matches(lines, y, 0, r.term)
      <4>1. text[y + 1] = w /\ lines[y + 1] = row /\ x <= Len(row) /\ x <= Len(w)
        BY <1>2, <1>3, <1>4, <1>5, <1>6, <1>7
      <4>2. r.term \in Line /\ c + Len(r.term) <= x
        BY <1>3, <3>1
      <4> HIDE DEF row, text, w
      <4>3. PICK z, o : z = text /\ o = lines
        OBVIOUS
      <4>4. /\ z[y + 1] \in Line /\ o[y + 1] \in Line
            /\ x <= Len(o[y + 1]) /\ x <= Len(z[y + 1])
            /\ \A i \in 1 .. x : z[y + 1][i] = o[y + 1][i]
        BY <1>4, <1>5, <4>1, <4>3
      <4>5. x \in Nat /\ c \in Matches(z, y, 0, r.term)
        BY <1>2, <1>10, <4>3
      <4>6. c \in Matches(o, y, 0, r.term)
        BY <4>2, <4>4, <4>5, MatchBefore
      <4> QED BY <4>3, <4>6
    <3>3. y = r.row /\ c < r.col
      <4>1. r.row \in 0 .. Len(lines) /\ (r.row = Len(lines) => r.col = 0) /\ r.col \in Nat
        BY DEF Looked, Asked
      <4>2. at \in Find(lines, r.row, r.col, r.term)
        BY DEF Found
      <4>3. c \in Matches(lines, at[1], 0, r.term) /\ c < at[2]
        BY <1>2, <3>1, <3>2
      <4>4. at[1] = r.row /\ c < r.col
        BY <1>3, <1>7, <4>1, <4>2, <4>3, FoundIsFirst
      <4> QED BY <1>2, <4>4
    <3>4. Remade(r, y, c)
      <4>1. r.row < Len(lines)
        BY <1>2, <3>3
      <4> QED BY <1>10, <3>2, <3>3, <4>1 DEF Looked
    <3> QED BY <1>3, <1>9, <3>3, <3>4 DEF Remade
  <2> QED BY <2>2, <2>3
<1>11. PICK v, z : v = u /\ z = text
  OBVIOUS
<1> HIDE DEF u
<1>12. rep' = {v} /\ lines' = z /\ v.row = y /\ v.col = x + p /\ v.term = r.term
      /\ v.skipped = r.skipped
       /\ v.made = made /\ Len(z) = Len(lines) /\ v.term # <<>>
  BY <1>1, <1>7, <1>8, <1>11
<1>13. v.row \in 0 .. Len(z) /\ v.row # Len(z)
  <2>1. Len(lines) \in Nat
    BY <1>7 DEF Text
  <2> QED BY <1>2, <1>12, <2>1
<1>14. ASSUME ~v.skipped, NEW c \in Matches(z, v.row, 0, v.term), c < v.col
       PROVE  Remade(v, v.row, c)
  <2>1. c \in Matches(text, y, 0, r.term) /\ c < x + p /\ ~r.skipped
    BY <1>11, <1>12, <1>14
  <2> QED BY <1>3, <1>10, <1>12, <2>1 DEF Remade
<1>15. Looked(v)'
  BY <1>12, <1>13, <1>14 DEF Looked, Remade, Matches
<1> QED BY <1>12, <1>15 DEF LoopInv

LEMMA ReplacingLooks == ASSUME CursorInv, LoopInv, Replacing PROVE LoopInv'
<1>1. PICK r \in rep : ReplaceStep(r)
  BY DEF Replacing
<1>2. r \in Asked /\ Looked(r) /\ r.term # <<>> /\ lines \in Text
  BY <1>1, TypedBuffer DEF CursorInv, LoopInv
<1>3. ASSUME rep' = {} PROVE LoopInv'
  BY <1>3 DEF LoopInv
<1>4. CASE NoneLeft(r)
  BY <1>3, <1>4 DEF NoneLeft, AnyNoneLeft
<1>5. ASSUME NEW at \in Found(r), Cancel(r, at) PROVE LoopInv'
  BY <1>3, <1>5 DEF Cancel, Answered
<1>6. ASSUME NEW at \in Found(r), Skip(r, at) PROVE LoopInv'
  <2> DEFINE u == [AtCol(r, lines, at[1], at[2] + 1) EXCEPT !.skipped = TRUE]
  <2>1. rep' = {u} /\ lines' = lines
    BY <1>6 DEF Skip, Answered
  <2>2. at[1] \in 0 .. Len(lines) - 1 /\ at[2] \in Nat /\ at[1] \in Nat
        /\ at[2] + Len(r.term) <= Len(lines[at[1] + 1]) /\ lines[at[1] + 1] \in Line
    BY <1>2, FoundIn
  <2>3. Len(r.term) \in Nat /\ Len(r.term) # 0 /\ Len(lines[at[1] + 1]) \in Nat
        /\ Len(lines) \in Nat
    <3>1. r.term \in Seq(Chars)
      BY <1>2 DEF Asked, Line
    <3> QED BY <1>2, <2>2, <3>1, EmptySeq DEF Line, Text
  <2>4. ~(at[2] + 1 > Len(lines[at[1] + 1]))
    BY <2>2, <2>3
  <2>5. AtCol(r, lines, at[1], at[2] + 1) = [r EXCEPT !.row = at[1], !.col = at[2] + 1]
    BY <2>4 DEF AtCol
  <2>6. u.row = at[1] /\ u.term = r.term /\ u.skipped = TRUE
    BY <1>2, <2>5 DEF Asked
  <2>7. PICK v : v = u
    OBVIOUS
  <2> HIDE DEF u
  <2>8. rep' = {v} /\ v.row = at[1] /\ v.term = r.term /\ v.skipped = TRUE
    BY <2>1, <2>6, <2>7
  <2>9. v.row \in 0 .. Len(lines) /\ v.row # Len(lines)
    BY <2>2, <2>3, <2>8
  <2>10. Looked(v)'
    BY <2>1, <2>8, <2>9 DEF Looked
  <2> QED BY <1>2, <2>8, <2>10 DEF LoopInv
<1>7. ASSUME NEW at \in Found(r), Substitute(r, at, r.all) \/ Substitute(r, at, TRUE) PROVE LoopInv'
  <2>1. r.all \in BOOLEAN
    BY <1>2 DEF Asked
  <2> QED BY <1>2, <1>7, <2>1, SubstituteLooks
<1> QED BY <1>1, <1>4, <1>5, <1>6, <1>7 DEF ReplaceStep

LEMMA KeyLooks == ASSUME CursorInv, Key PROVE rep = {} /\ LoopInv'
<1>1. rep = {}
  <2>1. Idle
    BY DEF Key, Move, Go, Clamped, NextRow, Up, Down, PageUp, PageDown, Left, Right, Home, End,
           WordFwd, WordBack, FirstLine, LastLine, GoToLine, Search, Typing, InsertTab,
           InsertChar, Typed, Change, Newline, Backspace, Delete, Cut, AnyCut, Copy, Paste,
           RunCommand, InsertLines, Justify, InsertFile, Undo, Redo, AnyRedo, Save, SaveAs,
           Exit, Panic, Replace, May
  <2> QED BY <2>1 DEF Idle
<1>2. ASSUME rep' = rep PROVE LoopInv'
  BY <1>1, <1>2 DEF LoopInv
<1>3. ASSUME NEW t \in Terms, NEW v \in Repls, Replace(t, v) PROVE LoopInv'
  <2> DEFINE u == [term |-> t, repl |-> v, row |-> 0, col |-> 0, all |-> FALSE, skipped |-> FALSE,
        made |-> {}]
  <2>1. rep' = {u} /\ lines' = lines
    BY <1>3 DEF Replace
  <2>2. u.row = 0 /\ u.col = 0 /\ u.term = t
    OBVIOUS
  <2> HIDE DEF u
  <2>6. PICK w : w = u
    OBVIOUS
  <2>3. Len(lines) \in Nat /\ t # <<>> /\ t \in Line /\ lines \in Text
    BY TypedBuffer, TextAssumption DEF Line
  <2>4. ASSUME Len(lines) > 0, NEW c \in Matches(lines, 0, 0, t), c < 0 PROVE FALSE
    <3>1. 0 \in 0 .. Len(lines) - 1
      BY <2>3, <2>4
    <3>2. Matches(lines, 0, 0, t) \in SUBSET Nat
      BY <2>3, <3>1, MatchesIn
    <3> QED BY <2>4, <3>2
  <2>5. Looked(w)'
    <3>1. rep' = {w} /\ w.row = 0 /\ w.col = 0 /\ w.term = t
      BY <2>1, <2>2, <2>6
    <3>2. w.row \in 0 .. Len(lines) /\ (w.row = Len(lines) => w.col = 0)
      BY <2>3, <3>1
    <3>3. ASSUME w.row < Len(lines), NEW c \in Matches(lines, w.row, 0, w.term), c < w.col
          PROVE FALSE
      <4>1. c \in Matches(lines, 0, 0, t) /\ c < 0 /\ Len(lines) > 0
        BY <2>3, <3>1, <3>3
      <4> QED BY <2>4, <4>1
    <3> QED BY <2>1, <3>1, <3>2, <3>3 DEF Looked, Matches
  <2> QED BY <2>1, <2>2, <2>3, <2>5, <2>6 DEF LoopInv
<1>4. rep' = rep \/ \E t \in Terms, v \in Repls : Replace(t, v)
  BY DEF Key, Move, Go, Clamped, NextRow, Up, Down, PageUp, PageDown, Left, Right, Home, End,
         WordFwd, WordBack, FirstLine, LastLine, GoToLine, Search, Typing, InsertTab,
         InsertChar, Typed, Change, Newline, Backspace, Delete, Cut, AnyCut, Copy, Paste,
         RunCommand, InsertLines, Justify, InsertFile, Undo, Redo, AnyRedo, Save, SaveAs,
         Exit, Panic, Edit
<1> QED BY <1>1, <1>2, <1>3, <1>4

(* The loop ends when it finds nothing, or is cancelled.                   *)
LEMMA EndIsComplete ==
  ASSUME CursorInv, LoopInv, Next, NEW r \in rep, r.all, ~r.skipped, rep' = {},
         NEW y \in 0 .. Len(lines) - 1, NEW c \in Matches(lines, y, 0, r.term)
  PROVE  Remade(r, y, c)
<1>1. Looked(r) /\ r \in Asked /\ lines \in Text
  BY TypedBuffer DEF LoopInv, CursorInv
<1>2. ReplaceStep(r)
  <2>1. Replacing
    BY KeyLooks DEF Next
  <2> QED BY <1>1, <2>1 DEF Replacing, Looked
<1>3. Found(r) = {}
  BY <1>2 DEF ReplaceStep, NoneLeft, AnyNoneLeft, Skip, Cancel, Answered, Substitute, AnySubstitute
<1>4. y = r.row /\ c < r.col
  <2>1. r.row \in 0 .. Len(lines) /\ (r.row = Len(lines) => r.col = 0) /\ r.col \in Nat
        /\ r.term \in Line
    BY <1>1 DEF Looked, Asked
  <2>2. Find(lines, r.row, r.col, r.term) = {}
    BY <1>3 DEF Found
  <2> QED BY <1>1, <2>1, <2>2, NothingFound
<1>5. r.row < Len(lines)
  BY <1>1, <1>4, TypedBuffer
<1> QED BY <1>1, <1>4, <1>5 DEF Looked

(* Replace All, with any term and any replacement and however often it goes*)
(* round, leaves no instance that was there before it: what is left is     *)
(* where a replacement has come to be part of one.                         *)
THEOREM ReplaceAllIsCompleteTheorem == Spec => ReplaceAllIsComplete
<1>1. Init => LoopInv
  BY DEF Init, LoopInv
<1>2. CursorInv /\ LoopInv /\ [Next]_vars => LoopInv'
  <2>1. ASSUME UNCHANGED vars, LoopInv PROVE LoopInv'
    BY <2>1 DEF vars, LoopInv, Looked, Matches, Remade
  <2> QED BY <2>1, KeyLooks, ReplacingLooks DEF Next
<1>3. CursorInv /\ LoopInv /\ [Next]_vars =>
        [\A r \in rep : r.all /\ ~r.skipped /\ rep' = {} =>
           \A y \in 0 .. Len(lines) - 1 : \A c \in Matches(lines, y, 0, r.term) :
             Remade(r, y, c)]_vars
  BY EndIsComplete
<1> QED BY InitStays, NextStays, <1>1, <1>2, <1>3, PTL DEF Spec, ReplaceAllIsComplete
=============================================================================
