-------------------------------- MODULE Nano --------------------------------
(***************************************************************************)
(* The nano editor: a buffer of lines with a cursor, a cut buffer, undo    *)
(* and redo snapshots, and files it reads and writes.  One key is handled  *)
(* at a time; a prompt's answer is part of the key that asked for it, but  *)
(* the replace loop asks and replaces step by step.                        *)
(*                                                                         *)
(* Rows and columns count from 0 as in the source, so line r of the buffer *)
(* is lines[r + 1].  Characters are one byte each: letters, or Space.      *)
(* Colours, scrolling, the status line and the search history are left     *)
(* out.                                                                    *)
(***************************************************************************)
EXTENDS Integers, FiniteSets, SequencesExt, FiniteSetsExt

CONSTANTS
  Letters,   \* letters that may be typed
  Files,     \* file names
  Texts,     \* sequences of lines a file may hold at first
  Outputs,   \* sequences of lines a command may print
  Terms,     \* what may be searched for, sequences of characters
  Repls,     \* what it may be replaced with
  Page,      \* content rows of the terminal
  Fill,      \* columns a justified paragraph may take
  TabWidth,  \* TAB_WIDTH
  MaxUndo,   \* MAX_UNDO
  MaxEdits,  \* bound: edits, replacements and writes in one behaviour
  NoName     \* a buffer without a file name

Space == " "
Chars == Letters \cup {Space}
Blank == <<>>
Text == Seq(Seq(Chars))

ASSUME UndoAssumption == MaxUndo \in Nat \ {0}
ASSUME TextAssumption ==
  /\ Texts \cup Outputs \subseteq Text /\ Terms \cup Repls \subseteq Seq(Chars) /\ <<>> \notin Terms
  /\ Page \in Nat /\ TabWidth \in Nat

VARIABLES
  lines, cy, cx,  \* the buffer and the cursor
  undo, redo,     \* snapshots
  cutBuf,         \* lines cut or copied
  modified,       \* the buffer differs from its file
  filename,       \* a file or NoName
  disk,           \* disk[f]: the lines of file f, for the files there are
  rep,            \* the replace loop: a set with one record, or empty
  quit,           \* "no", "kept", "discarded" (the buffer, on exit) or "panic"
  edits,          \* number of them so far
  strayed,        \* history: one of the three steps that lose the cursor was taken
  failed          \* history: a write of an unmodified buffer failed, and none succeeded since

cursor == <<cy, cx>>
files  == <<filename, disk, failed>>
vars == <<lines, cy, cx, undo, redo, cutBuf, modified, filename, disk, rep, quit,
          edits, strayed, failed>>

Snap == [lines |-> lines, cy |-> cy, cx |-> cx]
Row(r)  == lines[r + 1]
Clen(r) == Len(Row(r))

OnRow    == cy < Len(lines)
InBuffer == cy \in 0 .. Len(lines) - 1 /\ cx \in 0 .. Clen(cy)
Idle     == quit = "no" /\ rep = {}
May      == Idle /\ edits < MaxEdits

(* No lines and one empty line are the same text, to read and to write; a  *)
(* missing file is empty.                                                  *)
AsLines(text) == IF text = <<>> THEN <<Blank>> ELSE text
Content(f) == IF f \in DOMAIN disk THEN AsLines(disk[f]) ELSE <<Blank>>

Init ==
  /\ disk \in UNION {[fs -> Texts] : fs \in SUBSET Files}
  /\ filename \in Files \cup {NoName}
  /\ lines = Content(filename) /\ cy = 0 /\ cx = 0
  /\ undo = <<>> /\ redo = <<>> /\ cutBuf = <<>> /\ modified = FALSE
  /\ rep = {} /\ quit = "no" /\ edits = 0 /\ strayed = FALSE /\ failed = FALSE

-----------------------------------------------------------------------------
(* Moving.  A move that reads a row needs the row to be there.             *)
Least(a, b) == IF a <= b THEN a ELSE b

Go(y, x) ==
  /\ Idle /\ cy' = y /\ cx' = x
  /\ UNCHANGED <<lines, undo, redo, cutBuf, modified, files, rep, quit, edits, strayed>>
Clamped(y) == y < Len(lines) /\ Go(y, Least(cx, Clen(y)))

Up       == cy > 0 /\ Clamped(cy - 1)
Down     == cy + 1 < Len(lines) /\ Clamped(cy + 1)
PageUp   == Clamped(IF cy > Page THEN cy - Page ELSE 0)
PageDown == lines # <<>> /\ Clamped(Least(cy + Page, Len(lines) - 1))
Left ==
  \/ cx > 0 /\ Go(cy, cx - 1)
  \/ cx = 0 /\ cy \in 1 .. Len(lines) /\ Go(cy - 1, Clen(cy - 1))
NextRow(otherwise) == IF cy + 1 < Len(lines) THEN Go(cy + 1, 0) ELSE Go(cy, otherwise)
Right ==
  /\ OnRow
  /\ IF cx < Clen(cy) THEN Go(cy, cx + 1) ELSE NextRow(cx)
Home == Go(cy, 0)
End  == OnRow /\ Go(cy, Clen(cy))

WordFwd ==
  /\ OnRow
  /\ LET ends == {i \in cx + 1 .. Clen(cy) - 1 : Row(cy)[i + 1] = Space /\ Row(cy)[i] # Space}
     IN  IF ends # {} THEN Go(cy, Min(ends)) ELSE NextRow(Clen(cy))
WordBack ==
  \/ cx = 0 /\ cy \in 1 .. Len(lines) /\ Go(cy - 1, Clen(cy - 1))
  \/ /\ InBuffer /\ (cx > 0 \/ cy = 0)
     /\ Go(cy, Max({0} \cup {i \in 1 .. cx - 1 : Row(cy)[i] = Space /\ Row(cy)[i + 1] # Space}))

FirstLine   == Go(0, 0)
LastLine    == lines # <<>> /\ Go(Len(lines) - 1, 0)
GoToLine(r) == r < Len(lines) /\ \E c \in 0 .. Clen(r) : Go(r, c)

(* find: the rest of the first row, then the other rows, wrapping around.  *)
Matches(text, r, skip, term) ==
  {c \in skip .. Len(text[r + 1]) - Len(term) : SubSeq(text[r + 1], c + 1, c + Len(term)) = term}
Find(text, row, col, term) ==
  LET At(i) == Matches(text, (row + i) % Len(text), IF i = 0 THEN col ELSE 0, term)
      hits  == {i \in 0 .. Len(text) - 1 : At(i) # {}}
  IN  IF hits = {} THEN {} ELSE {<<(row + Min(hits)) % Len(text), Min(At(Min(hits)))>>}

Search(term) ==
  /\ OnRow
  /\ \E at \in IF cx + 1 <= Clen(cy) THEN Find(lines, cy, cx + 1, term)
               ELSE Find(lines, (cy + 1) % Len(lines), 0, term) : Go(at[1], at[2])

-----------------------------------------------------------------------------
(* Snapshots.                                                              *)
Snapped == Append(IF Len(undo) >= MaxUndo THEN Tail(undo) ELSE undo, Snap)

Undo ==
  /\ Idle /\ undo # <<>>
  /\ undo' = Front(undo) /\ redo' = Append(redo, Snap)
  /\ lines' = Last(undo).lines /\ cy' = Last(undo).cy /\ cx' = Last(undo).cx
  /\ modified' = TRUE
  /\ UNCHANGED <<cutBuf, files, rep, quit, edits, strayed>>

AnyRedo(newUndo) ==
  /\ Idle /\ redo # <<>>
  /\ redo' = Front(redo) /\ undo' = newUndo
  /\ lines' = Last(redo).lines /\ cy' = Last(redo).cy /\ cx' = Last(redo).cx
  /\ modified' = TRUE
  /\ UNCHANGED <<cutBuf, files, rep, quit, edits, strayed>>
RedoForgets == AnyRedo(undo)
Redo == AnyRedo(Append(undo, Snap))

(* Every edit takes a snapshot and drops the redo snapshots, but typing.   *)
Edit(text, y, x) ==
  /\ lines' = text /\ cy' = y /\ cx' = x
  /\ undo' = Snapped /\ redo' = <<>>
  /\ modified' = TRUE /\ edits' = edits + 1
  /\ UNCHANGED <<files, rep, quit>>

(* Typing at a column past the end of the row appends.                     *)
Typed(s) ==
  /\ May /\ OnRow
  /\ LET at == Least(cx, Clen(cy))
     IN  lines' = [lines EXCEPT ![cy + 1] = SubSeq(@, 1, at) \o s \o SubSeq(@, at + 1, Len(@))]
  /\ cx' = cx + Len(s) /\ cutBuf' = <<>> /\ modified' = TRUE /\ edits' = edits + 1
  /\ UNCHANGED <<cy, undo, redo, files, rep, quit, strayed>>
InsertChar(c) == Typed(<<c>>)
InsertTab == Typed([i \in 1 .. TabWidth |-> Space])

Newline ==
  /\ May /\ OnRow
  /\ LET at == Least(cx, Clen(cy))
     IN  Edit(InsertAt([lines EXCEPT ![cy + 1] = SubSeq(@, 1, at)], cy + 2,
                       SubSeq(Row(cy), at + 1, Clen(cy))), cy + 1, 0)
  /\ cutBuf' = <<>> /\ UNCHANGED strayed

Joined(r) == RemoveAt([lines EXCEPT ![r + 1] = @ \o Row(r + 1)], r + 2)

Backspace ==
  /\ May /\ InBuffer /\ cutBuf' = <<>> /\ UNCHANGED strayed
  /\ \/ cx = 0 /\ cy > 0 /\ Edit(Joined(cy - 1), cy - 1, Clen(cy - 1))
     \/ cx > 0 /\ Edit([lines EXCEPT ![cy + 1] = RemoveAt(@, cx)], cy, cx - 1)

Delete ==
  /\ May /\ InBuffer /\ cutBuf' = <<>> /\ UNCHANGED strayed
  /\ \/ cx = Clen(cy) /\ cy + 1 < Len(lines) /\ Edit(Joined(cy), cy, cx)
     \/ cx < Clen(cy) /\ Edit([lines EXCEPT ![cy + 1] = RemoveAt(@, cx + 1)], cy, cx)

(* With one row left it is cleared, wherever the cursor is.                *)
AnyCut(y) ==
  /\ May /\ UNCHANGED strayed
  /\ \/ /\ Len(lines) > 1 /\ OnRow /\ cutBuf' = Append(cutBuf, Row(cy))
        /\ Edit(RemoveAt(lines, cy + 1), y, 0)
     \/ Len(lines) = 1 /\ cutBuf' = Append(cutBuf, Row(0)) /\ Edit(<<Blank>>, cy, 0)
CutStays == AnyCut(cy)
Cut == AnyCut(Least(cy, Len(lines) - 2))

Copy ==
  /\ Idle /\ OnRow /\ cutBuf' = <<Row(cy)>>
  /\ UNCHANGED <<lines, cursor, undo, redo, modified, files, rep, quit, edits, strayed>>

Inserted(block, r) ==
  SubSeq(lines, 1, Least(r, Len(lines))) \o block \o SubSeq(lines, r + 1, Len(lines))

Paste ==
  /\ May /\ cutBuf # <<>> /\ cy <= Len(lines)
  /\ Edit(Inserted(cutBuf, cy), cy, 0) /\ UNCHANGED <<cutBuf, strayed>>

(* The lines of a file or of a command's output go below the cursor, which *)
(* moves to the first of them, even when there is none.                    *)
InsertLines(block) ==
  /\ May /\ (OnRow \/ block = <<>>)
  /\ Edit(Inserted(block, cy + 1), cy + 1, 0)
  /\ strayed' = (strayed \/ block = <<>>) /\ UNCHANGED cutBuf
InsertFile(f) == f \in DOMAIN disk /\ InsertLines(disk[f])
RunCommand == \E out \in Outputs : InsertLines(out)

(* justify: the paragraph around the cursor is filled anew with its words, *)
(* which are what is between two blanks, if anything is.                   *)
IsBlank(r) == \A i \in 1 .. Clen(r) : Row(r)[i] = Space
ParaStart == Max({0} \cup {r + 1 : r \in {q \in 0 .. cy - 1 : IsBlank(q)}})
ParaEnd   == Min({Len(lines)} \cup {r \in cy + 1 .. Len(lines) - 1 : IsBlank(r)})

Spaced(text) == FoldLeft(LAMBDA s, line : s \o line \o <<Space>>, <<>>, text)
Take(words, c) ==
  IF c = Space THEN Append(words, <<>>) ELSE Append(Front(words), Append(Last(words), c))
Words(text) == FoldLeft(Take, << <<>> >>, Spaced(text))
Put(para, word) ==
  IF word = <<>> THEN para
  ELSE IF para # <<>> /\ Len(Last(para)) + 1 + Len(word) <= Fill
  THEN Append(Front(para), Last(para) \o <<Space>> \o word)
  ELSE Append(para, word)
Filled(words) == FoldLeft(Put, <<>>, words)

Justify ==
  /\ May /\ cy <= Len(lines) /\ ParaStart < ParaEnd
  /\ LET para == Filled(Words(SubSeq(lines, ParaStart + 1, ParaEnd)))
     IN  /\ Edit(SubSeq(lines, 1, ParaStart) \o para \o SubSeq(lines, ParaEnd + 1, Len(lines)),
                 ParaStart, 0)
         /\ strayed' = (strayed \/ para = <<>>)
  /\ UNCHANGED cutBuf

-----------------------------------------------------------------------------
(* The replace loop, from the top of the buffer.  A match is asked about   *)
(* unless All was answered before; then the cursor stays where it is.      *)
(* history: skipped, an instance was left; made, where replacements are in *)
(* the row of the last one.                                                *)
Replace(term, repl) ==
  /\ May /\ edits' = edits + 1
  /\ rep' = {[term |-> term, repl |-> repl, row |-> 0, col |-> 0, all |-> FALSE,
               skipped |-> FALSE, made |-> {}]}
  /\ UNCHANGED <<lines, cursor, undo, redo, cutBuf, modified, files, quit, strayed>>

Found(r) == Find(lines, r.row, r.col, r.term)
AtCol(r, text, y, x) ==
  IF x > Len(text[y + 1]) THEN [r EXCEPT !.row = y + 1, !.col = 0]
  ELSE [r EXCEPT !.row = y, !.col = x]

AnyNoneLeft(r, next) ==
  /\ Found(r) = {} /\ rep' = next
  /\ UNCHANGED <<lines, cursor, undo, redo, modified, strayed>>
NoneLeftGoesRound(r) == AnyNoneLeft(r, {[r EXCEPT !.row = 0, !.col = 0]})
NoneLeft(r) == AnyNoneLeft(r, {})

Answered(r, at, next) ==
  /\ ~r.all /\ cy' = at[1] /\ cx' = at[2]
  /\ rep' = next
  /\ UNCHANGED <<lines, undo, redo, modified, strayed>>
Skip(r, at) == Answered(r, at, {[AtCol(r, lines, at[1], at[2] + 1) EXCEPT !.skipped = TRUE]})
Cancel(r, at) == Answered(r, at, {})

MadeWith(r, at) ==
  (IF at[1] = r.row THEN r.made ELSE {}) \cup {<<at[2], at[2] + Len(r.repl)>>}
AnySubstitute(r, at, all, col) ==
  LET row  == Row(at[1])
      text == [lines EXCEPT ![at[1] + 1] =
                 SubSeq(row, 1, at[2]) \o r.repl \o SubSeq(row, at[2] + Len(r.term) + 1, Len(row))]
  IN  /\ IF r.all THEN UNCHANGED cursor ELSE cy' = at[1] /\ cx' = at[2]
      /\ lines' = text /\ modified' = TRUE /\ redo' = <<>>
      /\ undo' = Append(Front(Snapped), [lines |-> lines, cy |-> cy', cx |-> cx'])
      /\ rep' = {[AtCol(r, text, at[1], col) EXCEPT !.all = all, !.made = MadeWith(r, at)]}
      /\ strayed' = (strayed \/ (at[1] = cy' /\ at[2] < cx'))
SubstituteSkipsOn(r, at, all) == AnySubstitute(r, at, all, at[2] + Len(r.repl) + 1)
Substitute(r, at, all) == AnySubstitute(r, at, all, at[2] + Len(r.repl))

ReplaceStep(r) ==
  /\ quit = "no"
  /\ \/ NoneLeft(r)
     \/ \E at \in Found(r) :
          Skip(r, at) \/ Cancel(r, at) \/ Substitute(r, at, r.all) \/ Substitute(r, at, TRUE)
  /\ UNCHANGED <<cutBuf, files, quit, edits>>

-----------------------------------------------------------------------------
(* Writing.  fs::write truncates first: it may refuse, or fail halfway.    *)
Holding(f, text) == [g \in DOMAIN disk \cup {f} |-> IF g = f THEN text ELSE disk[g]]

AnyWrite(f, cleared) ==
  \/ /\ disk' = Holding(f, AsLines(lines))
     /\ modified' = FALSE /\ failed' = FALSE
  \/ /\ \/ UNCHANGED disk
        \/ \E n \in 0 .. Len(lines) - 1 : disk' = Holding(f, SubSeq(lines, 1, n))
     /\ modified' = (modified /\ ~cleared) /\ failed' = (failed \/ ~modified)
WriteCleared(f) == AnyWrite(f, TRUE)
Write(f) == AnyWrite(f, FALSE)

WriteOut == \E f \in Files : filename' = f /\ Write(f)

Save ==
  /\ May /\ edits' = edits + 1
  /\ IF filename # NoName THEN Write(filename) /\ UNCHANGED filename ELSE WriteOut
  /\ UNCHANGED <<lines, cursor, undo, redo, cutBuf, rep, quit, strayed>>
SaveAs ==
  /\ May /\ edits' = edits + 1 /\ WriteOut
  /\ UNCHANGED <<lines, cursor, undo, redo, cutBuf, rep, quit, strayed>>

Exit ==
  /\ Idle
  /\ \/ ~modified /\ quit' = "kept" /\ UNCHANGED <<modified, files>>
     \/ modified /\ quit' = "discarded" /\ UNCHANGED <<modified, files>>
     \/ modified /\ WriteOut /\ quit' = IF modified' THEN "no" ELSE "kept"
  /\ UNCHANGED <<lines, cursor, undo, redo, cutBuf, rep, edits, strayed>>

(* A key that reads a row or a column that is not there.                   *)
Panic ==
  /\ Idle /\ ~InBuffer /\ quit' = "panic"
  /\ UNCHANGED <<lines, cursor, undo, redo, cutBuf, modified, files, rep, edits, strayed>>

-----------------------------------------------------------------------------
Move ==
  \/ Up \/ Down \/ PageUp \/ PageDown \/ Left \/ Right \/ Home \/ End
  \/ WordFwd \/ WordBack \/ FirstLine \/ LastLine
  \/ \E r \in 0 .. Len(lines) : GoToLine(r)
  \/ \E t \in Terms : Search(t)

Typing == InsertTab \/ \E c \in Chars : InsertChar(c)

Change ==
  \/ Newline \/ Backspace \/ Delete \/ Cut \/ Copy \/ Paste \/ RunCommand \/ Justify
  \/ \E f \in Files : InsertFile(f)

Key ==
  \/ Move \/ Typing \/ Change \/ Undo \/ Redo \/ Save \/ SaveAs \/ Exit \/ Panic
  \/ \E t \in Terms, w \in Repls : Replace(t, w)

Replacing == \E r \in rep : ReplaceStep(r)

Next == Key \/ Replacing

Spec == Init /\ [][Next]_vars

(* The loop runs as long as it need not ask.                               *)
FairSpec == Spec /\ WF_vars(Replacing /\ \A r \in rep : r.all \/ Found(r) = {})

-----------------------------------------------------------------------------
(* Every key leaves the cursor, a row and a column (main.rs:34-35), in the *)
(* buffer, save those that insert or leave no line, or replace to the left *)
(* of the cursor.                                                          *)
CursorKept == ~strayed => InBuffer

(* No text is lost by a key: whatever replaces the text, but for typing,   *)
(* keeps it among the snapshots, also when it comes after typing, which    *)
(* takes none.                                                             *)
TextRecoverable ==
  [][Typing \/ lines' = lines \/ \E s \in Range(undo') \cup Range(redo') : s.lines = lines]_vars

(* An exit that did not discard the buffer leaves it in its file: a write  *)
(* that failed does not count as one.  Only a buffer that was not modified *)
(* may be lost, when the write that nobody needed damages its file.        *)
QuitKeepsText == quit = "kept" /\ ~failed => AsLines(lines) = Content(filename)

(* Replace All ends, when the terms, of one and of two letters, are not in *)
(* what replaces them.                                                     *)
ReplaceAllEnds == (\E r \in rep : r.all) ~> rep = {}

(* And then no instance is left, unless one was skipped before, or it is   *)
(* in the row the loop has reached and came to be by a replacement, with   *)
(* whose text it overlaps.                                                 *)
Remade(r, y, c) == y = r.row /\ \E m \in r.made : c < m[2] /\ c + Len(r.term) > m[1]
ReplaceAllIsComplete ==
  [][\A r \in rep : r.all /\ ~r.skipped /\ rep' = {} =>
       \A y \in 0 .. Len(lines) - 1 : \A c \in Matches(lines, y, 0, r.term) :
         Remade(r, y, c)]_vars
=============================================================================
