-------------------------------- MODULE Tail --------------------------------
(***************************************************************************)
(* tail: the last lines of a file, and then what is appended to it.  Bytes *)
(* of the file are numbered in the order in which they were ever written,  *)
(* so that two of them are never the same; Breaks are those that end a     *)
(* line.  Another program appends, and may empty the file and write anew.  *)
(***************************************************************************)
EXTENDS Integers, FiniteSets, Sequences, SequencesExt, FiniteSetsExt

CONSTANTS
  MaxBytes,   \* bound: bytes written in one behaviour
  MaxLooks,   \* bound: looks at the followed file
  LineCounts, \* the values of -n
  Threshold   \* a file of more bytes is searched from its end

VARIABLES
  tailFile,   \* bytes in the file
  ends,       \* Breaks: which bytes end a line
  written,    \* bytes written so far
  lines,      \* -n
  offset,     \* up to where it was read
  printed,    \* what was printed
  spot,       \* "last", "length", "sleep", "read" or "off"
  looks,
  skipped,    \* history: bytes there before it followed, and those stdout did not take
  age, seen   \* history: times the file was emptied, and how many of them were noticed

tailVars == <<tailFile, ends, written, lines, offset, printed, spot, looks, skipped, age, seen>>
writer == <<tailFile, ends, written, age>>

-----------------------------------------------------------------------------
(* lines(): a last line needs no end.                                      *)
LineStarts(s, brk) == {i \in DOMAIN s : i = 1 \/ s[i - 1] \in brk}

(* A small file: all but its last n lines are dropped.                     *)
LastOfSmall(s, brk, n) ==
  LET starts == LineStarts(s, brk)
      kept == {i \in starts : Cardinality({j \in starts : j >= i}) <= n}
  IN IF kept = {} THEN <<>> ELSE SubSeq(s, Min(kept), Len(s))

(* A large one: from behind the (n+1)th line end, seen from the end of the *)
(* file, whether or not the last line has one.                             *)
LastOfLarge(s, brk, n) ==
  LET stops == {i \in DOMAIN s : s[i] \in brk /\ Cardinality({j \in i .. Len(s) : s[j] \in brk}) > n}
  IN IF stops = {} THEN s ELSE SubSeq(s, Max(stops) + 1, Len(s))

LastLines(s, brk, n) ==
  IF n = 0 THEN <<>>
  ELSE IF Len(s) <= Threshold THEN LastOfSmall(s, brk, n) ELSE LastOfLarge(s, brk, n)

-----------------------------------------------------------------------------
WriteMore ==
  /\ spot # "off" /\ written < MaxBytes
  /\ written' = written + 1
  /\ tailFile' = Append(tailFile, written')
  /\ ends' \in {ends, ends \cup {written'}}
  /\ UNCHANGED <<lines, offset, printed, spot, looks, skipped, age, seen>>

Empty ==
  /\ spot # "off" /\ tailFile # <<>> /\ written < MaxBytes
  /\ tailFile' = <<>> /\ age' = age + 1
  /\ seen' = IF spot \in {"last", "length"} THEN age' ELSE seen
  /\ UNCHANGED <<ends, written, lines, offset, printed, spot, looks, skipped>>

PrintLast ==
  /\ spot = "last"
  /\ printed' = LastLines(tailFile, ends, lines)
  /\ spot' = "length"
  /\ UNCHANGED <<writer, lines, offset, looks, skipped, seen>>

(* The length is taken after the last lines were read: what came between   *)
(* is never printed.                                                       *)
TakeLength ==
  /\ spot = "length"
  /\ offset' = Len(tailFile) /\ skipped' = ToSet(tailFile) \ ToSet(printed)
  /\ spot' = "sleep"
  /\ UNCHANGED <<writer, lines, printed, looks, seen>>

(* A look at the length: a shorter file was emptied.  A file that cannot   *)
(* be looked at is looked at again.                                        *)
Look ==
  /\ spot = "sleep" /\ looks < MaxLooks
  /\ looks' = looks + 1
  /\ \/ UNCHANGED <<offset, seen, spot>>
     \/ LET reset == Len(tailFile) < offset
            from == IF reset THEN 0 ELSE offset
        IN /\ offset' = from
           /\ seen' = IF reset \/ from = 0 THEN age ELSE seen
           /\ spot' = IF Len(tailFile) = from THEN "sleep" ELSE "read"
  /\ UNCHANGED <<writer, lines, printed, skipped>>

(* It reads to the end there is now, not to the length it saw.  A write to *)
(* stdout that fails has taken some of it, and nothing comes of that.      *)
AnyFollow(advance(_)) ==
  /\ spot = "read" /\ spot' = "sleep"
  /\ LET new == SubSeq(tailFile, offset + 1, Len(tailFile))
     IN \/ \E n \in 0 .. Len(new) :
             /\ printed' = printed \o SubSeq(new, 1, n)
             /\ skipped' = skipped \cup {new[i] : i \in n + 1 .. Len(new)}
             /\ offset' = advance(Len(new))
        \/ UNCHANGED <<printed, skipped, offset>>
  /\ UNCHANGED <<writer, lines, looks, seen>>
FollowOne == AnyFollow(LAMBDA n : offset + (IF n = 0 THEN 0 ELSE 1))
Follow == AnyFollow(LAMBDA n : offset + n)

TailInit ==
  /\ ends \in SUBSET (1 .. 2) /\ tailFile \in {<<>>, <<1, 2>>} /\ written = 2
  /\ lines \in LineCounts
  /\ offset = 0 /\ printed = <<>> /\ spot = "last" /\ looks = 0
  /\ skipped = {} /\ age = 0 /\ seen = 0

TailNext == WriteMore \/ Empty \/ PrintLast \/ TakeLength \/ Look \/ Follow

-----------------------------------------------------------------------------
(* Between two looks, while no emptying of the file went unnoticed because *)
(* it had grown past the old offset again: everything up to the offset is  *)
(* printed, was there before it followed, or was lost by a write to stdout *)
(* that failed; nothing is printed twice or out of order, whatever was     *)
(* written between a look and the reading.                                 *)
FollowIsComplete ==
  spot = "sleep" =>
    /\ \A i, j \in DOMAIN printed : i < j => printed[i] < printed[j]
    /\ seen = age => \A i \in DOMAIN tailFile :
         i <= offset => tailFile[i] \in ToSet(printed) \cup skipped
=============================================================================
