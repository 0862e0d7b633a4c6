-------------------------------- MODULE Copy --------------------------------
(* cp -r: every file of every argument, in one call of the library when it *)
(* is small, and piece by piece, with a progress bar, when it is big.      *)
EXTENDS Disk

CpNext ==
  /\ AtUnit("cp")
  /\ \/ Found # <<>> /\ Begin("open") /\ Fine
     \/ NextUnit /\ Told
  /\ Given /\ Unwritten /\ NothingAsked

CpAsks == command.ask /\ ~command.force

(* The tests of copy_file, for each file.                                  *)
CpRefused ==
  /\ At("cp", "open") /\ Exists(This.dst) /\ (command.noClobber \/ CpAsks)
  /\ NextFile("open") /\ Fine /\ Refuse({This}) /\ Given /\ Unwritten

CpGoesOn ==
  /\ At("cp", "open") /\ (Exists(This.dst) => ~command.noClobber)
  /\ agreed' = IF Exists(This.dst) /\ CpAsks THEN agreed \cup {This.dst} ELSE agreed
  /\ UNCHANGED refused

(* The library refuses to copy a file onto itself.                         *)
CpSmall ==
  /\ CpGoesOn /\ ~command.big
  /\ \/ This.src # This.dst /\ WriteNow(This.dst, disk[This.src]) /\ NextFile("open") /\ Fine
     \/ NextUnit /\ Told
        /\ \/ Unwritten
           \/ This.src # This.dst /\ WriteNow(This.dst, Broken("raw", <<>>))
  /\ Given

(* The source is opened, then the target emptied, also when they are one.  *)
CpCreate ==
  /\ CpGoesOn /\ command.big
  /\ \/ WriteNow(This.dst, Broken("raw", <<>>)) /\ Goto("copy") /\ Fine
     \/ Unwritten /\ NextUnit /\ Told
  /\ Given

AnyCpCopy(afterError) ==
  /\ At("cp", "copy")
  /\ \/ WriteNow(This.dst, [disk[This.src] EXCEPT !.whole = TRUE]) /\ NextFile("open") /\ Fine
     \/ Unwritten /\ NextUnit /\ afterError
  /\ Given /\ NothingAsked
CpCopySilently == AnyCpCopy(Fine)
CpCopy == AnyCpCopy(Told)

CpStep == CpNext \/ CpRefused \/ CpSmall \/ CpCreate \/ CpCopy
=============================================================================
