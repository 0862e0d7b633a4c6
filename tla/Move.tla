-------------------------------- MODULE Move --------------------------------
(* mv: a rename, or between drives a copy of everything and then a removal *)
(* of everything.                                                          *)
EXTENDS Disk

Sources == {Unit[i].src : i \in DOMAIN Unit}
Targets == {Unit[i].dst : i \in DOMAIN Unit}
IsDirectory == Len(Unit) > 1
Taken == \E p \in Targets : Exists(p)
CrossDevice == \E i \in DOMAIN Unit : Volume[Unit[i].src] # Volume[Unit[i].dst]

(* The tests of main and of move_path that end an argument early.          *)
MvAbsent ==
  /\ AtUnit("mv") /\ Found = <<>>
  /\ NextUnit /\ Told /\ NothingAsked /\ Given /\ Unwritten

Asks == command.ask /\ ~command.force

MvRefused ==
  /\ AtUnit("mv") /\ Found # <<>> /\ Taken
  /\ command.noClobber \/ Asks
  /\ NextUnit /\ Fine /\ Refuse(ToSet(Unit)) /\ Given /\ Unwritten

(* With a yes, if one was asked for.                                       *)
MvGoesOn ==
  /\ AtUnit("mv") /\ Found # <<>>
  /\ Taken => ~command.noClobber
  /\ agreed' = IF Taken /\ Asks THEN agreed \cup Targets ELSE agreed
  /\ UNCHANGED refused

AsRenamed == [p \in Path |->
  IF p \in Targets
  THEN disk[Unit[CHOOSE i \in DOMAIN Unit : Unit[i].dst = p].src]
  ELSE IF p \in Sources THEN NoFile ELSE disk[p]]

MvRename ==
  /\ MvGoesOn /\ ~CrossDevice
  /\ \/ ~(IsDirectory /\ Taken) /\ disk' = AsRenamed /\ UNCHANGED tailLost /\ Fine
     \/ Unwritten /\ Told
  /\ NextUnit /\ Given

MvAcross ==
  /\ MvGoesOn /\ CrossDevice
  /\ Begin("create")
  /\ Fine /\ Given /\ Unwritten

MvCreate ==
  /\ At("mv", "create")
  /\ \/ WriteNow(This.dst, Broken("raw", <<>>)) /\ Goto("copy") /\ Fine
     \/ Unwritten /\ NextUnit /\ Told
  /\ Given /\ NothingAsked

(* Only when the last file is there does the removal begin.                *)
AnyMvCopy(removesNow) ==
  /\ At("mv", "copy")
  /\ \/ /\ WriteNow(This.dst, disk[This.src]) /\ Fine /\ UNCHANGED units
        /\ IF Len(left) = 1 \/ removesNow THEN pc' = "remove" /\ left' = Unit
           ELSE pc' = "create" /\ left' = Tail(left)
     \/ Unwritten /\ NextUnit /\ Told
  /\ Given /\ NothingAsked
MvCopyFirstOnly == AnyMvCopy(TRUE)
MvCopy == AnyMvCopy(FALSE)

MvRemove ==
  /\ At("mv", "remove")
  /\ \/ WriteNow(This.src, NoFile) /\ NextFile("remove") /\ Fine
     \/ Unwritten /\ NextUnit /\ Told
  /\ Given /\ NothingAsked

MvStep == MvAbsent \/ MvRefused \/ MvRename \/ MvAcross \/ MvCreate \/ MvCopy \/ MvRemove
=============================================================================
