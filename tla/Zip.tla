--------------------------------- MODULE Zip --------------------------------
(* zip writes an archive of its inputs, and with -m removes them; unzip    *)
(* writes the members of an archive.  Either ends at its first error.      *)
EXTENDS Disk

Quit == pc' = "exit" /\ UNCHANGED <<units, left>>

(* collect: inputs that are not there are named and left out.              *)
ZipCollect ==
  /\ AtUnit("zip")
  /\ Refuse({pair \in ToSet(Unit) : ~Exists(pair.src)})
  /\ IF Found = <<>> THEN Quit /\ Told ELSE Begin("create") /\ Fine
  /\ Given /\ Unwritten

(* The archive is made anew, also when one is to be updated.               *)
ZipCreate ==
  /\ At("zip", "create")
  /\ \/ WriteNow(This.dst, Broken("zip", <<>>)) /\ Goto("copy") /\ Fine
     \/ Unwritten /\ Quit /\ Told
  /\ Given /\ NothingAsked

(* A writer that is dropped after an error tries to end the archive.       *)
ZipAdd ==
  /\ At("zip", "copy")
  /\ \/ /\ Exists(This.src) /\ Fine
        /\ WriteNow(This.dst, Broken("zip", disk[This.dst].parts \o disk[This.src].parts))
        /\ IF Len(left) = 1 THEN Goto("close")
           ELSE left' = Tail(left) /\ UNCHANGED <<pc, units>>
     \/ \E ended \in BOOLEAN :
          WriteNow(This.dst, [disk[This.dst] EXCEPT !.whole = ended]) /\ Quit /\ Told
  /\ Given /\ NothingAsked

ZipClose ==
  /\ At("zip", "close")
  /\ \/ /\ DropBuffer(This.dst)
        /\ IF command.keep THEN Quit /\ status' \in {status, FALSE}
           ELSE pc' = "remove" /\ left' = Unit /\ UNCHANGED units /\ Fine
     \/ Unwritten /\ Quit /\ Told
  /\ Given /\ NothingAsked

(* Inputs that cannot be removed stay, and nobody is told.                 *)
ZipRemove ==
  /\ At("zip", "remove")
  /\ WriteNow(This.src, NoFile) \/ Unwritten
  /\ IF Len(left) = 1 THEN Quit /\ status' \in {status, FALSE}
     ELSE left' = Tail(left) /\ UNCHANGED <<pc, units>> /\ Fine
  /\ Given /\ NothingAsked

-----------------------------------------------------------------------------
(* unzip.  The files of the one unit are the members of the archive, in    *)
(* order.                                                                  *)

Archive == disk[This.src]
Member == Len(Unit) - Len(left) + 1

NextMember ==
  IF Len(left) = 1 THEN Quit ELSE pc' = "open" /\ left' = Tail(left) /\ UNCHANGED units

UnzOpen ==
  /\ AtUnit("unzip")
  /\ LET a == disk[Unit[1].src]
     IN  IF a.form = "zip" /\ a.whole
         THEN pc' = "open" /\ left' = Unit /\ UNCHANGED units /\ Fine
         ELSE Quit /\ Told
  /\ Given /\ NothingAsked /\ Unwritten

UnzSkip ==
  /\ At("unzip", "open")
  /\ Exists(This.dst) /\ command.noClobber
  /\ NextMember /\ Fine /\ Refuse({This}) /\ Given /\ Unwritten

UnzCreate ==
  /\ At("unzip", "open")
  /\ Exists(This.dst) => ~command.noClobber
  /\ \/ WriteNow(This.dst, Broken("raw", <<>>)) /\ Goto("copy") /\ Fine
     \/ Unwritten /\ Quit /\ Told
  /\ Given /\ NothingAsked

UnzCopy ==
  /\ At("unzip", "copy")
  /\ \/ /\ WriteNow(This.dst, Broken("raw", <<Archive.parts[Member]>>))
        /\ Goto("close") /\ Fine
     \/ Unwritten /\ Quit /\ Told
  /\ Given /\ NothingAsked

UnzClose ==
  /\ At("unzip", "close")
  /\ DropBuffer(This.dst) /\ NextMember
  /\ Fine /\ Given /\ NothingAsked

ZipStep ==
  \/ ZipCollect \/ ZipCreate \/ ZipAdd \/ ZipClose \/ ZipRemove
  \/ UnzOpen \/ UnzSkip \/ UnzCreate \/ UnzCopy \/ UnzClose
=============================================================================
