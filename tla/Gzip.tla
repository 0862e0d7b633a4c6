-------------------------------- MODULE Gzip --------------------------------
(* gzip and bzip2, which differ in their library only: compress_file and   *)
(* decompress_file of each argument.  The copies that go to standard       *)
(* output, the tests and the lists change no file and are left out.        *)
EXTENDS Disk

(* A stream may have several members, one after the other: that is what    *)
(* two compressed files give that were put together.  The decoder of the   *)
(* library stops after the first.                                          *)
Decodes(f) == f.form = "gz" /\ f.whole /\ f.parts # <<>>
Decoded(f) == <<Head(f.parts)>>

GzTool == {"gzip", "gunzip"}
BzTool == {"bzip2", "bunzip2"}
Compresses(tool) == tool \in {"gzip", "bzip2"}
GzPair == Unit[1]

GzNext(tool) ==
  /\ AtUnit(tool)
  /\ \/ /\ Exists(GzPair.dst) /\ ~command.force
        /\ NextUnit /\ Fine /\ Refuse({GzPair})
     \/ /\ Exists(GzPair.dst) => command.force
        /\ \/ NextUnit /\ Told
           \/ Exists(GzPair.src) /\ pc' = "create" /\ left' = Unit /\ UNCHANGED units /\ Fine
        /\ NothingAsked
  /\ Given /\ Unwritten

GzCreate(tool) ==
  /\ At(tool, "create")
  /\ \/ WriteNow(This.dst, Broken("raw", <<>>)) /\ Goto("copy") /\ Fine
     \/ Unwritten /\ NextUnit /\ Told
  /\ Given /\ NothingAsked

(* What was written before an error stays; so does the source.             *)
GzCopy(tool) ==
  /\ At(tool, "copy")
  /\ \/ /\ Compresses(tool) \/ Decodes(disk[This.src])
        /\ WriteNow(This.dst, IF Compresses(tool) THEN Broken("gz", disk[This.src].parts)
                              ELSE Broken("raw", Decoded(disk[This.src])))
        /\ Goto("close") /\ Fine
     \/ Unwritten /\ NextUnit /\ Told
  /\ Given /\ NothingAsked

(* gzip asks for the size of the compressed file before the source goes.   *)
GzClose(tool) ==
  /\ At(tool, "close")
  /\ DropBuffer(This.dst)
  /\ \/ command.keep /\ NextUnit /\ Fine
     \/ ~command.keep /\ Goto("remove") /\ Fine
     \/ tool = "gzip" /\ NextUnit /\ Told
  /\ Given /\ NothingAsked

GzRemove(tool) ==
  /\ At(tool, "remove")
  /\ \/ WriteNow(This.src, NoFile) /\ Fine
     \/ Unwritten /\ Told
  /\ NextUnit /\ Given /\ NothingAsked

Compressor(tool) ==
  GzNext(tool) \/ GzCreate(tool) \/ GzCopy(tool) \/ GzClose(tool) \/ GzRemove(tool)

GzStep == \E tool \in GzTool : Compressor(tool)
BzStep == \E tool \in BzTool : Compressor(tool)
=============================================================================
