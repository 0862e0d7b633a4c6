------------------------------- MODULE Capture ------------------------------
(***************************************************************************)
(* tcpdump: packets from a raw socket, or from a file it wrote before, are *)
(* parsed, filtered, printed with sequence numbers relative to the first   *)
(* one of their flow, and written to a buffered file.  A packet is as long *)
(* as its parts: one unit for each header and one for each unit of data.   *)
(***************************************************************************)
EXTENDS Integers, FiniteSets, Sequences, SequencesExt, FiniteSetsExt, Functions

CONSTANTS
  Traffic,      \* packets that may arrive
  Modulus,      \* sequence numbers wrap here (2^32 in the code)
  Skips,        \* Skips[l]: bytes before the packet in files of link type l
  MaxPackets    \* bound: packets that arrive

Packet ==
  [v4: BOOLEAN, proto: Nat, src: Nat, dst: Nat, sport: Nat, dport: Nat, flags: SUBSET STRING,
   seq: Nat, ack: Nat, data: Nat]
ASSUME TrafficAssumption ==
  Modulus \in Nat \ {0} /\ Traffic \subseteq Packet /\ Skips["raw"] = 0

VARIABLES
  options,      \* the tokens of the command line
  conf,         \* what they were parsed to
  capStep,      \* "parse", "adapter", "socket", "file", "top", "recv",
                \* "end", "read", "exit" or "off"
  adapters,     \* as the system lists them
  isn,          \* SeqTracker: flow -> the number it is relative to
  shown,        \* rows printed: packet, relative numbers, time since the row before
  prevTime,     \* time of the last row, or 0
  captured, received,
  buffered,     \* records that are in the writer's buffer
  pcap,         \* the file: its link type, its records, and whether anything is broken
  rest,         \* records of the file that are yet to be read
  capturing,    \* cleared by Ctrl-C
  clock,        \* packets that arrived, which is also the time
  damaged,      \* history: a write failed, or the program was killed
  live          \* history: the rows of the capture that wrote the file, with its command

capVars == <<options, conf, capStep, adapters, isn, shown, prevTime, captured, received,
             buffered, pcap, rest, capturing, clock, damaged, live>>

NoFlows == [x \in {} |-> 0]
NoPcap == [link |-> "none", records |-> <<>>, torn |-> FALSE]
NoFilter == [protocol |-> 0, host |-> 0, srcHost |-> 0, dstHost |-> 0,
             port |-> 0, srcPort |-> 0, dstPort |-> 0, negate |-> FALSE]
NoConf == [filter |-> NoFilter, list |-> FALSE, iface |-> [by |-> "default", val |-> 0],
           count |-> 0, write |-> FALSE, read |-> FALSE, absSeq |-> FALSE, quiet |-> FALSE,
           snaplen |-> 99]
NoLive == [rows |-> <<>>, conf |-> NoConf]

-----------------------------------------------------------------------------
(* The command line, token by token.  "and" and "or" say nothing, so that  *)
(* of two protocols only the last one counts; "not" negates the whole; and *)
(* a number that is none takes the option back (0).                        *)
Parse(c, t) ==
  CASE t.tok \in {"list", "write", "read", "absSeq", "quiet"} -> [c EXCEPT ![t.tok] = TRUE]
    [] t.tok \in {"iface", "count"} -> [c EXCEPT ![t.tok] = t.val]
    [] t.tok = "snaplen" -> [c EXCEPT !.snaplen = IF t.val = 0 THEN 99 ELSE t.val]
    [] t.tok = "not" -> [c EXCEPT !.filter.negate = ~@]
    [] t.tok \in DOMAIN NoFilter \ {"negate"} -> [c EXCEPT !.filter[t.tok] = t.val]
    [] OTHER -> c
ParseArgs(tokens) == FoldLeft(Parse, NoConf, tokens)

(* An option's number is a number.                                         *)
IsCommandLine(tokens) ==
  /\ tokens \in Seq(ToSet(tokens))
  /\ \A i \in DOMAIN tokens : tokens[i].tok \in {"count", "snaplen"} => tokens[i].val \in Nat

Is(want, have) == want \in {0, have}
Either(want, a, b) == want \in {0, a, b}
FilterMatches(f, p) ==
  (~f.negate) <=>
    /\ Is(f.protocol, p.proto) /\ Either(f.host, p.src, p.dst)
    /\ Is(f.srcHost, p.src) /\ Is(f.dstHost, p.dst)
    /\ Either(f.port, p.sport, p.dport) /\ Is(f.srcPort, p.sport) /\ Is(f.dstPort, p.dport)

(* parse_packet: nothing without an IPv4 header, and no ports, flags or    *)
(* numbers without a transport header.                                     *)
TCP == 6
Headers == 2
Wire(p) == Headers + p.data
Parses(p, n) == n >= 1 /\ p.v4
Parsed(p, n) ==
  IF n < Headers
  THEN [p EXCEPT !.sport = 0, !.dport = 0, !.flags = {}, !.seq = 0, !.ack = 0, !.data = 0]
  ELSE [p EXCEPT !.data = n - Headers]

(* list_adapters, select_adapter: the first that is not the loopback, or a *)
(* number, and a number is nothing else; an address; a part of the name.   *)
Usable == SelectSeq(adapters, LAMBDA a : a.ip # 0)
SelectAdapter(iface) ==
  CASE iface.by = "default" -> {i \in DOMAIN Usable : ~Usable[i].loopback}
    [] iface.by = "number" -> {i \in DOMAIN Usable : i - 1 = iface.val}
    [] iface.by = "text" -> {i \in DOMAIN Usable : iface.val \in Usable[i].called}

(* SeqTracker: the number of a SYN, or the first one seen of the flow.     *)
Fwd(p) == <<p.src, p.dst, p.sport, p.dport>>
Rev(p) == <<p.dst, p.src, p.dport, p.sport>>
Base(p) == IF "syn" \in p.flags \/ Fwd(p) \notin DOMAIN isn THEN p.seq ELSE isn[Fwd(p)]
Relative(n, base) == (n - base) % Modulus
PeerBase(p) ==
  IF Rev(p) = Fwd(p) THEN Base(p)
  ELSE IF Rev(p) \in DOMAIN isn THEN isn[Rev(p)] ELSE (p.ack - 1) % Modulus
RelativeAck(p) == IF "ack" \in p.flags THEN Relative(p.ack, PeerBase(p)) ELSE p.ack

PacketRow(p, at) ==
  [p |-> p, at |-> at, since |-> IF prevTime = 0 THEN 0 ELSE at - prevTime,
   seq |-> IF conf.absSeq THEN p.seq ELSE Relative(p.seq, Base(p)),
   ack |-> IF conf.absSeq THEN p.ack ELSE RelativeAck(p)]
Tracked(p) == p.proto = TCP /\ ~conf.quiet /\ ~conf.absSeq

PrintPacketBy(tracked, p, at) ==
  /\ shown' = Append(shown, PacketRow(p, at)) /\ prevTime' = at
  /\ isn' = IF Tracked(p) THEN tracked ELSE isn
PrintPacketFirstOnly(p, at) ==
  PrintPacketBy([f \in DOMAIN isn \cup {Fwd(p)} |-> IF f \in DOMAIN isn THEN isn[f] ELSE p.seq], p, at)
PrintPacket(p, at) ==
  PrintPacketBy([f \in DOMAIN isn \cup {Fwd(p)} |-> IF f = Fwd(p) THEN Base(p) ELSE isn[f]], p, at)

-----------------------------------------------------------------------------
Start ==
  /\ capStep = "parse"
  /\ conf' = ParseArgs(options)
  /\ capStep' = IF conf'.read THEN (IF pcap.link = "none" THEN "exit" ELSE "read") ELSE "adapter"
  /\ rest' = IF conf'.read THEN pcap.records ELSE <<>>
  /\ UNCHANGED <<options, adapters, isn, shown, prevTime, captured, received, buffered, pcap,
                 capturing, clock, damaged, live>>

PickAdapter ==
  /\ capStep = "adapter"
  /\ capStep' = IF conf.list \/ SelectAdapter(conf.iface) = {} THEN "exit" ELSE "socket"
  /\ UNCHANGED <<options, conf, adapters, isn, shown, prevTime, captured, received, buffered,
                 pcap, rest, capturing, clock, damaged, live>>

(* Without the right to it there is no socket; the file is created, and    *)
(* with it an older one is lost, only when there is one.                   *)
OpenCapture ==
  /\ capStep = "socket" /\ capStep' \in {"file", "exit"}
  /\ UNCHANGED <<options, conf, adapters, isn, shown, prevTime, captured, received, buffered,
                 pcap, rest, capturing, clock, damaged, live>>

CreateFile ==
  /\ capStep = "file"
  /\ \/ capStep' = "top" /\ pcap' = IF conf.write THEN [NoPcap EXCEPT !.link = "raw"] ELSE pcap
     \/ conf.write /\ capStep' = "exit" /\ UNCHANGED pcap
  /\ UNCHANGED <<options, conf, adapters, isn, shown, prevTime, captured, received, buffered,
                 rest, capturing, clock, damaged, live>>

CtrlC ==
  /\ capStep \in {"top", "recv"} /\ capturing /\ capturing' = FALSE
  /\ UNCHANGED <<options, conf, capStep, adapters, isn, shown, prevTime, captured, received,
                 buffered, pcap, rest, clock, damaged, live>>

(* What follows a broken record is not read as what it is.                 *)
FlushedWith(records) == IF pcap.torn THEN pcap ELSE [pcap EXCEPT !.records = records]
FlushedOver == FlushedWith(buffered)
Flushed == FlushedWith(pcap.records \o buffered)

Enough == conf.count # 0 /\ captured >= conf.count
Top ==
  /\ capStep = "top"
  /\ capStep' = IF capturing /\ ~Enough THEN "recv" ELSE "end"
  /\ UNCHANGED <<options, conf, adapters, isn, shown, prevTime, captured, received, buffered,
                 pcap, rest, capturing, clock, damaged, live>>

(* A time limit, or nothing at all, is no packet; any other error is the   *)
(* end of it.                                                              *)
NoPacket ==
  /\ capStep = "recv" /\ capStep' \in {"top", "end"}
  /\ UNCHANGED <<options, conf, adapters, isn, shown, prevTime, captured, received, buffered,
                 pcap, rest, capturing, clock, damaged, live>>

(* The file is closed: what is in its buffer goes to the disk, or is lost  *)
(* without a word.                                                         *)
CloseFile ==
  /\ capStep = "end" /\ capStep' = "exit"
  /\ buffered' = <<>> /\ live' = [rows |-> shown, conf |-> conf]
  /\ \/ pcap' = Flushed /\ UNCHANGED damaged
     \/ buffered # <<>> /\ damaged' = TRUE /\ UNCHANGED pcap
  /\ UNCHANGED <<options, conf, adapters, isn, shown, prevTime, captured, received, rest,
                 capturing, clock>>

(* write_packet: a record is cut to the snapshot length.  The buffer goes  *)
(* out when it is full, maybe in the middle of the new record; an error in *)
(* between leaves a broken one, and the packet counts all the same.        *)
Record(p, n, at) == [p |-> p, bytes |-> n, at |-> at]
WritePacket(p) ==
  LET r == Record(p, Min({Wire(p), conf.snaplen}), clock + 1)
  IN \/ buffered' = Append(buffered, r) /\ UNCHANGED <<pcap, damaged>>
     \/ /\ buffered' = <<r>>
        /\ pcap' = Flushed
        /\ UNCHANGED damaged
     \/ /\ buffered' = <<>> /\ damaged' = TRUE
        /\ pcap' = [Flushed EXCEPT !.torn = TRUE]

Receive ==
  /\ capStep = "recv" /\ clock < MaxPackets
  /\ clock' = clock + 1 /\ received' = received + 1 /\ capStep' = "top"
  /\ \E p \in Traffic :
       IF Parses(p, Wire(p)) /\ FilterMatches(conf.filter, p)
       THEN /\ PrintPacket(p, clock') /\ captured' = captured + 1
            /\ IF conf.write THEN WritePacket(p) ELSE UNCHANGED <<buffered, pcap, damaged>>
       ELSE UNCHANGED <<shown, prevTime, isn, captured, buffered, pcap, damaged>>
  /\ UNCHANGED <<options, conf, adapters, rest, capturing, live>>

(* The window is closed: what was in the buffer is gone, and the record    *)
(* that was on its way out may be there in part.                           *)
Killed ==
  /\ capStep \in {"top", "recv", "end"} /\ capStep' = "exit"
  /\ buffered' = <<>> /\ damaged' = TRUE
  /\ pcap' \in {pcap, [pcap EXCEPT !.torn = TRUE]}
  /\ live' = [rows |-> shown, conf |-> conf]
  /\ UNCHANGED <<options, conf, adapters, isn, shown, prevTime, captured, received, rest,
                 capturing, clock>>

(* read_pcap.  What is left of the record after the link header is parsed; *)
(* the packet after the last one that was asked for is counted as received.*)
ReadRecord ==
  /\ capStep = "read" /\ rest # <<>>
  /\ LET r == Head(rest)
         n == r.bytes - Skips[pcap.link]
         p == Parsed(r.p, n)
         wanted == n > 0 /\ Parses(r.p, n) /\ FilterMatches(conf.filter, p)
     IN /\ received' = received + 1
        /\ IF wanted /\ Enough
           THEN capStep' = "exit" /\ UNCHANGED <<rest, shown, prevTime, isn, captured>>
           ELSE /\ rest' = Tail(rest) /\ UNCHANGED capStep
                /\ IF wanted THEN PrintPacket(p, r.at) /\ captured' = captured + 1
                   ELSE UNCHANGED <<shown, prevTime, isn, captured>>
  /\ UNCHANGED <<options, conf, adapters, buffered, pcap, capturing, clock, damaged, live>>

(* The end of the file, or of what is whole in it.                         *)
ReadEnd ==
  /\ capStep = "read" /\ rest = <<>> /\ capStep' = "exit"
  /\ UNCHANGED <<options, conf, adapters, isn, shown, prevTime, captured, received, buffered,
                 pcap, rest, capturing, clock, damaged, live>>

(* The next run of the program, over the file the last one left.           *)
Rerun(next) ==
  /\ capStep = "exit" /\ live.conf.write
  /\ options' \in next /\ options' # options
  /\ capStep' = "parse" /\ isn' = NoFlows /\ shown' = <<>> /\ prevTime' = 0
  /\ captured' = 0 /\ received' = 0 /\ capturing' = TRUE
  /\ UNCHANGED <<conf, adapters, buffered, pcap, rest, clock, damaged, live>>

CapIdle ==
  /\ conf = NoConf /\ isn = NoFlows /\ shown = <<>> /\ prevTime = 0 /\ captured = 0
  /\ received = 0 /\ buffered = <<>> /\ pcap = NoPcap /\ rest = <<>> /\ capturing = TRUE
  /\ clock = 0 /\ damaged = FALSE /\ live = NoLive

CapNext(next) ==
  \/ Start \/ PickAdapter \/ OpenCapture \/ CreateFile \/ CtrlC \/ Top \/ NoPacket \/ Receive
  \/ CloseFile \/ Killed \/ ReadRecord \/ ReadEnd \/ Rerun(next)

-----------------------------------------------------------------------------
(* Of two rows of a flow, with no new connection of it in between, the     *)
(* numbers are as far apart as those of the packets are; and the answer to *)
(* a row names the number that row printed, whenever either end was first  *)
(* seen and however the numbers wrap.                                      *)
Restarted(i, j, f) == \E k \in i + 1 .. j : Fwd(shown[k].p) = f /\ "syn" \in shown[k].p.flags
Comparable(i) == shown[i].p.proto = TCP /\ ~conf.quiet
SequenceAgrees ==
  \A i, j \in DOMAIN shown : i < j /\ Comparable(i) /\ Comparable(j) =>
    LET a == shown[i]
        b == shown[j]
        f == Fwd(a.p)
    IN ~Restarted(i, j, f) =>
         /\ Fwd(b.p) = f => (b.seq - a.seq) % Modulus = (b.p.seq - a.p.seq) % Modulus
         /\ Rev(b.p) = f /\ "ack" \in b.p.flags =>
              (b.ack - a.seq) % Modulus = (b.p.ack - a.p.seq) % Modulus

(* What a capture printed is what reading its file with the same options   *)
(* prints, up to the count; without a filter the file is all of it.  Only  *)
(* a broken write, or the end of the program, loses packets, and then the  *)
(* last ones; and only packets that were cut to the snapshot length are    *)
(* printed otherwise.                                                      *)
SameRow(a, b) == a.p = b.p /\ a.at = b.at /\ a.seq = b.seq /\ a.ack = b.ack /\ a.since = b.since
ReadBackIsWhole ==
  capStep = "exit" /\ conf.read /\ live.conf.write =>
    LET same == live.conf.filter = conf.filter /\ live.conf.absSeq = conf.absSeq
                  /\ live.conf.quiet = conf.quiet
        uncut == \A i \in DOMAIN live.rows : Wire(live.rows[i].p) <= live.conf.snaplen
        all == IF conf.count = 0 THEN Len(live.rows) ELSE Min({conf.count, Len(live.rows)})
    IN same /\ uncut =>
         /\ Len(shown) <= all /\ (~damaged => Len(shown) = all)
         /\ \A i \in DOMAIN shown : SameRow(shown[i], live.rows[i])
=============================================================================
