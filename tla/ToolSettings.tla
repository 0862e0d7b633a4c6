----------------------------- MODULE ToolSettings ---------------------------
(* What the command line tools are run with: handles and sockets that are  *)
(* open, packets that arrive, a directory to search, and command lines.    *)
EXTENDS Globs, TLC

-----------------------------------------------------------------------------
(* lsof.  The device of drive d begins with the name of that of c.         *)
Drives == [c |-> {"n1", "n2"}, d |-> {"n2"}]
OpenIn(pid, file, name) == [pid |-> pid, file |-> file, name |-> name]
HandleLists ==
  { <<OpenIn(1, TRUE, "n1"), OpenIn(2, TRUE, "n2"), OpenIn(1, TRUE, "n3")>>,
    <<OpenIn(1, TRUE, "n1"), OpenIn(2, FALSE, "n2"), OpenIn(2, TRUE, "n3")>> }

-----------------------------------------------------------------------------
(* Monitors.  A process that can be found by one text, and one by two.     *)
RowTexts == <<{<<"a">>}, {<<"b">>, <<"a", "b">>}>>

-----------------------------------------------------------------------------
(* ss and lsof -i.                                                         *)
Socket(proto, ip, state, local, remote, pid) ==
  [proto |-> proto, ip |-> ip, state |-> state, local |-> local, remote |-> remote, pid |-> pid]
Listener == Socket("tcp", 4, 2, 80, 0, 1)
Datagrams == Socket("udp", 4, 0, 81, 0, 2)
AllSockets ==
  {Listener, Datagrams, Socket("tcp", 4, 5, 80, 81, 2), Socket("tcp", 6, 1, 82, 0, 1),
   Socket("udp", 6, 0, 53, 0, 1)}

Query(tool, flags) ==
  [tool |-> tool, flags |-> flags, state |-> 0, port |-> 0, source |-> TRUE, colon |-> FALSE,
   named |-> FALSE, pids |-> {}]
SomeFlags ==
  {{}, {"l"}, {"t", "a"}, {"l", "a", "p"}, {"u", "4"}, {"6", "a"}, {"s"}, {"s", "t"}, {"p"}}
Queries ==
  {Query("ss", f) : f \in SomeFlags}
  \cup {[Query("ss", {"a"}) EXCEPT !.state = s, !.port = 80, !.source = c, !.colon = c] :
          s \in {0, 1, 5}, c \in BOOLEAN}
  \cup {[Query("ss", {"a"}) EXCEPT !.port = 80, !.source = FALSE, !.colon = TRUE],
        [Query("ss", {"4"}) EXCEPT !.state = 2]}
  \cup {[Query("lsof", {}) EXCEPT !.named = n, !.pids = p] : n \in BOOLEAN, p \in {{}, {1}}}

-----------------------------------------------------------------------------
(* tcpdump.  A connection between hosts 1 and 2, opened twice, and a packet*)
(* that is no TCP; captures, and what reads the file of a capture back.    *)
TCPPacket(from, to, flags, seq, ack, data) ==
  [v4 |-> TRUE, proto |-> 6, src |-> from, dst |-> to, sport |-> from, dport |-> to,
   flags |-> flags, seq |-> seq, ack |-> ack, data |-> data]
Packets ==
  { TCPPacket(1, 2, {"syn"}, 7, 0, 0), TCPPacket(2, 1, {"syn", "ack"}, 3, 0, 0),
    TCPPacket(1, 2, {"ack"}, 0, 4, 1), TCPPacket(2, 1, {"ack"}, 4, 1, 2),
    TCPPacket(1, 2, {"syn"}, 2, 0, 0), [TCPPacket(1, 2, {}, 0, 0, 1) EXCEPT !.proto = 17] }

Just(t) == [tok |-> t]
Valued(t, v) == [tok |-> t, val |-> v]
OnAdapter(by, v) == Valued("iface", [by |-> by, val |-> v])
Captures ==
  { <<Just("write")>>,
    <<Just("write"), Valued("count", 2), Just("not"), Valued("srcPort", 2)>>,
    <<Just("write"), Valued("snaplen", 1), Just("absSeq")>>,
    <<Just("write"), Valued("protocol", 17), Just("or"), Valued("protocol", 6),
      OnAdapter("text", "eth")>>,
    <<Just("quiet")>>,
    <<OnAdapter("number", 3)>>,
    <<Just("list")>> }
Readers == {Append(c, Just("read")) : c \in Captures} \cup {<<Just("read"), Valued("count", 1)>>}

Machine ==
  << [ip |-> 0, loopback |-> FALSE, called |-> {}],
     [ip |-> 127, loopback |-> TRUE, called |-> {"lo"}],
     [ip |-> 5, loopback |-> FALSE, called |-> {"eth"}] >>
LinkHeaders == [raw |-> 0, ethernet |-> 1]

-----------------------------------------------------------------------------
(* sfind and locate.  A directory r with a/b/a, a file with a bracket in   *)
(* its name and b below it.                                                *)
R == <<"r">>
A == <<"a">>
B == <<"b">>
AX == <<"a", "[">>
BelowR == {<<R>>, <<R, A>>, <<R, A, B>>, <<R, A, B, A>>, <<R, AX>>, <<R, B>>}
Ranked(paths) == [p \in BelowR |-> CHOOSE i \in DOMAIN paths : paths[i] = p]
NameOrder == Ranked(<<<<R, A>>, <<R, A, B, A>>, <<R, AX>>, <<R, A, B>>, <<R, B>>, <<R>>>>)
TextOrder == Ranked(<<<<R>>, <<R, A>>, <<R, AX>>, <<R, A, B>>, <<R, A, B, A>>, <<R, B>>>>)

Dir == [kind |-> "d", size |-> 0, age |-> 1]
Regular(size, days) == [kind |-> "f", size |-> size, age |-> days]
NewFiles == {Regular(1, 0)}
Missing == [kind |-> "none", size |-> 0, age |-> 0]
FewFiles ==
  (<<R>> :> Dir) @@ (<<R, A>> :> Dir) @@ (<<R, A, B>> :> Regular(2, 0))
    @@ (<<R, A, B, A>> :> Missing) @@ (<<R, AX>> :> Missing) @@ (<<R, B>> :> Regular(0, 2))
Lands == {FewFiles, [FewFiles EXCEPT ![<<R, AX>>] = Regular(1, 1), ![<<R, A, B>>] = Dir,
                             ![<<R, A, B, A>>] = Regular(0, 0)]}

Called(pat) == [tok |-> "name", pat |-> pat]
Along(pat) == [tok |-> "path", pat |-> pat]
Typed(k) == [tok |-> "type", kind |-> k]
BeginsWithA == <<In({"a"}), Star>>
Tests ==
  { <<Called(BeginsWithA)>>,
    <<Just("not"), Called(<<One>>)>>,
    <<Typed("f"), Just("or"), Called(<<In({"a", "b"})>>), [tok |-> "size", cmp |-> "+", n |-> 0]>>,
    <<Just("empty"), Just("or"), [tok |-> "mtime", cmp |-> "-", n |-> 1]>>,
    <<Along(<<Star, In({"a"}), Star, In({"b"})>>), Just("or"), [tok |-> "newer", than |-> <<R, AX>>]>>,
    <<Just("not"), Along(<<Star>>)>>,
    <<Called(<<Star>>), Just("not"), Typed("d")>>,
    <<Called(Exact(<<"q">>)), Just("or")>> }
Ways ==
  {<<>>, <<Just("delete")>>, <<[tok |-> "maxdepth", n |-> 1], [tok |-> "mindepth", n |-> 1]>>}

FindJob ==
  [tool |-> "sfind", mode |-> "walk", tokens |-> <<>>, roots |-> <<<<R>>>>, skip |-> {},
   pat |-> <<>>, basename |-> TRUE, existing |-> FALSE, limit |-> {}]
Walks == {[FindJob EXCEPT !.tokens = t \o way] : t \in Tests, way \in Ways}
Builds == {[FindJob EXCEPT !.tool = "locate", !.mode = "scan", !.skip = s] : s \in {{}, {A}}}
FirstJobs == Walks \cup Builds
Patterns == {Exact(AX), Exact(<<"[">>), Exact(A), BeginsWithA}
Searches ==
  {[FindJob EXCEPT !.tool = "locate", !.mode = "search", !.pat = p, !.basename = e,
                   !.existing = e, !.limit = n] :
     p \in Patterns, e \in BOOLEAN, n \in {{}, {0}, {1}}}
  \cup {[FindJob EXCEPT !.mode = "search", !.pat = p, !.tokens = t] :
          p \in Patterns, t \in {<<>>, <<Typed("f")>>, <<Just("not"), Just("not")>>}}
=============================================================================
