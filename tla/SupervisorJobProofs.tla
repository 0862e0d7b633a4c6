------------------------ MODULE SupervisorJobProofs ------------------------
(***************************************************************************)
(* What SupervisorJob guarantees for every number of clients, methods and  *)
(* tickets.  The inductive invariant IInv adds to the type of the state    *)
(* where a ticket may be: what the queues hold was sent at their priority, *)
(* and a normal control is in the task's hands only while no timer is set. *)
(*                                                                         *)
(* The last part is the refinement: the job task implements the contract   *)
(* of a Job.  What is answered is the oldest because the normal queue is   *)
(* ascending and what has left it is older than all that is in it (CInv).  *)
(***************************************************************************)
EXTENDS SupervisorRefinement, TicketFlag, FiniteSetTheorems, TLAPS

(* The controls a method sends are messages of its queue.                  *)
LEMMA SendsType ==
  ASSUME NEW m \in Method
  PROVE  Sends[m] \in Seq(Message) /\ Sends[m] # <<>>
<1>1. /\ GracefulOr("GracefulStop", "Stop") \in {"GracefulStop", "Stop"}
      /\ GracefulOr("TryGracefulRestart", "TryRestart") \in {"TryGracefulRestart", "TryRestart"}
  BY DEF GracefulOr
<1>2. \A c \in Control \ {"NextEnding", "ContinueTryGracefulRestart"} :
        Msg(c, "Normal") \in Message
  BY DEF Msg, Message
<1>3. Msg("NextEnding", "High") \in Message
  BY DEF Msg, Message
<1>4. Msg("Stop", "Urgent") \in Message /\ Msg("Delete", "Urgent") \in Message
  BY DEF Msg, Message
<1>5. /\ \A x \in Message : <<x>> \in Seq(Message) /\ <<x>> # <<>>
      /\ \A x, y \in Message : <<x, y>> \in Seq(Message) /\ <<x, y>> # <<>>
  OBVIOUS
<1>6. \/ \E x \in Message : Sends[m] = <<x>>
      \/ \E x, y \in Message : Sends[m] = <<x, y>>
  <2>1. CASE m \in {"start", "stop", "signal", "run"}
    BY <1>2, <2>1 DEF Sends, Control
  <2>2. CASE m \in {"stop_with_signal", "try_restart", "try_restart_with_signal"}
    BY <1>1, <1>2, <2>2 DEF Sends, Control
  <2>3. CASE m \in {"restart", "restart_with_signal", "delete"}
    BY <1>1, <1>2, <2>3 DEF Sends, Control
  <2>4. CASE m \in {"delete_now", "to_wait"}
    BY <1>3, <1>4, <2>4 DEF Sends
  <2>5. Method = {"start", "stop", "restart", "stop_with_signal", "restart_with_signal",
                  "try_restart", "try_restart_with_signal", "signal", "delete", "delete_now",
                  "to_wait", "run"}
    BY DEF Method, Sends
  <2> QED BY <2>1, <2>2, <2>3, <2>4, <2>5
<1> QED
  BY <1>5, <1>6

(* What a queue holds after a send and after a receive.                    *)
LEMMA RangeAppend ==
  ASSUME NEW S, NEW s \in Seq(S), NEW x \in S
  PROVE  Append(s, x) \in Seq(S) /\ Range(Append(s, x)) = Range(s) \cup {x}
<1> DEFINE r == Append(s, x)
<1>1. /\ r \in Seq(S) /\ Len(s) \in Nat /\ Len(r) = Len(s) + 1 /\ r[Len(s) + 1] = x
      /\ \A i \in 1 .. Len(s) : r[i] = s[i]
  OBVIOUS
<1>2. DOMAIN s = 1 .. Len(s) /\ DOMAIN r = 1 .. Len(s) + 1
  BY <1>1
<1>3. ASSUME NEW y \in Range(r) PROVE y \in Range(s) \cup {x}
  BY <1>1, <1>2, <1>3 DEF Range
<1>4. ASSUME NEW y \in Range(s) \cup {x} PROVE y \in Range(r)
  <2>1. CASE y = x
    BY <1>1, <1>2, <2>1 DEF Range
  <2>2. CASE y \in Range(s)
    BY <1>1, <1>2, <2>2 DEF Range
  <2> QED BY <1>4, <2>1, <2>2
<1> QED BY <1>1, <1>3, <1>4

LEMMA RangeTail ==
  ASSUME NEW S, NEW s \in Seq(S), s # <<>>
  PROVE  /\ Head(s) \in S /\ Tail(s) \in Seq(S)
         /\ Range(s) = {Head(s)} \cup Range(Tail(s))
<1>1. /\ Head(s) = s[1] /\ Head(s) \in S /\ Tail(s) \in Seq(S)
      /\ Len(s) >= 1 /\ Len(Tail(s)) = Len(s) - 1
      /\ \A i \in 1 .. Len(s) - 1 : Tail(s)[i] = s[i + 1]
  OBVIOUS
<1>2. \A i \in 1 .. Len(s) : i = 1 \/ (i - 1 \in 1 .. Len(Tail(s)) /\ s[i] = Tail(s)[i - 1])
  BY <1>1
<1>3. \A i \in 1 .. Len(Tail(s)) : i + 1 \in 1 .. Len(s) /\ Tail(s)[i] = s[i + 1]
  BY <1>1
<1>4. DOMAIN s = 1 .. Len(s) /\ DOMAIN Tail(s) = 1 .. Len(Tail(s)) /\ 1 \in DOMAIN s
  BY <1>1
<1>5. ASSUME NEW y \in Range(s) PROVE y \in {Head(s)} \cup Range(Tail(s))
  <2>1. PICK i \in 1 .. Len(s) : s[i] = y
    BY <1>4, <1>5 DEF Range
  <2>2. CASE i = 1
    BY <1>1, <2>1, <2>2
  <2>3. CASE i # 1
    BY <1>2, <1>4, <2>1, <2>3 DEF Range
  <2> QED BY <2>2, <2>3
<1>6. ASSUME NEW y \in {Head(s)} \cup Range(Tail(s)) PROVE y \in Range(s)
  BY <1>1, <1>3, <1>4, <1>6 DEF Range
<1> QED BY <1>1, <1>5, <1>6

LEMMA BusyIsFinite == Cardinality(Busy) \in Nat
BY ConstantsAssumption, FS_Subset, FS_CardinalityType DEF Busy

-----------------------------------------------------------------------------
(* Where a ticket may be.                                                  *)
WellFormed ==
  /\ pc = "handle" => msg.done \in 1 .. Len(sent)
  /\ timer.kind # "none" => timer.done \in 1 .. Len(sent)
  /\ \A p \in Priority : \A t \in Range(queue[p]) : t \in 1 .. Len(sent) /\ sent[t].prio = p
  /\ pc = "respawn" => cmd = "Finished" /\ onEndRestart \in Tickets
  /\ pc = "handle" /\ timer.kind # "none" =>
       sent[msg.done].prio # "Normal" /\ msg.control = sent[msg.done].control
  /\ pc = "dead" => gone

IInv == TypeOK /\ WellFormed /\ NoLostTicket /\ NoOverlap

LEMMA InitIInv == Init => IInv
<1> SUFFICES ASSUME Init PROVE IInv
  OBVIOUS
<1>1. \A p \in Priority : queue[p] = <<>> /\ Range(queue[p]) = {}
  BY DEF Init, Range
<1>2. /\ todo \in [Clients -> Seq(Message)] /\ queue \in [Priority -> Seq(Tickets)]
      /\ sent \in Seq(Message) /\ Len(sent) <= MaxTickets /\ onEndRestart \in 0 .. MaxTickets
  BY ConstantsAssumption DEF Init
<1>3. /\ msg \in [control: Control \cup {"None"}, done: Nat]
      /\ timer \in [kind: {"none", "stop", "restart"}, done: Nat, past: BOOLEAN]
  BY DEF Init, NoMsg, NoTimer
<1>4. TypeOK
  BY <1>2, <1>3 DEF Init, TypeOK
<1> QED BY <1>1, <1>4 DEF Init, IInv, WellFormed, NoLostTicket, NoOverlap, NoTimer

(* What a send does to the queues: the new ticket joins one of them, or    *)
(* the job is gone.                                                        *)
LEMMA EnqueueStep ==
  ASSUME IInv, NEW m \in Message, Enqueue(m), Len(sent) < MaxTickets
  PROVE  /\ sent' \in Seq(Message) /\ Len(sent') = Len(sent) + 1 /\ sent'[Len(sent) + 1] = m
         /\ \A t \in 1 .. Len(sent) : sent'[t] = sent[t]
         /\ queue' \in [Priority -> Seq(Tickets)]
         /\ \A p \in Priority : Range(queue'[p]) =
               Range(queue[p]) \cup (IF p = m.prio /\ pc # "dead" THEN {Len(sent) + 1} ELSE {})
<1>1. sent \in Seq(Message) /\ queue \in [Priority -> Seq(Tickets)] /\ m.prio \in Priority
  BY DEF IInv, TypeOK, Message, Priority
<1>2. Len(sent) + 1 \in Tickets
  BY <1>1, ConstantsAssumption DEF Tickets
<1>3. /\ sent' \in Seq(Message) /\ Len(sent') = Len(sent) + 1 /\ sent'[Len(sent) + 1] = m
      /\ \A t \in 1 .. Len(sent) : sent'[t] = sent[t]
  BY <1>1 DEF Enqueue
<1>4. CASE pc = "dead"
  BY <1>1, <1>3, <1>4 DEF Enqueue
<1>5. CASE pc # "dead"
  <2>1. queue' = [queue EXCEPT ![m.prio] = Append(queue[m.prio], Len(sent) + 1)]
    BY <1>5 DEF Enqueue
  <2>2. /\ Append(queue[m.prio], Len(sent) + 1) \in Seq(Tickets)
        /\ Range(Append(queue[m.prio], Len(sent) + 1)) = Range(queue[m.prio]) \cup {Len(sent) + 1}
    BY <1>1, <1>2, RangeAppend
  <2> QED BY <1>1, <1>3, <1>5, <2>1, <2>2
<1> QED BY <1>4, <1>5

LEMMA ClientStep ==
  ASSUME IInv, NEW c \in Clients,
         (\E m \in Methods : Call(c, m)) \/ SendRest(c) \/ Drop(c)
  PROVE  IInv'
<1> USE DEF IInv
<1>1. Len(sent) \in Nat /\ MaxTickets \in Nat /\ Tickets = 1 .. MaxTickets
  BY ConstantsAssumption DEF TypeOK, Tickets
<1>2. ASSUME NEW m \in Message, Enqueue(m), Len(sent) < MaxTickets,
             todo' \in [Clients -> Seq(Message)],
             UNCHANGED <<handles, pc, msg, timer, procVars, flagVars, gone, running, target>>
      PROVE  IInv'
  <2>1. /\ sent' \in Seq(Message) /\ Len(sent') = Len(sent) + 1 /\ sent'[Len(sent) + 1] = m
        /\ \A t \in 1 .. Len(sent) : sent'[t] = sent[t]
        /\ queue' \in [Priority -> Seq(Tickets)]
        /\ \A p \in Priority : Range(queue'[p]) =
              Range(queue[p]) \cup (IF p = m.prio /\ pc # "dead" THEN {Len(sent) + 1} ELSE {})
    BY <1>2, EnqueueStep
  <2>2. TypeOK'
    <3>1. UNCHANGED <<handles, pc, msg, timer, cmd, spawned, alive, startedFor, onEnd,
                      onEndRestart, raised, erred, gone, running, target>>
      BY <1>2 DEF procVars, flagVars
    <3>2. Len(sent') \in 0 .. MaxTickets
      BY <1>1, <1>2, <2>1
    <3> QED BY <1>2, <2>1, <3>1, <3>2 DEF TypeOK
  <2>3. WellFormed'
    <3>1. ASSUME NEW p \in Priority, NEW t \in Range(queue'[p])
          PROVE  t \in 1 .. Len(sent') /\ sent'[t].prio = p
      <4>1. CASE t \in Range(queue[p])
        <5>1. t \in 1 .. Len(sent) /\ sent[t].prio = p
          BY <4>1 DEF WellFormed
        <5> QED BY <1>1, <2>1, <5>1
      <4>2. CASE t = Len(sent) + 1 /\ p = m.prio
        BY <1>1, <2>1, <4>2
      <4> QED BY <2>1, <3>1, <4>1, <4>2
    <3>2. /\ pc = "handle" => msg.done \in 1 .. Len(sent') /\ sent'[msg.done] = sent[msg.done]
          /\ timer.kind # "none" => timer.done \in 1 .. Len(sent')
      BY <1>1, <2>1 DEF WellFormed
    <3> QED BY <1>2, <3>1, <3>2 DEF WellFormed, procVars, flagVars
  <2>4. NoLostTicket'
    <3> SUFFICES ASSUME NEW t \in 1 .. Len(sent')
                 PROVE  t \in raised' \/ gone' \/ Held(t)'
      BY DEF NoLostTicket
    <3>1. CASE t = Len(sent) + 1
      BY <1>2, <2>1, <3>1 DEF WellFormed, Held, Message, Priority
    <3>2. CASE t \in 1 .. Len(sent)
      BY <1>2, <2>1, <3>2 DEF NoLostTicket, Held, flagVars
    <3> QED BY <1>1, <2>1, <3>1, <3>2
  <2>5. NoOverlap'
    BY <1>2 DEF NoOverlap, procVars
  <2> QED BY <2>2, <2>3, <2>4, <2>5
<1>3. CASE \E m \in Methods : Call(c, m)
  <2>1. PICK m \in Methods : Call(c, m)
    BY <1>3
  <2>2. /\ Sends[m] \in Seq(Message) /\ Sends[m] # <<>> /\ Len(Sends[m]) \in Nat \ {0}
        /\ Head(Sends[m]) \in Message /\ Tail(Sends[m]) \in Seq(Message)
    BY SendsType, ConstantsAssumption
  <2>3. Len(sent) < MaxTickets
    BY <1>1, <2>1, <2>2, BusyIsFinite DEF Call
  <2>4. todo' \in [Clients -> Seq(Message)]
    BY <2>1, <2>2 DEF Call, TypeOK
  <2> QED BY <1>2, <2>1, <2>2, <2>3, <2>4 DEF Call
<1>4. CASE SendRest(c)
  <2>1. Head(todo[c]) \in Message /\ Tail(todo[c]) \in Seq(Message)
    BY <1>4 DEF SendRest, TypeOK
  <2>2. todo' \in [Clients -> Seq(Message)]
    BY <1>4, <2>1 DEF SendRest, TypeOK
  <2> QED BY <1>2, <1>4, <2>1, <2>2 DEF SendRest
<1>5. CASE Drop(c)
  <2>1. /\ handles' \subseteq handles
        /\ UNCHANGED <<todo, sent, queue, pc, msg, timer, procVars, flagVars, gone, running, target>>
    BY <1>5 DEF Drop
  <2>2. TypeOK'
    BY <2>1 DEF TypeOK, procVars, flagVars
  <2>3. WellFormed' /\ NoLostTicket' /\ NoOverlap'
    BY <2>1 DEF WellFormed, NoLostTicket, Held, NoOverlap, procVars, flagVars
  <2> QED BY <2>2, <2>3
<1> QED BY <1>3, <1>4, <1>5

LEMMA EnvironmentStep ==
  ASSUME IInv, TimerElapses \/ \E p \in 1 .. spawned : ProcessExits(p)
  PROVE  IInv'
<1> USE DEF IInv
<1>1. CASE TimerElapses
  <2>1. /\ timer' = [timer EXCEPT !.past = TRUE]
        /\ UNCHANGED <<clientVars, queue, pc, msg, procVars, flagVars, gone, running, target>>
    BY <1>1 DEF TimerElapses
  <2>2. timer'.kind = timer.kind /\ timer'.done = timer.done
        /\ timer' \in [kind: {"none", "stop", "restart"}, done: Nat, past: BOOLEAN]
    BY <2>1 DEF TypeOK
  <2>3. TypeOK'
    BY <2>1, <2>2 DEF TypeOK, clientVars, procVars, flagVars
  <2>4. WellFormed' /\ NoLostTicket' /\ NoOverlap'
    BY <2>1, <2>2 DEF WellFormed, NoLostTicket, Held, NoOverlap, clientVars, procVars, flagVars
  <2> QED BY <2>3, <2>4
<1>2. CASE \E p \in 1 .. spawned : ProcessExits(p)
  <2>1. PICK p \in 1 .. spawned : ProcessExits(p)
    BY <1>2
  <2>2. TypeOK' /\ NoOverlap'
    BY <2>1 DEF ProcessExits, TypeOK, NoOverlap, clientVars, flagVars
  <2>3. WellFormed' /\ NoLostTicket'
    BY <2>1 DEF ProcessExits, WellFormed, NoLostTicket, Held, clientVars, flagVars
  <2> QED BY <2>2, <2>3
<1> QED BY <1>1, <1>2

(* The receive half of the loop: a ticket moves from a queue or from the   *)
(* timer into the task's hands.                                            *)
LEMMA ReceiveStep ==
  ASSUME IInv, LoopTop \/ TimerFires \/ Await \/ QueueClosed \/ \E p \in Priority : Receive(p)
  PROVE  IInv'
<1> USE DEF IInv
<1>1. CASE LoopTop \/ Await \/ QueueClosed
  <2>1. /\ pc \in {"top", "poll", "select"} /\ pc' \in {"poll", "select", "waitonly", "exit"}
        /\ UNCHANGED <<clientVars, queue, msg, timer, procVars, flagVars, gone, target>>
        /\ running' = running \/ running' = (cmd = "Running")
    BY <1>1 DEF LoopTop, Await, QueueClosed
  <2>2. TypeOK'
    <3>1. /\ pc' \in {"top", "poll", "select", "waitonly", "handle", "respawn", "exit", "dead"}
          /\ running' \in BOOLEAN
      BY <2>1 DEF TypeOK
    <3> QED BY <2>1, <3>1 DEF TypeOK, clientVars, procVars, flagVars
  <2>3. WellFormed'
    BY <2>1 DEF WellFormed, clientVars, procVars, flagVars
  <2>4. NoLostTicket' /\ NoOverlap'
    BY <2>1 DEF NoLostTicket, Held, NoOverlap, clientVars, procVars, flagVars
  <2> QED BY <2>2, <2>3, <2>4
<1>2. CASE TimerFires
  <2>2. TypeOK'
    BY <1>2 DEF TimerFires, TimerPast, NoTimer, TypeOK, Control, clientVars, procVars, flagVars
  <2>3. WellFormed'
    BY <1>2 DEF TimerFires, TimerPast, NoTimer, WellFormed, clientVars, procVars, flagVars
  <2>4. NoLostTicket' /\ NoOverlap'
    BY <1>2 DEF TimerFires, TimerPast, NoTimer, NoLostTicket, Held, NoOverlap, clientVars,
                procVars, flagVars
  <2> QED BY <2>2, <2>3, <2>4
<1>3. CASE \E p \in Priority : Receive(p)
  <2>1. PICK q \in Priority : Receive(q)
    BY <1>3
  <2> DEFINE t == Head(queue[q])
  <2>2. /\ t \in Tickets /\ Tail(queue[q]) \in Seq(Tickets)
        /\ Range(queue[q]) = {t} \cup Range(Tail(queue[q]))
    BY <2>1, RangeTail DEF Receive, TypeOK
  <2>3. /\ queue' \in [Priority -> Seq(Tickets)]
        /\ \A p \in Priority : p # q => queue'[p] = queue[p]
        /\ queue'[q] = Tail(queue[q])
    BY <2>1, <2>2 DEF Receive, TypeOK
  <2>4. /\ \A p \in Priority : Range(queue'[p]) \subseteq Range(queue[p])
        /\ \A p \in Priority : Range(queue[p]) \subseteq Range(queue'[p]) \cup {t}
    BY <2>2, <2>3
  <2>5. t \in 1 .. Len(sent) /\ sent[t].prio = q /\ sent[t] \in Message
    BY <2>2 DEF WellFormed, TypeOK
  <2>6. sent[t].control \in Control
    BY <2>5 DEF Message, Control
  <2>7. /\ msg' = [control |-> sent[t].control, done |-> t] /\ pc' = "handle"
        /\ target' = [target EXCEPT ![t] = IF cmd = "Running" THEN spawned ELSE 0]
        /\ UNCHANGED <<clientVars, timer, procVars, flagVars, gone, running>>
    BY <2>1 DEF Receive
  <2>8. pc \in {"poll", "select"} /\ (timer.kind # "none" => q # "Normal")
    BY <2>1 DEF Receive, Receivable, FirstLook
  <2>9. TypeOK'
    <3>1. msg' \in [control: Control \cup {"None"}, done: Nat]
      BY <2>2, <2>6, <2>7, ConstantsAssumption DEF Tickets
    <3>2. target' \in [Tickets -> Nat]
      BY <2>2, <2>7 DEF TypeOK
    <3> QED BY <2>3, <2>7, <3>1, <3>2 DEF TypeOK, clientVars, procVars, flagVars
  <2>10. WellFormed'
    <3>1. \A p \in Priority : \A u \in Range(queue'[p]) :
             u \in 1 .. Len(sent) /\ sent[u].prio = p
      BY <2>4 DEF WellFormed
    <3> HIDE DEF t
    <3> QED BY <2>5, <2>7, <2>8, <3>1 DEF WellFormed, clientVars, procVars, flagVars
  <2>11. NoLostTicket'
    <3> HIDE DEF t
    <3> QED BY <2>4, <2>7, <2>8 DEF NoLostTicket, Held, clientVars, flagVars
  <2>12. NoOverlap'
    BY <2>7 DEF NoOverlap, procVars
  <2> QED BY <2>9, <2>10, <2>11, <2>12
<1> QED BY <1>1, <1>2, <1>3

(* A step of the task that hands no ticket out keeps the invariant when    *)
(* every ticket it held is answered or handed on.                          *)
LEMMA TaskStep ==
  ASSUME IInv,
         UNCHANGED <<clientVars, queue, gone, running, target>>,
         pc' \in {"top", "respawn", "exit"}, msg' \in {msg, NoMsg},
         timer' \in {timer, NoTimer} \/ (timer'.done = msg.done /\ pc = "handle"),
         timer' \in [kind: {"none", "stop", "restart"}, done: Nat, past: BOOLEAN],
         raised' \subseteq Tickets, erred' \subseteq Tickets, onEnd' \subseteq Tickets,
         onEndRestart' \in 0 .. MaxTickets, startedFor' \in [Tickets -> Nat],
         pc' = "respawn" => cmd' = "Finished" /\ onEndRestart' \in Tickets,
         cmd' \in {"Pending", "Running", "Finished"}, spawned' \in Nat,
         alive' \subseteq IF cmd' = "Running" THEN {spawned'} ELSE {},
         alive' \subseteq 1 .. spawned',
         raised \subseteq raised', onEnd \subseteq onEnd' \cup raised',
         pc = "handle" => msg.done \in raised' \cup onEnd' \/
                          (timer'.kind # "none" /\ timer'.done = msg.done),
         timer.kind # "none" => timer.done \in raised' \/ timer' = timer
  PROVE  IInv'
<1>1. TypeOK'
  BY DEF IInv, TypeOK, NoMsg, clientVars
<1>2. WellFormed'
  BY DEF IInv, WellFormed, NoMsg, NoTimer, clientVars
<1>3. NoLostTicket'
  BY DEF IInv, NoLostTicket, Held, clientVars
<1>4. NoOverlap'
  BY DEF NoOverlap
<1> QED BY <1>1, <1>2, <1>3, <1>4 DEF IInv

(* Spawning never makes two processes when it starts from none.            *)
LEMMA SpawnStep ==
  ASSUME TypeOK, NEW t \in Tickets, Spawn({}, t)
  PROVE  /\ cmd' \in {"Pending", "Running"} /\ spawned' \in Nat
         /\ alive' \subseteq IF cmd' = "Running" THEN {spawned'} ELSE {}
         /\ alive' \subseteq 1 .. spawned'
         /\ erred' \subseteq Tickets /\ startedFor' \in [Tickets -> Nat]
<1>1. CASE cmd' = "Running"
  <2>1. /\ spawned' = spawned + 1 /\ alive' = {spawned + 1} /\ erred' = erred
        /\ startedFor' = [startedFor EXCEPT ![t] = @ + 1]
    BY <1>1 DEF Spawn
  <2>2. spawned \in Nat /\ startedFor \in [Tickets -> Nat] /\ erred \subseteq Tickets
    BY DEF TypeOK
  <2> QED BY <1>1, <2>1, <2>2
<1>2. CASE cmd' # "Running"
  BY <1>2 DEF Spawn, TypeOK
<1> QED BY <1>1, <1>2

LEMMA KillFailsStep ==
  ASSUME IInv, pc = "handle", KillFails
  PROVE  /\ UNCHANGED <<cmd, spawned, startedFor, onEnd>> /\ raised' = raised \cup {msg.done}
         /\ alive' \subseteq alive /\ erred' \subseteq Tickets
<1>1. msg.done \in Tickets
  BY ConstantsAssumption DEF IInv, TypeOK, WellFormed, Tickets
<1> QED BY <1>1 DEF KillFails, Failed, Reply, IInv, TypeOK

LEMMA HandleStep ==
  ASSUME IInv, Handle
  PROVE  IInv'
<1> DEFINE NoChange == UNCHANGED <<clientVars, queue, gone, running, target>>
<1>1. pc = "handle" /\ msg.done \in Tickets /\ msg.done \in 1 .. Len(sent)
  BY ConstantsAssumption DEF IInv, TypeOK, WellFormed, Tickets, Handle, Handling, AnyStart, Start,
     Stop, AnyGracefulStop, GracefulStop, TryRestart, TryGracefulRestart,
     ContinueTryGracefulRestart, Signal, NextEnding, Func, Delete
<1>2. /\ TypeOK /\ raised \subseteq Tickets /\ erred \subseteq Tickets /\ onEnd \subseteq Tickets
      /\ onEndRestart \in 0 .. MaxTickets /\ spawned \in Nat /\ alive \subseteq 1 .. spawned
      /\ startedFor \in [Tickets -> Nat] /\ cmd \in {"Pending", "Running", "Finished"}
      /\ timer \in [kind: {"none", "stop", "restart"}, done: Nat, past: BOOLEAN]
      /\ alive \subseteq IF cmd = "Running" THEN {spawned} ELSE {}
      /\ raised \cup {msg.done} \subseteq Tickets /\ erred \cup {msg.done} \subseteq Tickets
      /\ onEnd \cup {msg.done} \subseteq Tickets
      /\ raised \cup {msg.done} \cup onEnd \subseteq Tickets
      /\ alive \ {spawned} = {} /\ (cmd # "Running" => alive = {})
  BY <1>1 DEF IInv, TypeOK, NoOverlap
<1>3. CASE Start
  <2>1. UNCHANGED <<procVars, erred>> \/ (cmd # "Running" /\ Spawn(alive, msg.done))
    BY <1>3 DEF Start, AnyStart
  <2>2. /\ NoChange /\ pc' = "top" /\ msg' = NoMsg /\ raised' = raised \cup {msg.done}
        /\ UNCHANGED <<timer, onEnd, onEndRestart>>
    BY <1>3 DEF Start, AnyStart, Handled, Reply
  <2>3. CASE UNCHANGED <<procVars, erred>>
    BY <1>1, <1>2, <2>2, <2>3, TaskStep DEF procVars
  <2>4. CASE cmd # "Running" /\ Spawn(alive, msg.done)
    <3>1. Spawn({}, msg.done)
      BY <1>2, <2>4
    <3> QED BY <1>1, <1>2, <2>2, <3>1, SpawnStep, TaskStep
  <2> QED BY <2>1, <2>3, <2>4
<1>4. ASSUME KillFails, NoChange, pc' = "top", msg' = NoMsg, UNCHANGED <<timer, onEndRestart>>
      PROVE  IInv'
  <2>1. /\ UNCHANGED <<cmd, spawned, startedFor, onEnd>> /\ raised' = raised \cup {msg.done}
        /\ alive' \subseteq alive /\ erred' \subseteq Tickets
    BY <1>1, <1>4, KillFailsStep
  <2>2. /\ alive' \subseteq IF cmd' = "Running" THEN {spawned'} ELSE {}
        /\ alive' \subseteq 1 .. spawned'
    BY <1>2, <2>1
  <2> QED BY <1>1, <1>2, <1>4, <2>1, <2>2, TaskStep
<1>5. CASE Stop
  <2>1. NoChange /\ pc' = "top" /\ msg' = NoMsg /\ UNCHANGED <<timer, onEndRestart>>
    BY <1>5 DEF Stop, Handled
  <2>2. CASE cmd # "Running" /\ Reply({}) /\ UNCHANGED <<procVars, onEnd, erred>>
    BY <1>1, <1>2, <2>1, <2>2, TaskStep DEF procVars, Reply
  <2>3. CASE /\ cmd' = "Finished" /\ alive' = alive \ {spawned}
             /\ Reply(onEnd) /\ onEnd' = {}
             /\ UNCHANGED <<spawned, startedFor, erred>>
    BY <1>1, <1>2, <2>1, <2>3, TaskStep DEF Reply
  <2>4. CASE KillFails
    BY <1>4, <2>1, <2>4
  <2> QED BY <1>5, <2>2, <2>3, <2>4 DEF Stop
<1>6. ASSUME NEW kind \in {"stop", "restart"}, ArmTimer(kind), NoChange, pc' = "top", msg' = NoMsg,
             msg.control \in {"GracefulStop", "TryGracefulRestart"},
             onEndRestart' \in {onEndRestart, msg.done},
             UNCHANGED <<procVars, onEnd, raised, erred>>
      PROVE  IInv'
  <2>1. timer.kind = "none"
    <3>1. sent[msg.done] \in Message
      BY <1>1 DEF IInv, TypeOK
    <3>2. ~(sent[msg.done].prio # "Normal" /\ msg.control = sent[msg.done].control)
      BY <1>6, <3>1 DEF Message
    <3> QED BY <1>1, <3>2 DEF IInv, WellFormed
  <2>2. /\ timer' \in [kind: {"none", "stop", "restart"}, done: Nat, past: BOOLEAN]
        /\ timer'.kind # "none" /\ timer'.done = msg.done
    BY <1>1, <1>6, ConstantsAssumption DEF ArmTimer, Tickets
  <2>3. onEndRestart' \in 0 .. MaxTickets
    BY <1>1, <1>2, <1>6, ConstantsAssumption DEF Tickets
  <2> QED BY <1>1, <1>2, <1>6, <2>1, <2>2, <2>3, TaskStep DEF procVars
<1>7. CASE GracefulStop
  <2>1. /\ NoChange /\ pc' = "top" /\ msg' = NoMsg /\ UNCHANGED <<procVars, onEnd, onEndRestart>>
        /\ msg.control = "GracefulStop"
    BY <1>7 DEF GracefulStop, AnyGracefulStop, Handled, Handling
  <2>2. CASE /\ raised' = raised \cup {msg.done} /\ erred' \subseteq erred \cup {msg.done}
             /\ UNCHANGED timer
    BY <1>1, <1>2, <2>1, <2>2, TaskStep DEF procVars
  <2>3. CASE ArmTimer("stop") /\ UNCHANGED <<raised, erred>>
    BY <1>6, <2>1, <2>3
  <2> QED BY <1>7, <2>2, <2>3 DEF GracefulStop, AnyGracefulStop, Failed, Reply
<1>8. CASE TryGracefulRestart
  <2>1. /\ NoChange /\ pc' = "top" /\ msg' = NoMsg /\ UNCHANGED <<procVars, onEnd>>
        /\ msg.control = "TryGracefulRestart"
    BY <1>8 DEF TryGracefulRestart, Handled, Handling
  <2>2. CASE /\ raised' = raised \cup {msg.done} /\ erred' \subseteq erred \cup {msg.done}
             /\ UNCHANGED <<timer, onEndRestart>>
    BY <1>1, <1>2, <2>1, <2>2, TaskStep DEF procVars
  <2>3. CASE ArmTimer("restart") /\ onEndRestart' = msg.done /\ UNCHANGED <<raised, erred>>
    BY <1>6, <2>1, <2>3
  <2> QED BY <1>8, <2>2, <2>3 DEF TryGracefulRestart, Failed, Reply
<1>9. CASE TryRestart \/ ContinueTryGracefulRestart
  <2>1. NoChange /\ pc' = "top" /\ msg' = NoMsg /\ UNCHANGED <<timer, onEndRestart>>
    BY <1>9 DEF TryRestart, ContinueTryGracefulRestart, Handled
  <2>2. CASE UNCHANGED <<procVars, onEnd, erred>> /\ Reply({})
    BY <1>1, <1>2, <2>1, <2>2, TaskStep DEF procVars, Reply
  <2>3. CASE /\ Spawn({}, msg.done)
             /\ \/ Reply(onEnd) /\ onEnd' = {}
                \/ Reply({}) /\ UNCHANGED onEnd
    <3>1. /\ raised' \subseteq Tickets /\ raised \cup {msg.done} \subseteq raised'
          /\ onEnd \subseteq onEnd' \cup raised' /\ onEnd' \subseteq Tickets
      BY <1>2, <2>3 DEF Reply
    <3> QED BY <1>1, <1>2, <2>1, <2>3, <3>1, SpawnStep, TaskStep
  <2>4. CASE KillFails
    BY <1>4, <2>1, <2>4
  <2>5. (cmd = "Running" => alive \ {spawned} = {}) /\ (cmd # "Running" => alive = {})
    BY <1>2
  <2> QED BY <1>9, <2>2, <2>3, <2>4, <2>5 DEF TryRestart, ContinueTryGracefulRestart
<1>10. CASE Signal \/ NextEnding \/ Func
  <2>1. /\ NoChange /\ pc' = "top" /\ msg' = NoMsg /\ UNCHANGED <<timer, procVars, onEndRestart>>
        /\ raised' \in {raised, raised \cup {msg.done}} /\ onEnd' \in {onEnd, onEnd \cup {msg.done}}
        /\ msg.done \in raised' \cup onEnd' /\ erred' \subseteq erred \cup {msg.done}
    BY <1>10 DEF Signal, NextEnding, Func, Handled, Failed, Reply
  <2> QED BY <1>1, <1>2, <2>1, TaskStep DEF procVars
<1>11. CASE Delete
  <2>1. /\ NoChange /\ pc' = "exit" /\ msg' = NoMsg /\ raised' = raised \cup {msg.done}
        /\ UNCHANGED <<timer, procVars, onEnd, onEndRestart, erred>>
    BY <1>11 DEF Delete, Reply
  <2> QED BY <1>1, <1>2, <2>1, TaskStep DEF procVars
<1> QED
  BY <1>3, <1>5, <1>7, <1>8, <1>9, <1>10, <1>11 DEF Handle

(* The wait half of the loop and the end of the task.                      *)
LEMMA WaitStep ==
  ASSUME IInv, ChildEnds \/ Respawn \/ WaitFails \/ Exit
  PROVE  IInv'
<1>1. /\ TypeOK /\ raised \subseteq Tickets /\ erred \subseteq Tickets /\ onEnd \subseteq Tickets
      /\ onEndRestart \in 0 .. MaxTickets /\ spawned \in Nat /\ alive \subseteq 1 .. spawned
      /\ startedFor \in [Tickets -> Nat] /\ cmd \in {"Pending", "Running", "Finished"}
      /\ timer \in [kind: {"none", "stop", "restart"}, done: Nat, past: BOOLEAN]
      /\ alive \subseteq IF cmd = "Running" THEN {spawned} ELSE {}
      /\ (timer.kind # "none" => timer.done \in Tickets)
  <2>1. TypeOK /\ NoOverlap /\ (timer.kind # "none" => timer.done \in 1 .. Len(sent))
    BY DEF IInv, WellFormed
  <2>2. 1 .. Len(sent) \subseteq Tickets
    BY <2>1, ConstantsAssumption DEF TypeOK, Tickets
  <2> QED BY <2>1, <2>2 DEF TypeOK, NoOverlap
<1>2. CASE ChildEnds
  <2>1. EndFlags \subseteq Tickets /\ onEnd \subseteq EndFlags
    BY <1>1 DEF EndFlags
  <2>2. timer.kind # "none" => timer.done \in EndFlags
    BY DEF EndFlags
  <2>3. alive = {}
    BY <1>1, <1>2 DEF ChildEnds, Waiting
  <2>4. /\ pc \in {"poll", "select", "waitonly"} /\ pc' \in {"top", "respawn"}
        /\ (pc' = "respawn" => onEndRestart \in Tickets)
    BY <1>1, <1>2, ConstantsAssumption DEF ChildEnds, Waiting, Respawns, Tickets
  <2>5. NoTimer \in [kind: {"none", "stop", "restart"}, done: Nat, past: BOOLEAN]
    BY DEF NoTimer
  <2> QED
    BY <1>1, <1>2, <2>1, <2>2, <2>3, <2>4, <2>5, TaskStep DEF ChildEnds
<1>3. CASE Respawn
  <2>1. /\ pc = "respawn" /\ onEndRestart \in Tickets /\ alive = {}
    BY <1>1, <1>3 DEF Respawn, IInv, WellFormed
  <2>2. Spawn({}, onEndRestart)
    BY <1>3, <2>1 DEF Respawn
  <2>3. raised \subseteq raised' /\ raised' \subseteq Tickets /\ 0 \in 0 .. MaxTickets
    BY <1>1, <1>3, <2>1, ConstantsAssumption DEF Respawn
  <2> QED
    BY <1>1, <1>3, <2>1, <2>2, <2>3, SpawnStep, TaskStep DEF Respawn
<1>4. CASE WaitFails
  BY <1>1, <1>4, TaskStep DEF WaitFails, Waiting, procVars, flagVars
<1>5. CASE Exit
  <2>1. queue' \in [Priority -> Seq(Tickets)] /\ \A p \in Priority : Range(queue'[p]) = {}
    BY <1>5 DEF Exit, Range
  <2>2. /\ pc' = "dead" /\ gone' = TRUE /\ running' = FALSE
        /\ UNCHANGED <<clientVars, msg, timer, procVars, flagVars, target>>
    BY <1>5 DEF Exit
  <2>3. TypeOK'
    BY <1>1, <2>1, <2>2 DEF TypeOK, clientVars, procVars, flagVars
  <2>4. WellFormed' /\ NoLostTicket' /\ NoOverlap'
    BY <2>1, <2>2 DEF IInv, WellFormed, NoLostTicket, NoOverlap, clientVars, procVars
  <2> QED BY <2>3, <2>4 DEF IInv
<1> QED
  BY <1>2, <1>3, <1>4, <1>5

LEMMA NextIInv == IInv /\ [Next]_vars => IInv'
<1> SUFFICES ASSUME IInv, [Next]_vars PROVE IInv'
  OBVIOUS
<1>1. CASE UNCHANGED vars
  BY <1>1 DEF vars, IInv, TypeOK, WellFormed, NoLostTicket, Held, NoOverlap
<1>2. CASE Next
  BY <1>2, ClientStep, EnvironmentStep, ReceiveStep, HandleStep, WaitStep DEF Next
<1> QED BY <1>1, <1>2

(* The state has its type in every behaviour.                              *)
THEOREM TypeCorrect == Spec => []TypeOK
<1>1. IInv => TypeOK
  BY DEF IInv
<1> QED BY <1>1, InitIInv, NextIInv, PTL DEF Spec

(* No path of the task, error paths included, loses the answer to a        *)
(* control while the job lives.                                            *)
THEOREM NoLostTicketTheorem == Spec => []NoLostTicket
<1>1. IInv => NoLostTicket
  BY DEF IInv
<1> QED BY <1>1, InitIInv, NextIInv, PTL DEF Spec

(* Two processes of one job never run at the same time, and a live process *)
(* is always the one the job knows.                                        *)
THEOREM NoOverlapTheorem == Spec => []NoOverlap
<1>1. IInv => NoOverlap
  BY DEF IInv
<1> QED BY <1>1, InitIInv, NextIInv, PTL DEF Spec

(* Only an urgent control acts on a child in its grace period.             *)
THEOREM GraceRespectedTheorem == Spec => []GraceRespected
<1>1. IInv => GraceRespected
  <2> SUFFICES ASSUME IInv, pc = "handle", timer.kind # "none",
                      msg.control \notin {"NextEnding", "Func"}
               PROVE  sent[msg.done].prio = "Urgent"
    BY DEF GraceRespected
  <2>1. sent[msg.done] \in Message
    BY DEF IInv, TypeOK, WellFormed
  <2> QED BY <2>1 DEF IInv, WellFormed, Message
<1> QED BY <1>1, InitIInv, NextIInv, PTL DEF Spec

-----------------------------------------------------------------------------
(***************************************************************************)
(* The answers of a job task are true.  To IInv, AInv adds that a ticket   *)
(* is in one place only: what waits in a queue was neither handled nor     *)
(* answered, so the process it will be received over is known before its   *)
(* answer.                                                                 *)
(***************************************************************************)
NoRepeats(s) == \A i, j \in DOMAIN s : s[i] = s[j] => i = j

(* The tickets that have left the queues, and are not forgotten.           *)
Taken ==
  {0, onEndRestart} \cup raised \cup onEnd
    \cup (IF pc = "handle" THEN {msg.done} ELSE {})
    \cup (IF timer.kind # "none" THEN {timer.done} ELSE {})

ServedOnce ==
  /\ \A p \in Priority : NoRepeats(queue[p]) /\ Range(queue[p]) \cap Taken = {}
  /\ Taken \subseteq 0 .. Len(sent)

(* The task handles what was sent, or the control of an elapsed timer.     *)
InHand ==
  pc = "handle" => msg.control \in {sent[msg.done].control, "Stop", "ContinueTryGracefulRestart"}

TargetsExist == \A t \in Tickets : target[t] <= spawned

AInv == IInv /\ ServedOnce /\ InHand /\ TargetsExist /\ ResolvedMeansEnded

-----------------------------------------------------------------------------
LEMMA RepeatsAppend ==
  ASSUME NEW S, NEW s \in Seq(S), NEW x \in S, NoRepeats(s), x \notin Range(s)
  PROVE  NoRepeats(Append(s, x))
<1> DEFINE r == Append(s, x)
<1>1. /\ DOMAIN s = 1 .. Len(s) /\ DOMAIN r = 1 .. Len(s) + 1 /\ Len(s) \in Nat
      /\ r[Len(s) + 1] = x /\ \A i \in 1 .. Len(s) : r[i] = s[i]
  OBVIOUS
<1>2. \A i \in 1 .. Len(s) : s[i] # x
  BY <1>1 DEF Range
<1>3. ASSUME NEW i \in DOMAIN r, NEW j \in DOMAIN r, r[i] = r[j] PROVE i = j
  <2> HIDE DEF r
  <2>1. CASE i \in 1 .. Len(s) /\ j \in 1 .. Len(s)
    BY <1>1, <1>3, <2>1 DEF NoRepeats
  <2>2. CASE i = Len(s) + 1 \/ j = Len(s) + 1
    BY <1>1, <1>2, <1>3, <2>2
  <2> QED BY <1>1, <2>1, <2>2
<1> QED BY <1>3 DEF NoRepeats

LEMMA RepeatsTail ==
  ASSUME NEW S, NEW s \in Seq(S), s # <<>>, NoRepeats(s)
  PROVE  NoRepeats(Tail(s)) /\ Head(s) \notin Range(Tail(s))
<1> DEFINE r == Tail(s)
<1>1. /\ DOMAIN s = 1 .. Len(s) /\ Len(s) \in Nat /\ Len(s) >= 1 /\ Head(s) = s[1]
      /\ DOMAIN r = 1 .. Len(s) - 1 /\ \A i \in 1 .. Len(s) - 1 : r[i] = s[i + 1]
  OBVIOUS
<1> HIDE DEF r
<1>2. NoRepeats(r)
  <2> SUFFICES ASSUME NEW i \in DOMAIN r, NEW j \in DOMAIN r, r[i] = r[j] PROVE i = j
    BY DEF NoRepeats
  <2>1. s[i + 1] = s[j + 1] /\ i + 1 \in DOMAIN s /\ j + 1 \in DOMAIN s
    BY <1>1
  <2>2. i + 1 = j + 1
    BY <2>1 DEF NoRepeats
  <2> QED BY <1>1, <2>2
<1>3. \A i \in DOMAIN r : r[i] # Head(s)
  <2> SUFFICES ASSUME NEW i \in DOMAIN r, s[i + 1] = s[1] PROVE FALSE
    BY <1>1
  <2>1. i + 1 \in DOMAIN s /\ 1 \in DOMAIN s /\ i + 1 # 1
    BY <1>1
  <2> QED BY <2>1 DEF NoRepeats
<1> QED BY <1>2, <1>3 DEF Range, r

LEMMA InitAInv == Init => AInv
<1> SUFFICES ASSUME Init PROVE AInv
  OBVIOUS
<1>1. IInv
  BY InitIInv
<1>2. \A p \in Priority : NoRepeats(queue[p]) /\ Range(queue[p]) = {}
  BY DEF Init, NoRepeats, Range
<1>3. Taken = {0}
  BY DEF Init, Taken, NoTimer
<1> QED BY <1>1, <1>2, <1>3 DEF Init, AInv, ServedOnce, InHand, TargetsExist, ResolvedMeansEnded

(* Two ways in which a step of the task keeps the answers true: no process *)
(* of before is left, or the answers it gives do not speak of one.         *)
LEMMA TaskAnswers ==
  ASSUME AInv, IInv', UNCHANGED <<sent, queue, target>>, pc' # "handle", Taken' \subseteq Taken,
         spawned' \in {spawned, spawned + 1}, alive' \subseteq alive \cup {spawned + 1},
         erred \subseteq erred',
         \/ alive' \cap (1 .. spawned) = {}
         \/ \A t \in raised' \ (raised \cup erred') : sent[t].control \notin EndingControls
  PROVE  AInv'
<1>1. /\ spawned \in Nat /\ target \in [Tickets -> Nat] /\ raised' \subseteq Tickets
      /\ 0 \notin alive'
  BY DEF AInv, IInv, TypeOK
<1>2. ServedOnce' /\ InHand'
  BY DEF AInv, ServedOnce, InHand
<1>3. TargetsExist'
  BY <1>1 DEF AInv, TargetsExist
<1>4. ResolvedMeansEnded'
  <2> SUFFICES ASSUME NEW t \in raised' \ erred', sent[t].control \in EndingControls
               PROVE  target[t] \notin alive'
    BY DEF ResolvedMeansEnded
  <2>1. target[t] \in Nat /\ target[t] <= spawned
    BY <1>1 DEF AInv, TargetsExist
  <2>2. CASE alive' \cap (1 .. spawned) = {}
    BY <1>1, <2>1, <2>2
  <2>3. CASE t \in raised
    BY <1>1, <2>1, <2>3 DEF AInv, ResolvedMeansEnded
  <2> QED BY <2>2, <2>3
<1> QED BY <1>2, <1>3, <1>4 DEF AInv

-----------------------------------------------------------------------------
LEMMA ClientAnswers ==
  ASSUME AInv, IInv', NEW c \in Clients,
         (\E m \in Methods : Call(c, m)) \/ SendRest(c) \/ Drop(c)
  PROVE  AInv'
<1>1. Len(sent) \in Nat /\ MaxTickets \in Nat /\ Tickets = 1 .. MaxTickets
  BY ConstantsAssumption DEF AInv, IInv, TypeOK, Tickets
<1>2. ASSUME NEW m \in Message, Enqueue(m), Len(sent) < MaxTickets,
             UNCHANGED <<pc, msg, timer, procVars, flagVars, target>>
      PROVE  AInv'
  <2>1. /\ sent' \in Seq(Message) /\ Len(sent') = Len(sent) + 1
        /\ \A t \in 1 .. Len(sent) : sent'[t] = sent[t]
        /\ \A p \in Priority : Range(queue'[p]) \subseteq Range(queue[p]) \cup {Len(sent) + 1}
    BY <1>2, EnqueueStep DEF AInv
  <2>2. Taken' = Taken /\ Len(sent) + 1 \notin Taken
    <3>1. Taken' = Taken
      BY <1>2 DEF Taken, flagVars
    <3>2. Taken \subseteq 0 .. Len(sent)
      BY DEF AInv, ServedOnce
    <3> QED BY <1>1, <3>1, <3>2
  <2>3. ASSUME NEW p \in Priority PROVE NoRepeats(queue'[p])
    <3>1. CASE queue'[p] = queue[p]
      BY <3>1 DEF AInv, ServedOnce
    <3>2. CASE queue'[p] = Append(queue[p], Len(sent) + 1)
      <4>1. queue[p] \in Seq(Tickets) /\ Len(sent) + 1 \in Tickets
        <5>1. queue[p] \in Seq(Tickets)
          BY DEF AInv, IInv, TypeOK
        <5> QED BY <1>1, <1>2, <5>1
      <4>2. Len(sent) + 1 \notin Range(queue[p]) /\ NoRepeats(queue[p])
        <5>1. Range(queue[p]) \subseteq 1 .. Len(sent)
          BY DEF AInv, IInv, WellFormed
        <5> QED BY <1>1, <5>1 DEF AInv, ServedOnce
      <4> QED BY <3>2, <4>1, <4>2, RepeatsAppend
    <3>3. queue \in [Priority -> Seq(Tickets)]
      BY DEF AInv, IInv, TypeOK
    <3>4. \/ queue' = queue
          \/ queue' = [queue EXCEPT ![m.prio] = Append(queue[m.prio], Len(sent) + 1)]
      BY <1>2 DEF Enqueue
    <3>5. queue'[p] = queue[p] \/ queue'[p] = Append(queue[p], Len(sent) + 1)
      BY <3>3, <3>4
    <3> QED BY <3>1, <3>2, <3>5
  <2>4. ServedOnce'
    <3>1. ASSUME NEW p \in Priority PROVE Range(queue'[p]) \cap Taken = {}
      BY <2>1, <2>2 DEF AInv, ServedOnce
    <3>2. Taken \subseteq 0 .. Len(sent')
      BY <1>1, <2>1 DEF AInv, ServedOnce
    <3> QED BY <2>2, <2>3, <3>1, <3>2 DEF ServedOnce
  <2>5. InHand'
    BY <1>2, <2>1 DEF AInv, IInv, WellFormed, InHand
  <2>6. TargetsExist'
    BY <1>2 DEF AInv, TargetsExist, procVars
  <2>7. ResolvedMeansEnded'
    <3>1. raised \subseteq 1 .. Len(sent)
      BY <1>1 DEF AInv, IInv, TypeOK, ServedOnce, Taken
    <3> QED BY <1>2, <2>1, <3>1 DEF AInv, ResolvedMeansEnded, procVars, flagVars
  <2> QED BY <2>4, <2>5, <2>6, <2>7 DEF AInv
<1>3. CASE \E m \in Methods : Call(c, m)
  <2>1. PICK m \in Methods : Call(c, m)
    BY <1>3
  <2>2. Len(Sends[m]) \in Nat \ {0} /\ Head(Sends[m]) \in Message
    BY SendsType, ConstantsAssumption
  <2>3. Len(sent) < MaxTickets
    BY <1>1, <2>1, <2>2, BusyIsFinite DEF Call
  <2> QED BY <1>2, <2>1, <2>2, <2>3 DEF Call
<1>4. CASE SendRest(c)
  <2>1. Head(todo[c]) \in Message
    BY <1>4 DEF SendRest, AInv, IInv, TypeOK
  <2> QED BY <1>2, <1>4, <2>1 DEF SendRest
<1>5. CASE Drop(c)
  BY <1>5 DEF Drop, AInv, ServedOnce, Taken, InHand, TargetsExist, ResolvedMeansEnded, procVars,
              flagVars
<1> QED BY <1>3, <1>4, <1>5

(* Steps that answer nothing and receive nothing.                          *)
LEMMA QuietAnswers ==
  ASSUME AInv, IInv', TimerElapses \/ (\E p \in 1 .. spawned : ProcessExits(p)) \/ LoopTop
                      \/ Await \/ QueueClosed \/ WaitFails \/ UNCHANGED vars
  PROVE  AInv'
<1>1. /\ UNCHANGED <<sent, queue, msg, spawned, onEnd, onEndRestart, raised, erred, target>>
      /\ alive' \subseteq alive /\ timer'.kind = timer.kind /\ timer'.done = timer.done
      /\ pc' # pc => pc \in {"top", "poll", "select", "waitonly"} /\ pc' # "handle"
  BY DEF AInv, IInv, TypeOK, TimerElapses, ProcessExits, LoopTop, Await, QueueClosed, WaitFails,
         Waiting, vars, clientVars, procVars, flagVars
<1>2. Taken' = Taken
  BY <1>1 DEF Taken
<1> QED
  BY <1>1, <1>2 DEF AInv, ServedOnce, InHand, TargetsExist, ResolvedMeansEnded

LEMMA ReceiveAnswers ==
  ASSUME AInv, IInv', TimerFires \/ \E p \in Priority : Receive(p)
  PROVE  AInv'
<1>1. CASE TimerFires
  <2>1. Taken' = Taken
    BY <1>1 DEF TimerFires, TimerPast, NoTimer, Taken, flagVars
  <2> QED
    BY <1>1, <2>1 DEF TimerFires, AInv, ServedOnce, InHand, TargetsExist, ResolvedMeansEnded,
                      clientVars, procVars, flagVars
<1>2. CASE \E p \in Priority : Receive(p)
  <2>1. PICK q \in Priority : Receive(q)
    BY <1>2
  <2> DEFINE t == Head(queue[q])
  <2>2. /\ queue \in [Priority -> Seq(Tickets)] /\ queue[q] \in Seq(Tickets) /\ queue[q] # <<>>
        /\ spawned \in Nat /\ target \in [Tickets -> Nat]
    BY <2>1 DEF Receive, AInv, IInv, TypeOK
  <2>3. /\ t \in Tickets /\ Range(queue[q]) = {t} \cup Range(Tail(queue[q]))
        /\ NoRepeats(Tail(queue[q])) /\ t \notin Range(Tail(queue[q]))
    BY <2>2, RangeTail, RepeatsTail DEF AInv, ServedOnce
  <2>4. /\ queue' = [queue EXCEPT ![q] = Tail(@)] /\ pc \in {"poll", "select"}
        /\ msg' = [control |-> sent[t].control, done |-> t] /\ pc' = "handle"
        /\ target' = [target EXCEPT ![t] = IF cmd = "Running" THEN spawned ELSE 0]
        /\ UNCHANGED <<sent, timer, spawned, alive, onEnd, onEndRestart, raised, erred>>
    BY <2>1 DEF Receive, Receivable, FirstLook, clientVars, procVars, flagVars
  <2>5. t \in 1 .. Len(sent) /\ sent[t].prio = q /\ t \notin Taken
    BY <2>3 DEF AInv, IInv, WellFormed, ServedOnce
  <2>6. Taken' = Taken \cup {t}
    BY <2>4 DEF Taken
  <2>7. \A p \in Priority \ {q} : queue'[p] = queue[p] /\ t \notin Range(queue[p])
    BY <2>2, <2>4, <2>5 DEF AInv, IInv, WellFormed
  <2>8. queue'[q] = Tail(queue[q])
    BY <2>2, <2>4
  <2> HIDE DEF t
  <2>9. ServedOnce'
    <3>1. \A p \in Priority : NoRepeats(queue'[p]) /\ Range(queue'[p]) \cap Taken' = {}
      <4>1. NoRepeats(queue'[q]) /\ Range(queue'[q]) \cap Taken' = {}
        BY <2>3, <2>6, <2>8 DEF AInv, ServedOnce
      <4>2. ASSUME NEW p \in Priority \ {q}
            PROVE  NoRepeats(queue'[p]) /\ Range(queue'[p]) \cap Taken' = {}
        BY <2>6, <2>7 DEF AInv, ServedOnce
      <4> QED BY <4>1, <4>2
    <3>2. Taken' \subseteq 0 .. Len(sent')
      <4>1. Len(sent) \in Nat /\ sent' = sent
        BY <2>4 DEF AInv, IInv, TypeOK
      <4>2. Taken \subseteq 0 .. Len(sent)
        BY DEF AInv, ServedOnce
      <4>3. t \in 0 .. Len(sent)
        BY <2>5, <4>1
      <4> QED BY <2>6, <4>1, <4>2, <4>3
    <3> QED BY <3>1, <3>2 DEF ServedOnce
  <2>10. InHand'
    <3>1. msg'.control = sent[t].control /\ msg'.done = t /\ sent' = sent
      BY <2>4
    <3> QED BY <3>1 DEF InHand
  <2>11. TargetsExist'
    BY <2>2, <2>3, <2>4 DEF AInv, TargetsExist
  <2>12. ResolvedMeansEnded'
    BY <2>2, <2>4, <2>5 DEF AInv, ResolvedMeansEnded, Taken
  <2> QED BY <2>9, <2>10, <2>11, <2>12 DEF AInv
<1> QED BY <1>1, <1>2

LEMMA HandleAnswers ==
  ASSUME AInv, IInv', Handle
  PROVE  AInv'
<1>1. pc = "handle" /\ msg.done \in 1 .. Len(sent) /\ InHand
  BY DEF AInv, IInv, WellFormed, Handle, Handling, AnyStart, Start, Stop, AnyGracefulStop,
     GracefulStop, TryRestart, TryGracefulRestart, ContinueTryGracefulRestart, Signal, NextEnding,
     Func, Delete
<1>2. /\ spawned \in Nat /\ alive \subseteq 1 .. spawned /\ alive \ {spawned} = {}
      /\ cmd # "Running" => alive = {}
  BY DEF AInv, IInv, TypeOK, NoOverlap
<1>3. UNCHANGED <<sent, queue, target>> /\ pc' \in {"top", "exit"} /\ msg' = NoMsg
  BY DEF Handle, AnyStart, Start, Stop, AnyGracefulStop, GracefulStop, TryRestart, Handled,
     TryGracefulRestart, ContinueTryGracefulRestart, Signal, NextEnding, Func, Delete, clientVars
<1>4. CASE Start \/ Signal \/ Func \/ Delete
  <2>1. msg.control \in {"Start", "Signal", "Func", "Delete"}
    BY <1>4 DEF Start, AnyStart, Signal, Func, Delete, Handling
  <2>2. sent[msg.done].control \notin EndingControls
    BY <1>1, <2>1 DEF InHand, EndingControls
  <2>3. /\ raised' \subseteq raised \cup {msg.done} /\ UNCHANGED <<timer, onEnd, onEndRestart>>
        /\ alive' \subseteq alive \cup {spawned + 1} /\ erred \subseteq erred'
        /\ spawned' \in {spawned, spawned + 1}
    BY <1>4 DEF Start, AnyStart, Spawn, Signal, Func, Delete, Failed, Reply, procVars
  <2>4. Taken' \subseteq Taken
    BY <1>1, <1>3, <2>3 DEF Taken
  <2> QED BY <1>3, <2>2, <2>3, <2>4, TaskAnswers
<1>5. ASSUME KillFails, UNCHANGED <<timer, onEndRestart>> PROVE AInv'
  <2>1. /\ raised' = raised \cup {msg.done} /\ erred' = erred \cup {msg.done}
        /\ alive' \subseteq alive /\ UNCHANGED <<spawned, onEnd>>
    BY <1>5 DEF KillFails, Failed, Reply
  <2>2. Taken' \subseteq Taken
    BY <1>1, <1>3, <1>5, <2>1 DEF Taken
  <2> QED BY <1>3, <2>1, <2>2, TaskAnswers
<1>6. ASSUME UNCHANGED <<timer, onEndRestart>>, raised' \subseteq raised \cup onEnd \cup {msg.done},
             onEnd' \subseteq onEnd \cup {msg.done}, erred \subseteq erred',
             spawned' \in {spawned, spawned + 1}, alive' \subseteq {spawned + 1}
      PROVE  AInv'
  <2>1. Taken' \subseteq Taken /\ alive' \cap (1 .. spawned) = {}
    BY <1>1, <1>2, <1>3, <1>6 DEF Taken
  <2> QED BY <1>3, <1>6, <2>1, TaskAnswers
<1>7. CASE Stop
  <2>1. UNCHANGED <<timer, onEndRestart>>
    BY <1>7 DEF Stop
  <2>2. CASE KillFails
    BY <1>5, <2>1, <2>2
  <2>3. CASE ~KillFails
    BY <1>2, <1>6, <1>7, <2>1, <2>3 DEF Stop, Reply, procVars
  <2> QED BY <2>2, <2>3
<1>8. CASE TryRestart \/ ContinueTryGracefulRestart
  <2>1. UNCHANGED <<timer, onEndRestart>>
    BY <1>8 DEF TryRestart, ContinueTryGracefulRestart
  <2>2. CASE KillFails
    BY <1>5, <2>1, <2>2
  <2>3. CASE ~KillFails
    BY <1>2, <1>6, <1>8, <2>1, <2>3 DEF TryRestart, ContinueTryGracefulRestart, Spawn, Reply,
                                         procVars
  <2> QED BY <2>2, <2>3
<1>9. CASE NextEnding
  <2>1. /\ UNCHANGED <<timer, procVars, onEndRestart, erred>>
        /\ \/ cmd = "Finished" /\ raised' = raised \cup {msg.done} /\ UNCHANGED onEnd
           \/ onEnd' = onEnd \cup {msg.done} /\ UNCHANGED raised
    BY <1>9 DEF NextEnding, Reply
  <2>2. Taken' \subseteq Taken
    BY <1>1, <1>3, <2>1 DEF Taken
  <2> QED BY <1>2, <1>3, <2>1, <2>2, TaskAnswers DEF procVars
<1>10. CASE GracefulStop \/ TryGracefulRestart
  <2>1. /\ UNCHANGED <<procVars, onEnd>> /\ erred \subseteq erred'
        /\ onEndRestart' \in {onEndRestart, msg.done}
        /\ \/ /\ UNCHANGED timer /\ raised' \subseteq raised \cup {msg.done}
              /\ alive = {} \/ erred' = erred \cup {msg.done}
           \/ timer'.done = msg.done /\ UNCHANGED raised
    BY <1>2, <1>10 DEF GracefulStop, AnyGracefulStop, TryGracefulRestart, ArmTimer, Failed, Reply
  <2>2. Taken' \subseteq Taken
    BY <1>1, <1>3, <2>1 DEF Taken
  <2> QED BY <1>2, <1>3, <2>1, <2>2, TaskAnswers DEF procVars
<1> QED
  BY <1>4, <1>7, <1>8, <1>9, <1>10 DEF Handle

LEMMA EndAnswers ==
  ASSUME AInv, IInv', ChildEnds \/ Respawn \/ Exit
  PROVE  AInv'
<1>1. /\ spawned \in Nat /\ alive \subseteq 1 .. spawned
      /\ alive \subseteq IF cmd = "Running" THEN {spawned} ELSE {}
  BY DEF AInv, IInv, TypeOK, NoOverlap
<1>2. CASE ChildEnds
  <2>1. alive = {}
    BY <1>1, <1>2 DEF ChildEnds
  <2>2. Taken' \subseteq Taken
    BY <1>2 DEF ChildEnds, EndFlags, NoTimer, Taken
  <2> QED BY <1>2, <2>1, <2>2, TaskAnswers DEF ChildEnds, clientVars
<1>3. CASE Respawn
  <2>1. alive = {}
    BY <1>1, <1>3 DEF Respawn, AInv, IInv, WellFormed
  <2>2. /\ alive' \subseteq {spawned + 1} /\ spawned' \in {spawned, spawned + 1}
        /\ erred \subseteq erred'
    BY <1>3, <2>1 DEF Respawn, Spawn
  <2>3. Taken' \subseteq Taken /\ pc' = "top" /\ UNCHANGED <<sent, queue, target>>
    BY <1>3 DEF Respawn, Taken, clientVars
  <2> QED BY <1>1, <2>2, <2>3, TaskAnswers
<1>4. CASE Exit
  <2>1. Taken' \subseteq Taken /\ \A p \in Priority : NoRepeats(queue'[p]) /\ Range(queue'[p]) = {}
    BY <1>4 DEF Exit, Taken, NoRepeats, Range, flagVars
  <2> QED
    BY <1>4, <2>1 DEF Exit, AInv, ServedOnce, InHand, TargetsExist, ResolvedMeansEnded,
                      clientVars, procVars, flagVars
<1> QED BY <1>2, <1>3, <1>4

-----------------------------------------------------------------------------
LEMMA NextAInv == AInv /\ [Next]_vars => AInv'
<1> SUFFICES ASSUME AInv, [Next]_vars PROVE AInv'
  OBVIOUS
<1>1. IInv'
  BY NextIInv DEF AInv
<1> QED
  BY <1>1, ClientAnswers, QuietAnswers, ReceiveAnswers, HandleAnswers, EndAnswers DEF Next

(* The answer to a stop, a restart or a wait is true: the process that ran *)
(* when the control was received has ended, unless an error was reported   *)
(* for that control (task.rs:83-370, every path that raises a flag).       *)
THEOREM ResolvedMeansEndedTheorem == Spec => []ResolvedMeansEnded
<1>1. AInv => ResolvedMeansEnded
  BY DEF AInv
<1> QED BY <1>1, InitAInv, NextAInv, PTL DEF Spec

-----------------------------------------------------------------------------
(* The refinement.                                                         *)
Ascending(s) == \A i, j \in DOMAIN s : i < j => s[i] < s[j]

Before(t, s) == \A u \in Range(s) : t < u

(* The normal control that is being served was sent before those that wait.*)
InOrder ==
  /\ Ascending(queue["Normal"])
  /\ pc = "handle" /\ sent[msg.done].prio = "Normal" => Before(msg.done, queue["Normal"])
  /\ timer.kind # "none" => /\ sent[timer.done].prio = "Normal"
                            /\ Before(timer.done, queue["Normal"])

(* Waiters are the high controls; a graceful restart is answered by the    *)
(* end of its timer, one way or the other, before it respawns.             *)
Waiters ==
  /\ \A t \in onEnd : sent[t].prio = "High"
  /\ pc = "handle" /\ sent[msg.done].prio = "High" => msg.control = "NextEnding"
  /\ pc = "handle" /\ msg.control = "ContinueTryGracefulRestart" => sent[msg.done].prio = "Normal"
  /\ onEndRestart # 0 => sent[onEndRestart].prio = "Normal"
  /\ \/ onEndRestart = 0 \/ onEndRestart \in raised
     \/ timer.kind # "none" /\ timer.done = onEndRestart
     \/ pc = "handle" /\ msg.done = onEndRestart

GoneIsDead == gone => pc = "dead"

CInv == AInv /\ InOrder /\ Waiters /\ GoneIsDead

-----------------------------------------------------------------------------
LEMMA AscendingAppend ==
  ASSUME NEW S \in SUBSET Nat, NEW s \in Seq(S), NEW x \in S, Ascending(s),
         \A u \in Range(s) : u < x
  PROVE  Ascending(Append(s, x))
<1> DEFINE r == Append(s, x)
<1>1. /\ DOMAIN s = 1 .. Len(s) /\ DOMAIN r = 1 .. Len(s) + 1 /\ Len(s) \in Nat
      /\ r[Len(s) + 1] = x /\ \A i \in 1 .. Len(s) : r[i] = s[i]
  OBVIOUS
<1>2. \A i \in 1 .. Len(s) : s[i] < x
  BY <1>1 DEF Range
<1>3. ASSUME NEW i \in DOMAIN r, NEW j \in DOMAIN r, i < j PROVE r[i] < r[j]
  <2> HIDE DEF r
  <2>1. i \in 1 .. Len(s)
    BY <1>1, <1>3
  <2>2. CASE j \in 1 .. Len(s)
    BY <1>1, <1>3, <2>1, <2>2 DEF Ascending
  <2>3. CASE j = Len(s) + 1
    BY <1>1, <1>2, <2>1, <2>3
  <2> QED BY <1>1, <2>2, <2>3
<1> QED BY <1>3 DEF Ascending

LEMMA AscendingTail ==
  ASSUME NEW S \in SUBSET Nat, NEW s \in Seq(S), s # <<>>, Ascending(s)
  PROVE  Ascending(Tail(s)) /\ Before(Head(s), Tail(s))
<1> DEFINE r == Tail(s)
<1>1. /\ DOMAIN s = 1 .. Len(s) /\ Len(s) \in Nat /\ Len(s) >= 1 /\ Head(s) = s[1]
      /\ DOMAIN r = 1 .. Len(s) - 1 /\ \A i \in 1 .. Len(s) - 1 : r[i] = s[i + 1]
  OBVIOUS
<1> HIDE DEF r
<1>2. Ascending(r)
  <2> SUFFICES ASSUME NEW i \in DOMAIN r, NEW j \in DOMAIN r, i < j PROVE s[i + 1] < s[j + 1]
    BY <1>1 DEF Ascending
  <2>1. i + 1 \in DOMAIN s /\ j + 1 \in DOMAIN s /\ i + 1 < j + 1
    BY <1>1
  <2> QED BY <2>1 DEF Ascending
<1>3. \A i \in DOMAIN r : Head(s) < r[i]
  <2> SUFFICES ASSUME NEW i \in DOMAIN r PROVE s[1] < s[i + 1]
    BY <1>1
  <2>1. i + 1 \in DOMAIN s /\ 1 \in DOMAIN s /\ 1 < i + 1
    BY <1>1
  <2> QED BY <2>1 DEF Ascending
<1> QED BY <1>2, <1>3 DEF Before, Range, r

LEMMA InitCInv == Init => CInv
<1> SUFFICES ASSUME Init PROVE CInv
  OBVIOUS
<1>1. AInv
  BY InitAInv
<1>2. queue["Normal"] = <<>> /\ Ascending(<<>>)
  BY DEF Init, Priority, Ascending
<1> QED BY <1>1, <1>2 DEF Init, CInv, InOrder, Waiters, GoneIsDead, NoTimer

-----------------------------------------------------------------------------
(* What the invariants say of the ranges of everything.                    *)
LEMMA Ranges ==
  ASSUME AInv
  PROVE  /\ sent \in Seq(Message) /\ Len(sent) \in Nat /\ queue \in [Priority -> Seq(Tickets)]
         /\ queue["Normal"] \in Seq(Tickets) /\ Tickets \in SUBSET Nat
         /\ raised \subseteq 1 .. Len(sent)
         /\ onEnd \subseteq 1 .. Len(sent) /\ onEndRestart \in 0 .. Len(sent)
         /\ pc = "handle" => msg.done \in 1 .. Len(sent)
         /\ timer.kind # "none" => timer.done \in 1 .. Len(sent)
         /\ \A t \in 1 .. Len(sent) : sent[t] \in Message
         /\ spawned \in Nat /\ alive \subseteq 1 .. spawned /\ alive \subseteq {spawned}
         /\ cmd # "Running" => alive = {}
         /\ \A u \in Range(queue["Normal"]) : u \in 1 .. Len(sent)
<1>1. /\ sent \in Seq(Message) /\ Len(sent) \in Nat /\ queue \in [Priority -> Seq(Tickets)]
      /\ raised \subseteq Tickets /\ onEnd \subseteq Tickets /\ onEndRestart \in 0 .. MaxTickets
      /\ spawned \in Nat /\ alive \subseteq 1 .. spawned /\ MaxTickets \in Nat
      /\ Tickets = 1 .. MaxTickets
  BY ConstantsAssumption DEF AInv, IInv, TypeOK, Tickets
<1>2. raised \cup onEnd \cup {onEndRestart} \subseteq 0 .. Len(sent)
  BY DEF AInv, ServedOnce, Taken
<1>3. alive \subseteq {spawned} /\ (cmd # "Running" => alive = {})
  BY DEF AInv, IInv, NoOverlap
<1>4. queue["Normal"] \in Seq(Tickets) /\ Tickets \in SUBSET Nat
  BY <1>1 DEF Priority
<1>5. /\ pc = "handle" => msg.done \in 1 .. Len(sent)
      /\ timer.kind # "none" => timer.done \in 1 .. Len(sent)
      /\ \A u \in Range(queue["Normal"]) : u \in 1 .. Len(sent)
  BY DEF AInv, IInv, WellFormed, Priority
<1> QED BY <1>1, <1>2, <1>3, <1>4, <1>5

LEMMA ClientOrder ==
  ASSUME CInv, AInv', NEW c \in Clients,
         (\E m \in Methods : Call(c, m)) \/ SendRest(c) \/ Drop(c)
  PROVE  CInv'
<1>1. ASSUME NEW m \in Message, Enqueue(m), Len(sent) < MaxTickets,
             UNCHANGED <<pc, msg, timer, flagVars, gone>>
      PROVE  CInv'
  <2>1. /\ \A t \in 1 .. Len(sent) : sent'[t] = sent[t]
        /\ Range(queue'["Normal"]) \subseteq Range(queue["Normal"]) \cup {Len(sent) + 1}
    BY <1>1, EnqueueStep DEF CInv, AInv, Priority
  <2>2. Ascending(queue'["Normal"])
    <3>1. CASE queue'["Normal"] = queue["Normal"]
      BY <3>1 DEF CInv, InOrder
    <3>2. CASE queue'["Normal"] = Append(queue["Normal"], Len(sent) + 1)
      <4>1. /\ queue["Normal"] \in Seq(Nat) /\ Len(sent) + 1 \in Nat /\ Ascending(queue["Normal"])
            /\ \A u \in Range(queue["Normal"]) : u < Len(sent) + 1
        BY Ranges DEF CInv, InOrder
      <4> QED BY <3>2, <4>1, AscendingAppend
    <3> QED BY <1>1, <3>1, <3>2, Ranges DEF Enqueue, CInv
  <2>3. InOrder'
    <3>1. \A t \in 1 .. Len(sent) :
             Before(t, queue["Normal"]) => Before(t, queue'["Normal"])
      BY <2>1, Ranges DEF Before, CInv
    <3>2. /\ pc = "handle" => msg.done \in 1 .. Len(sent)
          /\ timer.kind # "none" => timer.done \in 1 .. Len(sent)
      BY Ranges DEF CInv
    <3> QED BY <1>1, <2>1, <2>2, <3>1, <3>2 DEF CInv, InOrder
  <2>4. Waiters'
    <3>1. /\ pc = "handle" => msg.done \in 1 .. Len(sent)
          /\ onEnd \subseteq 1 .. Len(sent) /\ onEndRestart \in 0 .. Len(sent)
          /\ Len(sent) \in Nat
      BY Ranges DEF CInv
    <3> QED BY <1>1, <2>1, <3>1 DEF CInv, Waiters, flagVars
  <2> QED BY <1>1, <2>3, <2>4 DEF CInv, GoneIsDead
<1>2. CASE \E m \in Methods : Call(c, m)
  <2>1. PICK m \in Methods : Call(c, m)
    BY <1>2
  <2>2. Len(Sends[m]) \in Nat \ {0} /\ Head(Sends[m]) \in Message
    BY SendsType, ConstantsAssumption
  <2>3. Len(sent) < MaxTickets
    BY <2>1, <2>2, BusyIsFinite, Ranges, ConstantsAssumption DEF Call, CInv
  <2> QED BY <1>1, <2>1, <2>2, <2>3 DEF Call
<1>3. CASE SendRest(c)
  <2>1. Head(todo[c]) \in Message
    BY <1>3 DEF SendRest, CInv, AInv, IInv, TypeOK
  <2> QED BY <1>1, <1>3, <2>1 DEF SendRest
<1>4. CASE Drop(c)
  BY <1>4 DEF Drop, CInv, InOrder, Waiters, GoneIsDead, flagVars
<1> QED BY <1>2, <1>3, <1>4

LEMMA QuietOrder ==
  ASSUME CInv, AInv', TimerElapses \/ (\E p \in 1 .. spawned : ProcessExits(p)) \/ LoopTop
                      \/ Await \/ QueueClosed \/ WaitFails \/ UNCHANGED vars
  PROVE  CInv'
<1>1. /\ UNCHANGED <<sent, queue, msg, onEnd, onEndRestart, raised, gone>>
      /\ timer'.kind = timer.kind /\ timer'.done = timer.done
      /\ pc' # pc => /\ pc \in {"top", "poll", "select", "waitonly"}
                     /\ pc' \notin {"handle", "dead"}
  BY DEF CInv, AInv, IInv, TypeOK, TimerElapses, ProcessExits, LoopTop, Await, QueueClosed,
         WaitFails, Waiting, vars, clientVars, procVars, flagVars
<1> QED BY <1>1 DEF CInv, InOrder, Waiters, GoneIsDead

LEMMA ReceiveOrder ==
  ASSUME CInv, AInv', TimerFires \/ \E p \in Priority : Receive(p)
  PROVE  CInv'
<1>1. CASE TimerFires
  <2>1. /\ msg'.done = timer.done /\ msg'.control \in {"Stop", "ContinueTryGracefulRestart"}
        /\ timer'.kind = "none" /\ timer.kind # "none" /\ pc' = "handle"
        /\ pc \in {"poll", "select"}
        /\ UNCHANGED <<sent, queue, onEnd, onEndRestart, raised, gone>>
    BY <1>1 DEF TimerFires, TimerPast, NoTimer, clientVars, procVars, flagVars
  <2> QED BY <2>1 DEF CInv, InOrder, Waiters, GoneIsDead
<1>2. CASE \E p \in Priority : Receive(p)
  <2>1. PICK q \in Priority : Receive(q)
    BY <1>2
  <2> DEFINE t == Head(queue[q])
  <2>2. /\ msg'.control = sent[t].control /\ msg'.done = t /\ pc' = "handle"
        /\ pc \in {"poll", "select"} /\ (q = "Normal" => timer.kind = "none")
        /\ queue[q] # <<>> /\ queue' = [queue EXCEPT ![q] = Tail(@)]
        /\ UNCHANGED <<sent, timer, onEnd, onEndRestart, raised, gone>>
    BY <2>1 DEF Receive, Receivable, FirstLook, clientVars, procVars, flagVars
  <2>3. queue \in [Priority -> Seq(Tickets)] /\ queue["Normal"] \in Seq(Tickets)
        /\ Tickets \in SUBSET Nat
    BY Ranges DEF CInv
  <2>4. t \in Range(queue[q])
    BY <2>2, <2>3, RangeTail
  <2>5. t \in 1 .. Len(sent) /\ sent[t].prio = q /\ sent[t] \in Message
    BY <2>4, Ranges DEF CInv, AInv, IInv, WellFormed
  <2>6. sent[t].prio = "High" => sent[t].control = "NextEnding"
    BY <2>5 DEF Message
  <2>7. sent[t].control # "ContinueTryGracefulRestart"
    BY <2>5 DEF Message, Control
  <2>8. CASE q = "Normal"
    <3>1. queue'["Normal"] = Tail(queue["Normal"]) /\ queue["Normal"] # <<>>
      BY <2>2, <2>3, <2>8
    <3>2. Ascending(queue'["Normal"]) /\ Before(t, queue'["Normal"])
      BY <2>3, <2>8, <3>1, AscendingTail DEF CInv, InOrder
    <3> HIDE DEF t
    <3> QED
      BY <2>2, <2>6, <2>7, <2>8, <3>2 DEF CInv, InOrder, Waiters, GoneIsDead
  <2>9. CASE q # "Normal"
    <3>1. queue'["Normal"] = queue["Normal"]
      BY <2>2, <2>3, <2>9 DEF Priority
    <3> HIDE DEF t
    <3> QED
      BY <2>2, <2>5, <2>6, <2>7, <2>9, <3>1 DEF CInv, InOrder, Waiters, GoneIsDead
  <2> QED BY <2>8, <2>9
<1> QED BY <1>1, <1>2

(* A step of the task that receives nothing keeps the order when it arms   *)
(* no timer but for the normal control it handles.                         *)
LEMMA TaskOrder ==
  ASSUME CInv, AInv', UNCHANGED <<sent, queue, gone>>, ~gone, pc' # "handle",
         \/ timer' = timer \/ timer'.kind = "none"
         \/ pc = "handle" /\ timer'.done = msg.done /\ sent[msg.done].prio = "Normal",
         timer.kind # "none" /\ timer' # timer => timer.done \in raised' \/ timer'.done = timer.done,
         \A t \in onEnd' : t \in onEnd \/ sent[t].prio = "High",
         raised \subseteq raised',
         pc = "handle" => msg.done \in raised' \cup onEnd' \/
                          (timer'.kind # "none" /\ timer'.done = msg.done),
         \/ onEndRestart' = 0 \/ onEndRestart' = onEndRestart
         \/ onEndRestart' = timer'.done /\ timer'.kind # "none",
         pc = "handle" /\ msg.done = onEndRestart /\ onEndRestart' = onEndRestart =>
            msg.done \in raised' \/ (timer'.kind # "none" /\ timer'.done = msg.done),
         timer.kind # "none" => timer'.kind # "none" \/ timer.done \in raised'
  PROVE  CInv'
<1>1. InOrder'
  BY DEF CInv, InOrder
<1>2. Waiters'
  <2>1. onEndRestart' # 0 => sent[onEndRestart'].prio = "Normal"
    BY <1>1 DEF CInv, Waiters, InOrder
  <2>2. \/ onEndRestart' = 0 \/ onEndRestart' \in raised'
        \/ timer'.kind # "none" /\ timer'.done = onEndRestart'
    <3>1. CASE onEndRestart' = onEndRestart
      BY <3>1 DEF CInv, Waiters
    <3> QED BY <3>1
  <2> QED BY <2>1, <2>2 DEF CInv, Waiters
<1> QED BY <1>1, <1>2 DEF CInv, GoneIsDead

LEMMA TimerIsNone ==
  ASSUME CInv, pc = "handle", msg.control \in {"GracefulStop", "TryGracefulRestart"}
  PROVE  timer.kind = "none" /\ sent[msg.done].prio = "Normal"
<1>1. sent[msg.done] \in Message /\ msg.control = sent[msg.done].control
  BY Ranges DEF CInv, AInv, InHand
<1>2. sent[msg.done].prio = "Normal"
  BY <1>1 DEF Message
<1> QED BY <1>2 DEF CInv, AInv, IInv, WellFormed

LEMMA HandleOrder ==
  ASSUME CInv, AInv', Handle
  PROVE  CInv'
<1>1. /\ pc = "handle" /\ pc' \in {"top", "exit"} /\ UNCHANGED <<sent, queue, gone>> /\ ~gone
  BY DEF Handle, Handling, AnyStart, Start, Stop, AnyGracefulStop, GracefulStop, TryRestart,
         TryGracefulRestart, ContinueTryGracefulRestart, Signal, NextEnding, Func, Delete, Handled,
         clientVars, CInv, GoneIsDead
<1>2. CASE Start \/ Stop \/ TryRestart \/ ContinueTryGracefulRestart \/ Signal \/ Func \/ Delete
  <2>1. /\ UNCHANGED <<timer, onEndRestart>> /\ raised \cup {msg.done} \subseteq raised'
        /\ onEnd' \subseteq onEnd
    BY <1>2 DEF Start, AnyStart, Stop, TryRestart, ContinueTryGracefulRestart, Signal, Func, Delete,
                KillFails, Failed, Reply
  <2> QED BY <1>1, <2>1, TaskOrder
<1>3. CASE NextEnding
  <2>1. /\ UNCHANGED <<timer, onEndRestart>> /\ msg.control = "NextEnding"
        /\ \/ raised' = raised \cup {msg.done} /\ UNCHANGED onEnd
           \/ onEnd' = onEnd \cup {msg.done} /\ UNCHANGED raised
    BY <1>3 DEF NextEnding, Handling, Reply
  <2>2. sent[msg.done] \in Message /\ sent[msg.done].control = "NextEnding"
    BY <1>1, <2>1, Ranges DEF CInv, AInv, InHand
  <2>3. sent[msg.done].prio = "High"
    BY <2>2 DEF Message, Control
  <2>4. CASE raised' = raised \cup {msg.done} /\ UNCHANGED onEnd
    BY <1>1, <2>1, <2>4, TaskOrder
  <2>5. CASE onEnd' = onEnd \cup {msg.done} /\ UNCHANGED raised
    <3>1. timer.kind # "none" => sent[timer.done].prio = "Normal"
      BY DEF CInv, InOrder
    <3> QED BY <1>1, <2>1, <2>3, <2>5, <3>1 DEF CInv, InOrder, Waiters, GoneIsDead
  <2> QED BY <2>1, <2>4, <2>5
<1>4. CASE GracefulStop \/ TryGracefulRestart
  <2>1. timer.kind = "none" /\ sent[msg.done].prio = "Normal"
    BY <1>1, <1>4, TimerIsNone DEF GracefulStop, AnyGracefulStop, TryGracefulRestart, Handling
  <2>2. CASE timer' = timer
    <3>1. /\ onEndRestart' = onEndRestart /\ raised' = raised \cup {msg.done}
          /\ UNCHANGED onEnd
      BY <1>1, <1>4, <2>1, <2>2 DEF GracefulStop, AnyGracefulStop, TryGracefulRestart, ArmTimer,
                                    Failed, Reply
    <3> QED BY <1>1, <2>2, <3>1, TaskOrder
  <2>3. CASE timer' # timer
    <3>1. /\ onEndRestart' \in {onEndRestart, msg.done} /\ raised' = raised
          /\ timer'.done = msg.done /\ timer'.kind # "none" /\ UNCHANGED onEnd
      BY <1>1, <1>4, <2>1, <2>3 DEF GracefulStop, AnyGracefulStop, TryGracefulRestart, ArmTimer,
                                    Failed, Reply
    <3> QED BY <1>1, <2>1, <3>1, TaskOrder
  <2> QED BY <2>2, <2>3
<1> QED BY <1>2, <1>3, <1>4 DEF Handle

LEMMA EndOrder ==
  ASSUME CInv, AInv', ChildEnds \/ Respawn \/ Exit
  PROVE  CInv'
<1>1. CASE ChildEnds
  <2>1. /\ pc \in {"poll", "select", "waitonly"} /\ pc' \in {"top", "respawn"}
        /\ timer'.kind = "none" /\ onEnd' = {} /\ UNCHANGED <<sent, queue, onEndRestart, gone>>
        /\ raised \subseteq raised' /\ (timer.kind # "none" => timer.done \in raised')
    BY <1>1 DEF ChildEnds, Waiting, NoTimer, EndFlags, clientVars
  <2> QED BY <2>1, TaskOrder DEF CInv, GoneIsDead
<1>2. CASE Respawn
  <2>1. /\ pc = "respawn" /\ pc' = "top" /\ UNCHANGED <<sent, queue, timer, onEnd, gone>>
        /\ onEndRestart' = 0 /\ raised \subseteq raised'
    BY <1>2 DEF Respawn, clientVars
  <2> QED BY <2>1, TaskOrder DEF CInv, GoneIsDead
<1>3. CASE Exit
  <2>1. /\ queue'["Normal"] = <<>> /\ pc = "exit" /\ pc' = "dead"
        /\ UNCHANGED <<sent, timer, onEnd, onEndRestart, raised>>
    BY <1>3 DEF Exit, Priority, clientVars, flagVars
  <2>2. Ascending(queue'["Normal"]) /\ \A t : Before(t, queue'["Normal"])
    BY <2>1 DEF Ascending, Before, Range
  <2> QED BY <2>1, <2>2 DEF CInv, InOrder, Waiters, GoneIsDead
<1> QED BY <1>1, <1>2, <1>3

LEMMA NextCInv == CInv /\ [Next]_vars => CInv'
<1> SUFFICES ASSUME CInv, [Next]_vars PROVE CInv'
  OBVIOUS
<1>1. AInv'
  BY NextAInv DEF CInv
<1> QED
  BY <1>1, ClientOrder, QuietOrder, ReceiveOrder, HandleOrder, EndOrder DEF Next

-----------------------------------------------------------------------------
(* What the contract sees of a step that sends nothing.                    *)
SeenUnchanged ==
  UNCHANGED <<Len(sent), OfPriority("Normal"), OfPriority("High"), OfPriority("Urgent"),
              LiveProcess, spawned, gone>>

LEMMA InitContract == Init => Contract!Init
BY DEF Init, Contract!Init, OfPriority, Unanswered, LiveProcess

(* A normal control in the task's hands, or in its timer, is the oldest.   *)
LEMMA OldestInHand ==
  ASSUME CInv, ~gone, NEW t \in OfPriority("Normal"),
         (pc = "handle" /\ t = msg.done) \/ (pc # "handle" /\ timer.kind # "none" /\ t = timer.done)
  PROVE  \A u \in OfPriority("Normal") : t <= u
<1> SUFFICES ASSUME NEW u \in OfPriority("Normal") PROVE t <= u
  OBVIOUS
<1>1. /\ u \in 1 .. Len(sent) /\ u \notin raised /\ sent[u].prio = "Normal"
      /\ t \in 1 .. Len(sent) /\ sent[t].prio = "Normal"
  BY DEF OfPriority, Unanswered
<1>2. Held(u)
  BY <1>1 DEF CInv, AInv, IInv, NoLostTicket
<1>3. u \notin onEnd
  BY <1>1 DEF CInv, Waiters
<1>4. CASE \E p \in Priority : u \in Range(queue[p])
  <2>1. u \in Range(queue["Normal"])
    BY <1>1, <1>4 DEF CInv, AInv, IInv, WellFormed
  <2>2. Before(t, queue["Normal"])
    BY <1>1 DEF CInv, InOrder
  <2> QED BY <1>1, <2>1, <2>2 DEF Before
<1>5. CASE u = t
  BY <1>1, <1>5
<1>6. CASE pc = "handle" /\ msg.done = t /\ timer.kind # "none" /\ timer.done = u
  BY <1>1, <1>6 DEF CInv, AInv, IInv, WellFormed
<1> QED
  BY <1>2, <1>3, <1>4, <1>5, <1>6 DEF Held

(* A step of the task is a step of the server, when the control it answers *)
(* is the one in its hands or its timer, and waiters wait no longer than   *)
(* the process.                                                            *)
LEMMA ServeStep ==
  ASSUME CInv, CInv', UNCHANGED <<sent, gone>>, ~gone,
         NEW t, NEW others \in SUBSET onEnd,
         raised' # raised =>
           \/ pc = "handle" /\ t = msg.done
           \/ pc # "handle" /\ timer.kind # "none" /\ t = timer.done
           \/ t \in raised \cup others,
         raised' \in {raised, raised \cup {t} \cup others},
         raised' # raised /\ (others # {} \/ sent[t].prio = "High") => alive' \cap alive = {},
         \/ UNCHANGED <<spawned, alive>> \/ (alive' = {} /\ UNCHANGED spawned)
         \/ spawned' = spawned + 1 /\ alive' = {spawned + 1}
  PROVE  Contract!Serve
<1>1. spawned \in Nat /\ alive \subseteq {spawned} /\ alive \subseteq 1 .. spawned
  BY Ranges DEF CInv
<1>2. Contract!Same \/ Contract!End \/ Contract!Begin \/ Contract!Replace
  <2>1. CASE UNCHANGED <<spawned, alive>>
    BY <2>1 DEF Contract!Same, LiveProcess
  <2>2. CASE alive' = {} /\ UNCHANGED spawned
    BY <2>2 DEF Contract!End, LiveProcess
  <2>3. CASE spawned' = spawned + 1 /\ alive' = {spawned + 1}
    BY <1>1, <2>3 DEF Contract!Begin, Contract!Replace, LiveProcess
  <2> QED BY <2>1, <2>2, <2>3
<1>3. CASE raised' = raised
  <2>1. UNCHANGED <<OfPriority("Normal"), OfPriority("High"), OfPriority("Urgent")>>
    BY <1>3 DEF OfPriority, Unanswered
  <2> QED BY <1>2, <2>1 DEF Contract!Serve
<1>4. CASE raised' = raised \cup {t} \cup others /\ raised' # raised
  <2>0. /\ t \in 1 .. Len(sent) /\ sent[t].prio \in Priority
        /\ \A o \in others : o \in 1 .. Len(sent) /\ sent[o].prio = "High"
    <3>1. \A o \in others : o \in 1 .. Len(sent) /\ sent[o].prio = "High"
      BY Ranges DEF CInv, Waiters
    <3>2. t \in 1 .. Len(sent)
      BY <1>4, <3>1, Ranges DEF CInv
    <3>3. sent[t] \in Message
      BY <3>2, Ranges DEF CInv
    <3>4. sent[t].prio \in Priority
      BY <3>3 DEF Message, Priority
    <3> QED BY <3>1, <3>2, <3>4
  <2>1. ASSUME NEW p \in Priority
        PROVE  OfPriority(p)' = OfPriority(p) \ ({t} \cup others)
    BY <1>4 DEF OfPriority, Unanswered
  <2>2. Contract!AnswerOldest \/ UNCHANGED OfPriority("Normal")
    <3>1. OfPriority("Normal")' = OfPriority("Normal") \ {t}
      BY <2>0, <2>1 DEF OfPriority, Priority
    <3>2. CASE t \in OfPriority("Normal")
      <4>1. \A u \in OfPriority("Normal") : t <= u
        BY <1>4, <2>0, <3>2, OldestInHand DEF OfPriority, Unanswered
      <4> QED BY <3>1, <3>2, <4>1 DEF Contract!AnswerOldest
    <3>3. CASE t \notin OfPriority("Normal")
      BY <3>1, <3>3
    <3> QED BY <3>2, <3>3
  <2>3. Contract!AnswerUrgent \/ UNCHANGED OfPriority("Urgent")
    <3>1. OfPriority("Urgent")' = OfPriority("Urgent") \ {t}
      BY <2>0, <2>1 DEF OfPriority, Priority
    <3> QED BY <3>1 DEF Contract!AnswerUrgent
  <2>4. Contract!AnswerWaits \/ UNCHANGED OfPriority("High")
    <3>1. CASE others = {} /\ sent[t].prio # "High"
      BY <2>0, <2>1, <3>1 DEF OfPriority, Priority
    <3>2. CASE others # {} \/ sent[t].prio = "High"
      <4>1. alive' \cap alive = {}
        BY <1>4, <3>2
      <4>2. LiveProcess' = LiveProcess => LiveProcess = 0
        BY <1>1, <4>1 DEF LiveProcess
      <4>3. OfPriority("High")' \subseteq OfPriority("High")
        BY <2>1 DEF Priority
      <4> QED BY <4>2, <4>3 DEF Contract!AnswerWaits
    <3> QED BY <3>1, <3>2
  <2> QED BY <1>2, <2>2, <2>3, <2>4 DEF Contract!Serve
<1> QED BY <1>3, <1>4

LEMMA ClientContract ==
  ASSUME CInv, CInv', NEW c \in Clients,
         (\E m \in Methods : Call(c, m)) \/ SendRest(c) \/ Drop(c)
  PROVE  Contract!Issue \/ SeenUnchanged
<1>1. ASSUME NEW m \in Message, Enqueue(m), Len(sent) < MaxTickets,
             UNCHANGED <<procVars, flagVars, gone>>
      PROVE  Contract!Issue
  <2> DEFINE n == Len(sent) + 1
  <2>1. /\ Len(sent') = n /\ sent'[n] = m /\ Len(sent) \in Nat
        /\ \A t \in 1 .. Len(sent) : sent'[t] = sent[t]
    BY <1>1, EnqueueStep, Ranges DEF CInv, AInv
  <2>2. raised' = raised /\ n \notin raised
    BY <1>1, Ranges DEF flagVars, CInv
  <2>3. ASSUME NEW p \in Priority
        PROVE  OfPriority(p)' = OfPriority(p) \cup (IF m.prio = p THEN {n} ELSE {})
    BY <2>1, <2>2 DEF OfPriority, Unanswered
  <2>4. UNCHANGED <<LiveProcess, spawned, gone>>
    BY <1>1 DEF procVars, LiveProcess
  <2>5. m.prio \in {"Normal", "High", "Urgent"}
    BY DEF Message
  <2>6. /\ OfPriority("Normal")' = OfPriority("Normal") \cup (IF m.prio = "Normal" THEN {n} ELSE {})
        /\ OfPriority("High")' = OfPriority("High") \cup (IF m.prio = "High" THEN {n} ELSE {})
        /\ OfPriority("Urgent")' = OfPriority("Urgent") \cup (IF m.prio = "Urgent" THEN {n} ELSE {})
    BY <2>3 DEF Priority
  <2>7. Len(sent)' = Len(sent) + 1
    BY <2>1
  <2> HIDE DEF n
  <2>8. n = Len(sent) + 1
    BY DEF n
  <2>9. CASE m.prio = "Normal"
    BY <2>4, <2>6, <2>7, <2>8, <2>9 DEF Contract!Issue
  <2>10. CASE m.prio = "High"
    BY <2>4, <2>6, <2>7, <2>8, <2>10 DEF Contract!Issue
  <2>11. CASE m.prio = "Urgent"
    BY <2>4, <2>6, <2>7, <2>8, <2>11 DEF Contract!Issue
  <2> QED BY <2>5, <2>9, <2>10, <2>11
<1>2. CASE \E m \in Methods : Call(c, m)
  <2>1. PICK m \in Methods : Call(c, m)
    BY <1>2
  <2>2. Len(Sends[m]) \in Nat \ {0} /\ Head(Sends[m]) \in Message
    BY SendsType, ConstantsAssumption
  <2>3. Len(sent) < MaxTickets
    BY <2>1, <2>2, BusyIsFinite, Ranges, ConstantsAssumption DEF Call, CInv
  <2> QED BY <1>1, <2>1, <2>2, <2>3 DEF Call
<1>3. CASE SendRest(c)
  <2>1. Head(todo[c]) \in Message
    BY <1>3 DEF SendRest, CInv, AInv, IInv, TypeOK
  <2> QED BY <1>1, <1>3, <2>1 DEF SendRest
<1>4. CASE Drop(c)
  BY <1>4 DEF Drop, SeenUnchanged, OfPriority, Unanswered, LiveProcess, procVars, flagVars
<1> QED BY <1>2, <1>3, <1>4

LEMMA QuietContract ==
  ASSUME TimerElapses \/ LoopTop \/ TimerFires \/ Await \/ QueueClosed \/ WaitFails
         \/ (\E p \in Priority : Receive(p)) \/ UNCHANGED vars
  PROVE  SeenUnchanged
<1>1. UNCHANGED <<sent, raised, spawned, alive, gone>>
  BY DEF TimerElapses, LoopTop, TimerFires, Await, QueueClosed, WaitFails, Receive, vars,
         clientVars, procVars, flagVars
<1> QED BY <1>1 DEF SeenUnchanged, OfPriority, Unanswered, LiveProcess

LEMMA ExitContract ==
  ASSUME CInv, CInv', (\E p \in 1 .. spawned : ProcessExits(p)) \/ Exit
  PROVE  Contract!Serve \/ Contract!Reap \/ Contract!Close
<1>1. CASE \E p \in 1 .. spawned : ProcessExits(p)
  <2>1. /\ UNCHANGED <<sent, raised, spawned, gone>> /\ alive # {} /\ alive' = {}
        /\ spawned \in Nat /\ alive \subseteq {spawned} /\ alive \subseteq 1 .. spawned
    BY <1>1, Ranges DEF ProcessExits, clientVars, flagVars, CInv
  <2>2. CASE ~gone
    BY <2>1, <2>2, ServeStep
  <2>3. CASE gone
    <3>1. UNCHANGED <<OfPriority("Normal"), OfPriority("High"), OfPriority("Urgent")>>
      BY <2>1 DEF OfPriority, Unanswered
    <3>2. LiveProcess # 0 /\ LiveProcess' = 0
      <4>1. spawned \in alive /\ spawned \in 1 .. spawned /\ spawned' \notin alive'
        BY <2>1
      <4>2. spawned # 0
        BY <2>1, <4>1
      <4> QED BY <4>1, <4>2 DEF LiveProcess
    <3>3. Contract!End
      BY <2>1, <3>2 DEF Contract!End
    <3>4. Len(sent)' = Len(sent) /\ gone' = gone
      BY <2>1
    <3> QED BY <2>3, <3>1, <3>2, <3>3, <3>4 DEF Contract!Reap
  <2> QED BY <2>2, <2>3
<1>2. CASE Exit
  BY <1>2 DEF Exit, Contract!Close, OfPriority, Unanswered, LiveProcess, clientVars, procVars,
              flagVars
<1> QED BY <1>1, <1>2

LEMMA HandleContract ==
  ASSUME CInv, CInv', Handle
  PROVE  Contract!Serve
<1>1. /\ pc = "handle" /\ UNCHANGED <<sent, gone>> /\ ~gone
      /\ (sent[msg.done].prio = "High" => msg.control = "NextEnding")
  BY DEF Handle, Handling, AnyStart, Start, Stop, AnyGracefulStop, GracefulStop, TryRestart,
         TryGracefulRestart, ContinueTryGracefulRestart, Signal, NextEnding, Func, Delete, Handled,
         clientVars, CInv, GoneIsDead, Waiters
<1>2. /\ spawned \in Nat /\ alive \subseteq {spawned} /\ alive \subseteq 1 .. spawned
      /\ alive \ {spawned} = {} /\ (cmd # "Running" => alive = {})
  BY Ranges DEF CInv
<1>3. ASSUME NEW others \in SUBSET onEnd, msg.control # "NextEnding",
             raised' \in {raised, raised \cup {msg.done} \cup others},
             others = {} \/ alive' \cap alive = {},
             \/ UNCHANGED <<spawned, alive>> \/ (alive' = {} /\ UNCHANGED spawned)
             \/ spawned' = spawned + 1 /\ alive' = {spawned + 1}
      PROVE  Contract!Serve
  BY <1>1, <1>3, ServeStep
<1>3a. ASSUME msg.control # "NextEnding", raised' \in {raised, raised \cup {msg.done}},
             \/ UNCHANGED <<spawned, alive>> \/ (alive' = {} /\ UNCHANGED spawned)
             \/ spawned' = spawned + 1 /\ alive' = {spawned + 1}
      PROVE  Contract!Serve
  <2>1. PICK others \in SUBSET onEnd : others = {}
    OBVIOUS
  <2>2. raised \cup {msg.done} \cup others = raised \cup {msg.done}
    BY <2>1
  <2> QED BY <1>3, <1>3a, <2>1, <2>2
<1>4. ASSUME KillFails, msg.control # "NextEnding" PROVE Contract!Serve
  <2>1. /\ raised' = raised \cup {msg.done} /\ spawned' = spawned
        /\ (alive' = alive \/ alive' = {})
    BY <1>2, <1>4 DEF KillFails, Failed, Reply
  <2> QED BY <1>4, <1>3a, <2>1
<1>5. CASE Start \/ Signal \/ Func \/ Delete \/ GracefulStop \/ TryGracefulRestart
  <2>1. /\ msg.control # "NextEnding" /\ raised' \in {raised, raised \cup {msg.done}}
        /\ \/ UNCHANGED <<spawned, alive>> \/ (alive' = {} /\ UNCHANGED spawned)
           \/ spawned' = spawned + 1 /\ alive' = {spawned + 1}
    BY <1>2, <1>5 DEF Start, AnyStart, Spawn, Signal, Func, Delete, GracefulStop, AnyGracefulStop,
                      TryGracefulRestart, Failed, Reply, procVars, Handling
  <2> QED BY <1>3a, <2>1
<1>6. CASE Stop
  <2>1. msg.control # "NextEnding"
    BY <1>6 DEF Stop, Handling
  <2>2. CASE KillFails
    BY <1>4, <2>1, <2>2
  <2>3. CASE cmd # "Running" /\ Reply({}) /\ UNCHANGED procVars
    BY <1>3a, <2>1, <2>3 DEF Reply, procVars
  <2>4. CASE alive' = alive \ {spawned} /\ Reply(onEnd) /\ UNCHANGED spawned
    BY <1>2, <1>3, <2>1, <2>4 DEF Reply
  <2> QED BY <1>6, <2>2, <2>3, <2>4 DEF Stop
<1>7. CASE TryRestart \/ ContinueTryGracefulRestart
  <2>1. msg.control # "NextEnding"
    BY <1>7 DEF TryRestart, ContinueTryGracefulRestart, Handling
  <2>2. CASE KillFails
    BY <1>4, <2>1, <2>2
  <2>3. CASE Reply({}) /\ UNCHANGED procVars
    BY <1>3a, <2>1, <2>3 DEF Reply, procVars
  <2>4. CASE Spawn({}, msg.done) /\ (Reply(onEnd) \/ Reply({}))
    <3>1. \/ alive' = {} /\ UNCHANGED spawned
          \/ spawned' = spawned + 1 /\ alive' = {spawned + 1}
      BY <2>4 DEF Spawn
    <3>2. alive' \cap alive = {}
      BY <1>2, <3>1
    <3> QED BY <1>3, <2>1, <2>4, <3>1, <3>2 DEF Reply
  <2> QED BY <1>2, <1>7, <2>2, <2>3, <2>4 DEF TryRestart, ContinueTryGracefulRestart
<1>8. CASE NextEnding
  <2>1. /\ UNCHANGED <<spawned, alive>>
        /\ \/ alive = {} /\ raised' = raised \cup {msg.done} \cup {}
           \/ raised' = raised
    BY <1>2, <1>8 DEF NextEnding, Reply, procVars
  <2> QED BY <1>1, <2>1, ServeStep
<1> QED BY <1>5, <1>6, <1>7, <1>8 DEF Handle

LEMMA EndContract ==
  ASSUME CInv, CInv', ChildEnds \/ Respawn
  PROVE  Contract!Serve
<1>1. spawned \in Nat /\ alive \subseteq {spawned} /\ (cmd # "Running" => alive = {})
  BY Ranges DEF CInv
<1>2. CASE ChildEnds
  <2>1. /\ UNCHANGED <<sent, gone, spawned, alive>> /\ alive = {} /\ ~gone /\ pc # "handle"
        /\ raised' = raised \cup onEnd \cup (IF timer.kind = "none" THEN {} ELSE {timer.done})
    BY <1>1, <1>2 DEF ChildEnds, Waiting, EndFlags, clientVars, CInv, GoneIsDead
  <2>2. CASE timer.kind # "none"
    BY <2>1, <2>2, ServeStep
  <2>3. CASE timer.kind = "none" /\ onEnd = {}
    BY <2>1, <2>3, ServeStep
  <2>4. CASE timer.kind = "none" /\ onEnd # {}
    <3>1. PICK t \in onEnd : TRUE
      BY <2>4
    <3>2. raised' = raised \cup {t} \cup onEnd
      BY <2>1, <2>4, <3>1
    <3> QED BY <2>1, <3>1, <3>2, ServeStep
  <2> QED BY <2>2, <2>3, <2>4
<1>3. CASE Respawn
  <2>1. /\ UNCHANGED <<sent, gone>> /\ pc = "respawn" /\ ~gone /\ alive = {}
        /\ raised' \in {raised, raised \cup {onEndRestart}}
        /\ onEndRestart # 0 /\ sent[onEndRestart].prio = "Normal"
    BY <1>3, ConstantsAssumption DEF Respawn, clientVars, CInv, GoneIsDead, Waiters, AInv, IInv,
                                     WellFormed, NoOverlap, Tickets
  <2>2. \/ alive' = {} /\ UNCHANGED spawned
        \/ spawned' = spawned + 1 /\ alive' = {spawned + 1}
    BY <1>3, <2>1 DEF Respawn, Spawn
  <2>3. onEndRestart \in raised \/ (timer.kind # "none" /\ timer.done = onEndRestart)
    BY <2>1 DEF CInv, Waiters
  <2>4. PICK others \in SUBSET onEnd : others = {}
    OBVIOUS
  <2>5. raised \cup {onEndRestart} \cup others = raised \cup {onEndRestart}
    BY <2>4
  <2> QED BY <2>1, <2>2, <2>3, <2>4, <2>5, ServeStep
<1> QED BY <1>2, <1>3

(* The job task implements the contract: normal controls are answered one  *)
(* at a time and oldest first, waiters only when their process is over,    *)
(* and at most one process lives (job/task.rs, job/priority.rs).           *)
THEOREM ImplementsContractTheorem == Spec => ImplementsContract
<1>1. CInv /\ CInv' /\ [Next]_vars => [Contract!Next]_(Contract!vars)
  <2> SUFFICES ASSUME CInv, CInv', [Next]_vars PROVE Contract!Next \/ SeenUnchanged
    BY DEF SeenUnchanged, Contract!vars
  <2> QED
    BY ClientContract, QuietContract, ExitContract, HandleContract, EndContract
    DEF Next, Contract!Next
<1> QED
  BY <1>1, InitCInv, NextCInv, InitContract, PTL DEF Spec, ImplementsContract, Contract!Spec
-----------------------------------------------------------------------------
(***************************************************************************)
(* Tickets: no wake-up is lost, for any number of tasks and controls.      *)
(*                                                                         *)
(* The invariant says what a task carries away from a poll: once it has    *)
(* registered with a flag that it alone awaits, either it still owns the   *)
(* waker slot or it has been woken since; and once it has passed its       *)
(* second look at that flag, a raise that completed has woken it.          *)
(***************************************************************************)
(* Task w has passed its second look at f in its current poll.             *)
Passed(w, f) ==
  \/ inPoll[w] = "asleep"
  \/ f = "gone" /\ at[w] # "gone" /\ inPoll[w] # "ready"

Registered(w, f) == Passed(w, f) \/ (at[w] = f /\ inPoll[w] = "recheck")

Watched ==
  \A w \in Tasks : \A f \in Of(w) :
    Sole(f) => /\ Registered(w, f) => w \in waker[f] \cup woken
               /\ Passed(w, f) /\ f \in set \ raising => w \in woken

FlagInv == FlagTypes /\ Watched

LEMMA OfIsFlags == ASSUME FlagTypes, NEW w \in Tasks PROVE Of(w) \subseteq Flags
BY DEF FlagTypes, Of, Flags

LEMMA FlagInitInv == FlagInit => FlagInv
BY DEF FlagInit, FlagInv, FlagTypes, Watched, Registered, Passed, Of, Flags

(* A step of task v leaves every other task as it was.                     *)
LEMMA PollStep ==
  ASSUME FlagInv, NEW v \in Tasks, Poll(v)
  PROVE  FlagInv'
<1>1. FlagTypes'
  BY ControlsAreNotGone
  DEF FlagInv, FlagTypes, Poll, Check, Register, Recheck, AnyRecheck, Repoll, FlagReady, FlagPending,
      Of, Flags
<1>2. ASSUME NEW w \in Tasks, NEW f \in Of(w), Sole(f)
      PROVE  /\ (Registered(w, f) => w \in waker[f] \cup woken)'
             /\ (Passed(w, f) /\ f \in set \ raising => w \in woken)'
  <2>1. CASE Check(v)
    BY <1>2, <2>1, ControlsAreNotGone
    DEF FlagInv, FlagTypes, Watched, Registered, Passed, Check, FlagReady, Of, Flags
  <2>2. CASE Register(v)
    BY <1>2, <2>2, OfIsFlags
    DEF FlagInv, FlagTypes, Watched, Registered, Passed, Register, Sole, Of, Flags
  <2>3. CASE Recheck(v)
    BY <1>2, <2>3, ControlsAreNotGone
    DEF FlagInv, FlagTypes, Watched, Registered, Passed, Recheck, AnyRecheck, FlagReady, FlagPending,
        Of, Flags
  <2>4. CASE Repoll(v)
    BY <1>2, <2>4 DEF FlagInv, FlagTypes, Watched, Registered, Passed, Repoll, Of, Flags
  <2> QED BY <2>1, <2>2, <2>3, <2>4 DEF Poll
<1>3. awaits' = awaits
  BY DEF Poll, Check, Register, Recheck, AnyRecheck, Repoll
<1> QED BY <1>1, <1>2, <1>3 DEF FlagInv, Watched, Sole, Of

LEMMA RaiseStep ==
  ASSUME FlagInv, NEW f \in Flags, Raise(f) \/ Wake(f)
  PROVE  FlagInv'
<1>1. FlagTypes'
  BY DEF FlagInv, FlagTypes, Raise, AnyRaise, Wake, Of
<1>2. UNCHANGED <<awaits, inPoll, at>>
  BY DEF Raise, AnyRaise, Wake
<1>3. ASSUME NEW w \in Tasks, NEW g \in Of(w), Sole(g)
      PROVE  /\ (Registered(w, g) => w \in waker[g] \cup woken)'
             /\ (Passed(w, g) /\ g \in set \ raising => w \in woken)'
  <2>1. /\ Registered(w, g) => w \in waker[g] \cup woken
        /\ Passed(w, g) /\ g \in set \ raising => w \in woken
        /\ Passed(w, g) => Registered(w, g)
    BY <1>3 DEF FlagInv, Watched, Registered
  <2>2. (Registered(w, g) <=> Registered(w, g)') /\ (Passed(w, g) <=> Passed(w, g)')
    BY <1>2 DEF Registered, Passed
  <2>3. CASE Raise(f)
    BY <2>1, <2>2, <2>3 DEF Raise, AnyRaise
  <2>4. CASE Wake(f)
    <3>1. g \in Flags /\ waker \in [Flags -> SUBSET Tasks]
      BY <1>3, OfIsFlags DEF FlagInv, FlagTypes
    <3> QED BY <2>1, <2>2, <2>4, <3>1 DEF Wake
  <2> QED BY <2>3, <2>4
<1> QED BY <1>1, <1>2, <1>3 DEF FlagInv, Watched, Sole, Of

LEMMA FlagNextInv == FlagInv /\ [FlagNext]_ticketVars => FlagInv'
<1>1. CASE UNCHANGED ticketVars
  BY <1>1 DEF FlagInv, FlagTypes, Watched, Registered, Passed, Sole, Of, ticketVars
<1> QED BY <1>1, PollStep, RaiseStep DEF FlagNext

(* Once raise() has returned, the task that alone awaits the flag is awake *)
(* or will be polled: Flag::poll (flag.rs:55-70) loses no wake-up.         *)
THEOREM NoLostWakeupTheorem == FlagSpec => []NoLostWakeup
<1>1. FlagSpec => []FlagInv
  BY FlagInitInv, FlagNextInv, PTL DEF FlagSpec
<1>2. FlagInv => NoLostWakeup
  BY DEF FlagInv, Watched, NoLostWakeup, Passed
<1> QED BY <1>1, <1>2, PTL
=============================================================================
