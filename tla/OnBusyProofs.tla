---------------------------- MODULE OnBusyProofs -----------------------------
(***************************************************************************)
(* A theorem about the action handler of the watchexec command: whatever   *)
(* the mode and the settings, and whatever controls other senders put      *)
(* between, no change is forgotten.                                        *)
(*                                                                         *)
(* A sender's controls and those in the queue before them are one path to  *)
(* the job, on which sending moves nothing.  A change that has not been    *)
(* settled is on such a path as a question, or as a start that finds the   *)
(* command stopped, because it is or because a stop is before it on the    *)
(* path (Comes); or the queued restart has still to begin, or its start is *)
(* on its path.  That the queued restart is not taken for done too early   *)
(* rests on there being one setup of it at a time (Once).                  *)
(***************************************************************************)
EXTENDS OnBusy, SequenceTheorems, TLAPS

Dos == {"start", "stop", "graceful", "signal", "delete", "query", "setup", "end"}
Control == [do : Dos, by : Nat]
QueuerStates == {"none", "ask", "await", "run", "reset"}
WatcherStates == {"ask", "await", "halting", "ended", "stopping", "ending", "told", "done"}
StartNow  == Item("start", Nobody)
StartLate == Item("start", Queuer)
SetupLate == Item("setup", Queuer)

Comes(p, free) ==
  \E i \in 1 .. Len(p) :
    p[i] = StartNow /\ (free \/ \E j \in 1 .. i - 1 : p[j].do \in {"stop", "graceful"})
Has(p, item) == \E i \in 1 .. Len(p) : p[i] = item
Once(p) == \A i, j \in 1 .. Len(p) : p[i] = SetupLate /\ p[j] = SetupLate => i = j

(* Change n is on its way, when q is the queue and h, j and t are what the *)
(* handler, the job and the queued restart are about to send.              *)
Way(n, q, h, j, t, waiter, free) ==
  \/ Has(q \o h, Item("query", n))
  \/ waiter \in {"ask", "await"}
  \/ Has(q \o t, StartLate)
  \/ Comes(q \o h, free) \/ Comes(q \o j, free)

WayInv ==
  \A n \in 1 .. asked :
    \/ Settled(n)
    \/ Way(n, queue, todo["handler"], todo["job"], todo["queuer"], queuer, Idle \/ grace)

(* The flag is set as long as the queued restart has something to do, and  *)
(* its setup, of which there is one, ends that.                            *)
Flagged(flag, waiter, q, t) ==
  /\ flag <=> waiter # "none"
  /\ Has(q \o t, SetupLate) => waiter = "run"
  /\ Once(q \o t)
  /\ t \in {<<>>, StartAndSetup(Queuer), <<SetupLate>>}

FlagInv ==
  /\ Flagged(queued, queuer, queue, todo["queuer"])
  /\ ~Has(todo["handler"], SetupLate) /\ ~Has(todo["job"], SetupLate)

Typed ==
  /\ asked \in Nat /\ tried \in Nat
  /\ queue \in Seq(Control) /\ todo \in [Senders -> Seq(Control)]
  /\ watchers \in Seq(WatcherStates) /\ queuer \in QueuerStates

BusyInv == Typed /\ FlagInv /\ WayInv

-----------------------------------------------------------------------------
(* Paths.                                                                  *)
Joined(p, a, b, m, n) ==
  /\ p \in Seq(Control) /\ Len(p) = m + n
  /\ \A i \in 1 .. m + n : p[i] = IF i <= m THEN a[i] ELSE b[i - m]

LEMMA Joins ==
  ASSUME NEW a \in Seq(Control), NEW b \in Seq(Control), NEW m \in Nat, NEW n \in Nat,
         m = Len(a), n = Len(b)
  PROVE  Joined(a \o b, a, b, m, n)
BY ConcatProperties DEF Joined

(* A control that is put between others stops no start.                    *)
Opened(p, q, x, m, n) ==
  /\ p \in Seq(Control) /\ Len(p) = m + n
  /\ q \in Seq(Control) /\ Len(q) = m + 1 + n
  /\ \A i \in 1 .. m : q[i] = p[i]
  /\ \A i \in m + 1 .. m + n : q[i + 1] = p[i]
  /\ q[m + 1] = x

LEMMA Between ==
  ASSUME NEW a \in Seq(Control), NEW b \in Seq(Control), NEW x \in Control,
         NEW m \in Nat, NEW n \in Nat, m = Len(a), n = Len(b)
  PROVE  Opened(a \o b, Append(a, x) \o b, x, m, n)
<1>1. /\ Append(a, x) \in Seq(Control) /\ Len(Append(a, x)) = m + 1
      /\ \A i \in 1 .. m : Append(a, x)[i] = a[i]
      /\ Append(a, x)[m + 1] = x
  BY AppendProperties
<1>2. /\ a \o b \in Seq(Control) /\ Len(a \o b) = m + n
      /\ \A i \in 1 .. m + n : (a \o b)[i] = IF i <= m THEN a[i] ELSE b[i - m]
  BY Joins DEF Joined
<1> DEFINE c == Append(a, x)
<1>3. c \in Seq(Control) /\ Len(c) = m + 1 /\ (\A i \in 1 .. m : c[i] = a[i]) /\ c[m + 1] = x
  BY <1>1
<1> HIDE DEF c
<1>4. /\ c \o b \in Seq(Control) /\ Len(c \o b) = m + 1 + n
      /\ \A i \in 1 .. m + 1 + n : (c \o b)[i] = IF i <= m + 1 THEN c[i] ELSE b[i - (m + 1)]
  <2>1. PICK k \in Nat : k = m + 1
    OBVIOUS
  <2>2. Joined(c \o b, c, b, k, n)
    <3>1. k = Len(c)
      BY <1>3, <2>1
    <3> QED BY <1>3, <3>1, Joins
  <2> QED BY <2>1, <2>2, Zenon DEF Joined
<1>5. \A i \in 1 .. m : (c \o b)[i] = (a \o b)[i]
  BY <1>2, <1>3, <1>4
<1>6. \A i \in m + 1 .. m + n : (c \o b)[i + 1] = (a \o b)[i]
  <2>1. \A i \in m + 1 .. m + n : /\ i \in 1 .. m + n /\ i + 1 \in 1 .. m + 1 + n
                                  /\ ~(i <= m) /\ ~(i + 1 <= m + 1) /\ i + 1 - (m + 1) = i - m
    OBVIOUS
  <2> QED BY <1>2, <1>4, <2>1
<1>7. (c \o b)[m + 1] = x
  BY <1>3, <1>4
<1> QED BY <1>2, <1>4, <1>5, <1>6, <1>7, Zenon DEF c, Opened

(* A path that another embeds, in order, has all that comes on it.         *)
Into(p, q) ==
  \E h \in [1 .. Len(p) -> 1 .. Len(q)] :
    /\ \A i \in 1 .. Len(p) : q[h[i]] = p[i]
    /\ \A i, j \in 1 .. Len(p) : j < i => h[j] < h[i]

LEMMA IntoKeeps ==
  ASSUME NEW p \in Seq(Control), NEW q \in Seq(Control), Into(p, q)
  PROVE  /\ \A item : Has(p, item) => Has(q, item)
         /\ \A free : Comes(p, free) => Comes(q, free)
<1>1. PICK h \in [1 .. Len(p) -> 1 .. Len(q)] :
        /\ \A i \in 1 .. Len(p) : q[h[i]] = p[i]
        /\ \A i, j \in 1 .. Len(p) : j < i => h[j] < h[i]
  BY DEF Into
<1>2. \A item : Has(p, item) => Has(q, item)
  BY <1>1 DEF Has
<1>3. ASSUME NEW free, Comes(p, free) PROVE Comes(q, free)
  <2>1. PICK i \in 1 .. Len(p) :
          p[i] = StartNow /\ (free \/ \E j \in 1 .. i - 1 : p[j].do \in {"stop", "graceful"})
    BY <1>3 DEF Comes
  <2>2. h[i] \in 1 .. Len(q) /\ q[h[i]] = StartNow
    BY <1>1, <2>1
  <2>3. CASE free
    BY <2>2, <2>3 DEF Comes
  <2>4. ASSUME NEW j \in 1 .. i - 1, p[j].do \in {"stop", "graceful"} PROVE Comes(q, free)
    <3>1. j \in 1 .. Len(p) /\ j < i
      BY <2>1
    <3>2. h[j] \in 1 .. Len(q) /\ h[j] < h[i] /\ q[h[j]] = p[j]
      BY <1>1, <3>1
    <3>3. h[j] \in 1 .. h[i] - 1
      BY <2>2, <3>2
    <3> QED BY <2>2, <2>4, <3>2, <3>3 DEF Comes
  <2> QED BY <2>1, <2>3, <2>4
<1> QED BY <1>2, <1>3

LEMMA InsertKeeps ==
  ASSUME NEW a \in Seq(Control), NEW b \in Seq(Control), NEW x \in Control
  PROVE  /\ Append(a, x) \o b \in Seq(Control)
         /\ \A item : Has(a \o b, item) => Has(Append(a, x) \o b, item)
         /\ \A free : Comes(a \o b, free) => Comes(Append(a, x) \o b, free)
         /\ \A item : Has(Append(a, x) \o b, item) => item = x \/ Has(a \o b, item)
         /\ Once(a \o b) /\ x # SetupLate => Once(Append(a, x) \o b)
<1>1. PICK m \in Nat, n \in Nat : m = Len(a) /\ n = Len(b)
  OBVIOUS
<1> DEFINE p == a \o b
           q == Append(a, x) \o b
<1>2. Opened(p, q, x, m, n)
  BY <1>1, Between
<1> HIDE DEF p, q
<1> USE DEF Opened
<1>3. Into(p, q)
  <2> DEFINE h == [i \in 1 .. m + n |-> IF i <= m THEN i ELSE i + 1]
  <2>1. h \in [1 .. m + n -> 1 .. m + 1 + n]
    OBVIOUS
  <2>2. ASSUME NEW i \in 1 .. m + n PROVE q[h[i]] = p[i]
    <3>1. CASE i <= m
      BY <1>2, <3>1
    <3>2. CASE ~(i <= m)
      <4>1. i \in m + 1 .. m + n /\ h[i] = i + 1
        BY <3>2
      <4> QED BY <1>2, <4>1
    <3> QED BY <3>1, <3>2
  <2>3. \A i, j \in 1 .. m + n : j < i => h[j] < h[i]
    OBVIOUS
  <2> HIDE DEF h
  <2> QED BY <1>2, <2>1, <2>2, <2>3 DEF Into
<1>4. ASSUME NEW i \in 1 .. m + 1 + n, i # m + 1
      PROVE  \E k \in 1 .. m + n : q[i] = p[k] /\ k = IF i <= m THEN i ELSE i - 1
  <2>1. CASE i <= m
    BY <1>2, <2>1
  <2>2. CASE ~(i <= m)
    <3>1. i - 1 \in m + 1 .. m + n /\ i - 1 + 1 = i /\ i - 1 \in 1 .. m + n
      BY <1>4, <2>2
    <3>2. q[i - 1 + 1] = p[i - 1]
      BY <1>2, <3>1
    <3> QED BY <2>2, <3>1, <3>2
  <2> QED BY <2>1, <2>2
<1>5. ASSUME NEW item, Has(q, item) PROVE item = x \/ Has(p, item)
  BY <1>2, <1>4, <1>5 DEF Has
<1>6. ASSUME Once(p), x # SetupLate PROVE Once(q)
  <2>1. SUFFICES ASSUME NEW i \in 1 .. m + 1 + n, NEW j \in 1 .. m + 1 + n,
                        q[i] = SetupLate, q[j] = SetupLate
                 PROVE  i = j
    BY <1>2 DEF Once
  <2>2. i # m + 1 /\ j # m + 1
    BY <1>2, <1>6, <2>1
  <2>3. PICK k \in 1 .. m + n : q[i] = p[k] /\ k = IF i <= m THEN i ELSE i - 1
    BY <1>4, <2>2
  <2>4. PICK l \in 1 .. m + n : q[j] = p[l] /\ l = IF j <= m THEN j ELSE j - 1
    BY <1>4, <2>2
  <2>5. k = l
    BY <1>2, <1>6, <2>1, <2>3, <2>4 DEF Once
  <2> QED BY <2>2, <2>3, <2>4, <2>5
<1> QED BY <1>2, <1>3, <1>5, <1>6, IntoKeeps DEF p, q

(* Sending moves nothing on the sender's own path.                         *)
LEMMA SendStays ==
  ASSUME NEW q \in Seq(Control), NEW t \in Seq(Control), t # <<>>
  PROVE  Append(q, Head(t)) \o Tail(t) = q \o t
<1>1. PICK m \in Nat, n \in Nat : m = Len(q) /\ n = Len(t) /\ n # 0
  BY EmptySeq
<1>2. /\ Head(t) \in Control /\ Tail(t) \in Seq(Control) /\ Len(Tail(t)) = n - 1
      /\ Head(t) = t[1] /\ \A i \in 1 .. n - 1 : Tail(t)[i] = t[i + 1]
  BY <1>1, HeadTailProperties
<1>3. PICK h \in Control, r \in Seq(Control) : h = Head(t) /\ r = Tail(t)
  BY <1>2
<1>4. PICK k \in Nat : k = n - 1 /\ k = Len(r) /\ n = k + 1
  BY <1>1, <1>2, <1>3
<1> DEFINE c == Append(q, h)
<1>5. c \in Seq(Control) /\ Len(c) = m + 1 /\ (\A i \in 1 .. m : c[i] = q[i]) /\ c[m + 1] = h
  BY <1>1, AppendProperties
<1> HIDE DEF c
<1>6. /\ c \o r \in Seq(Control) /\ Len(c \o r) = m + 1 + k
      /\ \A i \in 1 .. m + 1 + k : (c \o r)[i] = IF i <= m + 1 THEN c[i] ELSE r[i - (m + 1)]
  <2>1. PICK l \in Nat : l = m + 1
    OBVIOUS
  <2>2. Joined(c \o r, c, r, l, k)
    <3>1. l = Len(c) /\ k = Len(r)
      BY <1>4, <1>5, <2>1
    <3> QED BY <1>3, <1>5, <3>1, Joins
  <2> QED BY <2>1, <2>2, Zenon DEF Joined
<1>7. /\ q \o t \in Seq(Control) /\ Len(q \o t) = m + 1 + k
      /\ \A i \in 1 .. m + 1 + k : (q \o t)[i] = IF i <= m THEN q[i] ELSE t[i - m]
  <2>1. /\ q \o t \in Seq(Control) /\ Len(q \o t) = m + n
        /\ \A i \in 1 .. m + n : (q \o t)[i] = IF i <= m THEN q[i] ELSE t[i - m]
    BY <1>1, Joins DEF Joined
  <2>2. m + n = m + 1 + k
    BY <1>4
  <2> QED BY <2>1, <2>2
<1>8. ASSUME NEW i \in 1 .. m + 1 + k PROVE (c \o r)[i] = (q \o t)[i]
  <2>1. CASE i <= m
    BY <1>5, <1>6, <1>7, <2>1
  <2>2. CASE i = m + 1
    <3>1. (c \o r)[i] = h
      BY <1>5, <1>6, <2>2
    <3>2. (q \o t)[i] = t[i - m] /\ i - m = 1
      BY <1>7, <2>2
    <3> QED BY <1>2, <1>3, <3>1, <3>2
  <2>3. CASE i > m + 1
    <3>1. PICK l \in 1 .. k : l = i - (m + 1) /\ l + 1 = i - m
      BY <2>3
    <3>2. ~(i <= m + 1) /\ ~(i <= m)
      BY <2>3
    <3>3. (c \o r)[i] = r[l]
      BY <1>6, <3>1, <3>2
    <3>4. (q \o t)[i] = t[l + 1]
      BY <1>7, <3>1, <3>2
    <3>5. r[l] = t[l + 1]
      BY <1>2, <1>3, <1>4, <3>1
    <3> QED BY <3>3, <3>4, <3>5, Zenon
  <2>4. i <= m \/ i = m + 1 \/ i > m + 1
    OBVIOUS
  <2> QED BY <2>1, <2>2, <2>3, <2>4, Zenon
<1>9. c \o r = q \o t
  BY <1>6, <1>7, <1>8, SeqEqual
<1> QED BY <1>3, <1>9 DEF c

(* Controls that are put behind the others stop no start either.           *)
LEMMA HasJoined ==
  ASSUME NEW q \in Seq(Control), NEW t \in Seq(Control), NEW item
  PROVE  Has(q \o t, item) <=> Has(q, item) \/ Has(t, item)
<1>1. PICK m \in Nat, n \in Nat : m = Len(q) /\ n = Len(t)
  OBVIOUS
<1>2. PICK p : p = q \o t
  OBVIOUS
<1>3. Joined(p, q, t, m, n)
  BY <1>1, <1>2, Joins
<1>4. ASSUME NEW i \in 1 .. m + n, p[i] = item PROVE Has(q, item) \/ Has(t, item)
  <2>1. CASE i <= m
    <3>1. i \in 1 .. m /\ p[i] = q[i]
      BY <1>3, <2>1 DEF Joined
    <3> QED BY <1>1, <1>4, <3>1 DEF Has
  <2>2. CASE ~(i <= m)
    <3>1. i - m \in 1 .. n /\ p[i] = t[i - m]
      BY <1>3, <2>2 DEF Joined
    <3> QED BY <1>1, <1>4, <3>1 DEF Has
  <2> QED BY <2>1, <2>2
<1>5. ASSUME NEW i \in 1 .. m, q[i] = item PROVE Has(p, item)
  <2>1. i \in 1 .. m + n /\ p[i] = q[i]
    BY <1>3 DEF Joined
  <2> QED BY <1>3, <1>5, <2>1 DEF Has, Joined
<1>6. ASSUME NEW i \in 1 .. n, t[i] = item PROVE Has(p, item)
  <2>1. m + i \in 1 .. m + n /\ m + i - m = i /\ ~(m + i <= m)
    OBVIOUS
  <2>2. p[m + i] = t[i]
    BY <1>3, <2>1 DEF Joined
  <2> QED BY <1>3, <1>6, <2>1, <2>2 DEF Has, Joined
<1>7. Has(p, item) => Has(q, item) \/ Has(t, item)
  BY <1>3, <1>4 DEF Has, Joined
<1>8. Has(q, item) \/ Has(t, item) => Has(p, item)
  BY <1>1, <1>5, <1>6 DEF Has
<1> QED BY <1>2, <1>7, <1>8

LEMMA AddKeeps ==
  ASSUME NEW q \in Seq(Control), NEW t \in Seq(Control)
  PROVE  /\ \A item : Has(q, item) => Has(q \o t, item)
         /\ \A free : Comes(q, free) => Comes(q \o t, free)
<1>1. PICK m \in Nat, n \in Nat : m = Len(q) /\ n = Len(t)
  OBVIOUS
<1>2. PICK p : p = q \o t
  OBVIOUS
<1>3. Joined(p, q, t, m, n)
  BY <1>1, <1>2, Joins
<1>4. Into(q, p)
  <2> DEFINE h == [i \in 1 .. m |-> i]
  <2>1. h \in [1 .. m -> 1 .. m + n]
    OBVIOUS
  <2>2. \A i \in 1 .. m : p[h[i]] = q[i]
    BY <1>3 DEF Joined
  <2>3. \A i, j \in 1 .. m : j < i => h[j] < h[i]
    OBVIOUS
  <2> HIDE DEF h
  <2> QED BY <1>1, <1>3, <2>1, <2>2, <2>3 DEF Into, Joined
<1> QED BY <1>2, <1>3, <1>4, IntoKeeps DEF Joined

LEMMA ItemIs ==
  ASSUME NEW do \in Dos, NEW by \in Nat
  PROVE  Item(do, by) \in Control /\ Item(do, by).do = do /\ Item(do, by).by = by
BY DEF Item, Control

(* What is sent in order to start.                                         *)
LEMMA StartComes ==
  ASSUME NEW q \in Seq(Control)
  PROVE  /\ StartAndSetup(Nobody) \in Seq(Control) /\ RestartAndSetup \in Seq(Control)
         /\ Comes(q \o StartAndSetup(Nobody), TRUE)
         /\ Comes(q \o RestartAndSetup, FALSE)
<1>1. PICK a \in Control, b \in Control, c \in Control :
        /\ a = StartNow /\ b = Item("setup", Nobody) /\ c = Item(StopControl, Nobody)
        /\ c.do \in {"stop", "graceful"}
  <2>1. Nobody \in Nat /\ StopControl \in {"stop", "graceful"}
    BY DEF Nobody, StopControl
  <2>2. "start" \in Dos /\ "setup" \in Dos /\ StopControl \in Dos
    BY <2>1 DEF Dos
  <2>3. StartNow \in Control /\ Item("setup", Nobody) \in Control
    BY <2>1, <2>2, ItemIs DEF StartNow
  <2>4. Item(StopControl, Nobody) \in Control /\ Item(StopControl, Nobody).do = StopControl
    BY <2>1, <2>2, ItemIs
  <2> QED BY <2>1, <2>3, <2>4
<1>2. StartAndSetup(Nobody) = <<a, b>>
  BY <1>1, Zenon DEF StartAndSetup, StartNow
<1>3. StartAndSetup(Nobody) \in Seq(Control) /\ Len(StartAndSetup(Nobody)) = 2
      /\ StartAndSetup(Nobody)[1] = StartNow
  BY <1>1, <1>2
<1>4. /\ RestartAndSetup \in Seq(Control) /\ Len(RestartAndSetup) = 3
      /\ RestartAndSetup[1].do \in {"stop", "graceful"} /\ RestartAndSetup[2] = StartNow
  <2>1. PICK l, r, t : l = <<c>> /\ r = <<a, b>> /\ t = l \o r
    OBVIOUS
  <2>2. l \in Seq(Control) /\ r \in Seq(Control) /\ Len(l) = 1 /\ Len(r) = 2
        /\ l[1] = c /\ r[1] = a
    BY <2>1
  <2>3. Joined(t, l, r, 1, 2)
    BY <2>1, <2>2, Joins
  <2>4. t \in Seq(Control) /\ Len(t) = 3 /\ t[1] = c /\ t[2] = a
    BY <2>2, <2>3 DEF Joined
  <2>5. t = RestartAndSetup
    BY <1>1, <1>2, <2>1, Zenon DEF RestartAndSetup
  <2> QED BY <1>1, <2>4, <2>5, Zenon
<1>5. PICK m \in Nat : m = Len(q)
  OBVIOUS
<1>6. Comes(q \o StartAndSetup(Nobody), TRUE)
  <2>1. PICK p, t : p = q \o t /\ t = StartAndSetup(Nobody)
    OBVIOUS
  <2>2. Joined(p, q, t, m, 2)
    BY <1>3, <1>5, <2>1, Joins
  <2>3. m + 1 \in 1 .. m + 2 /\ ~(m + 1 <= m) /\ m + 1 - m = 1
    OBVIOUS
  <2>4. p[m + 1] = StartNow /\ Len(p) = m + 2
    BY <1>3, <2>1, <2>2, <2>3 DEF Joined
  <2>5. Comes(p, TRUE)
    BY <2>3, <2>4 DEF Comes
  <2> QED BY <2>1, <2>5
<1>7. Comes(q \o RestartAndSetup, FALSE)
  <2>1. PICK p, t : p = q \o t /\ t = RestartAndSetup
    OBVIOUS
  <2>2. Joined(p, q, t, m, 3)
    BY <1>4, <1>5, <2>1, Joins
  <2>3. m + 1 \in 1 .. m + 3 /\ ~(m + 1 <= m) /\ m + 1 - m = 1
        /\ m + 2 \in 1 .. m + 3 /\ ~(m + 2 <= m) /\ m + 2 - m = 2 /\ m + 1 \in 1 .. m + 2 - 1
    OBVIOUS
  <2>4. p[m + 1] = t[1] /\ p[m + 2] = t[2] /\ Len(p) = m + 3
    BY <2>2, <2>3 DEF Joined
  <2>5. Comes(p, FALSE)
    BY <1>4, <2>1, <2>3, <2>4 DEF Comes
  <2> QED BY <2>1, <2>5
<1> QED BY <1>3, <1>4, <1>6, <1>7

(* The job takes the first control of every path.  A start behind it comes *)
(* still: a stop that was taken leaves it free.                            *)
LEMMA TakeKeeps ==
  ASSUME NEW q \in Seq(Control), NEW t \in Seq(Control), q # <<>>
  PROVE  /\ Head(q) \in Control /\ Tail(q) \in Seq(Control) /\ Tail(q) \o t \in Seq(Control)
         /\ \A item : Has(q \o t, item) => item = Head(q) \/ Has(Tail(q) \o t, item)
         /\ \A item : Has(Tail(q) \o t, item) => Has(q \o t, item)
         /\ \A free : Comes(q \o t, free) =>
              \/ free /\ Head(q) = StartNow
              \/ Comes(Tail(q) \o t, free)
              \/ Head(q).do \in {"stop", "graceful"} /\ Comes(Tail(q) \o t, TRUE)
         /\ Once(q \o t) => /\ Once(Tail(q) \o t)
                            /\ Head(q) = SetupLate => ~Has(Tail(q) \o t, SetupLate)
<1>1. PICK m \in Nat, n \in Nat : m + 1 = Len(q) /\ n = Len(t)
  <2>1. Len(q) \in Nat /\ Len(q) # 0 /\ Len(t) \in Nat
    BY EmptySeq
  <2>2. Len(q) - 1 \in Nat /\ Len(q) - 1 + 1 = Len(q)
    BY <2>1
  <2> QED BY <2>1, <2>2
<1>2. /\ Head(q) \in Control /\ Tail(q) \in Seq(Control) /\ Len(Tail(q)) = Len(q) - 1
      /\ Head(q) = q[1] /\ \A i \in 1 .. Len(Tail(q)) : Tail(q)[i] = q[i + 1]
  BY HeadTailProperties
<1>3. PICK h \in Control, r \in Seq(Control) : h = Head(q) /\ r = Tail(q)
  BY <1>2
<1>4. Len(r) = m /\ q[1] = h /\ \A i \in 1 .. m : r[i] = q[i + 1]
  <2>1. m + 1 - 1 = m
    OBVIOUS
  <2> QED BY <1>1, <1>2, <1>3, <2>1
<1>5. PICK p, s : p = q \o t /\ s = r \o t
  OBVIOUS
<1>6. PICK k \in Nat : k = m + 1 /\ k = Len(q)
  BY <1>1
<1>7. Joined(p, q, t, k, n) /\ Joined(s, r, t, m, n)
  BY <1>1, <1>3, <1>4, <1>5, <1>6, Joins
<1>8. Len(p) = m + 1 + n /\ Len(s) = m + n /\ s \in Seq(Control) /\ p \in Seq(Control)
  BY <1>6, <1>7 DEF Joined
<1>9. p[1] = h
  <2>1. 1 \in 1 .. k + n /\ 1 <= k
    BY <1>6
  <2> QED BY <1>4, <1>7, <2>1 DEF Joined
<1>10. ASSUME NEW i \in 1 .. m + n PROVE s[i] = p[i + 1]
  <2>1. i + 1 \in 1 .. k + n
    BY <1>6
  <2>2. CASE i <= m
    <3>1. i \in 1 .. m /\ i + 1 <= k
      BY <1>6, <2>2
    <3>2. s[i] = r[i] /\ p[i + 1] = q[i + 1]
      BY <1>7, <2>1, <2>2, <3>1 DEF Joined
    <3> QED BY <1>4, <3>1, <3>2
  <2>3. CASE ~(i <= m)
    <3>1. ~(i + 1 <= k) /\ i + 1 - k = i - m
      BY <1>6, <2>3
    <3>2. s[i] = t[i - m] /\ p[i + 1] = t[i + 1 - k]
      BY <1>7, <2>1, <2>3, <3>1 DEF Joined
    <3> QED BY <3>1, <3>2
  <2> QED BY <2>2, <2>3
<1>11. ASSUME NEW i \in 1 .. m + 1 + n, i # 1
       PROVE  i - 1 \in 1 .. m + n /\ s[i - 1] = p[i]
  <2>1. i - 1 \in 1 .. m + n /\ i - 1 + 1 = i
    BY <1>11
  <2>2. s[i - 1] = p[i - 1 + 1]
    BY <1>10, <2>1
  <2> QED BY <2>1, <2>2
<1>12. \A item : Has(p, item) => item = h \/ Has(s, item)
  BY <1>8, <1>9, <1>11 DEF Has
<1>13. \A item : Has(s, item) => Has(p, item)
  <2>1. \A i \in 1 .. m + n : i + 1 \in 1 .. m + 1 + n
    OBVIOUS
  <2> QED BY <1>8, <1>10, <2>1 DEF Has
<1>14. ASSUME NEW free, Comes(p, free), ~(free /\ h = StartNow), ~Comes(s, free)
       PROVE  h.do \in {"stop", "graceful"} /\ Comes(s, TRUE)
  <2>1. PICK i \in 1 .. m + 1 + n :
          p[i] = StartNow /\ (free \/ \E j \in 1 .. i - 1 : p[j].do \in {"stop", "graceful"})
    BY <1>8, <1>14 DEF Comes
  <2>2. i # 1
    <3>1. ASSUME i = 1 PROVE FALSE
      <4>1. 1 .. i - 1 = {}
        BY <3>1
      <4> QED BY <1>9, <1>14, <2>1, <3>1, <4>1
    <3> QED BY <3>1
  <2>3. i - 1 \in 1 .. m + n /\ s[i - 1] = StartNow
    BY <1>11, <2>1, <2>2
  <2>4. ~free
    BY <1>8, <1>14, <2>3 DEF Comes
  <2>5. PICK j \in 1 .. i - 1 : p[j].do \in {"stop", "graceful"}
    BY <2>1, <2>4
  <2>6. j = 1
    <3>1. ASSUME j # 1 PROVE FALSE
      <4>1. j \in 1 .. m + 1 + n /\ j - 1 \in 1 .. i - 1 - 1
        BY <3>1
      <4>2. s[j - 1] = p[j]
        BY <1>11, <3>1, <4>1
      <4> QED BY <1>8, <1>14, <2>3, <2>5, <4>1, <4>2 DEF Comes
    <3> QED BY <3>1
  <2>7. Comes(s, TRUE)
    BY <1>8, <2>3 DEF Comes
  <2> QED BY <1>9, <2>5, <2>6, <2>7
<1>15. ASSUME Once(p) PROVE Once(s) /\ (h = SetupLate => ~Has(s, SetupLate))
  <2>1. ASSUME NEW i \in 1 .. m + n, NEW j \in 1 .. m + n, s[i] = SetupLate, s[j] = SetupLate
        PROVE  i = j
    <3>1. i + 1 \in 1 .. m + 1 + n /\ j + 1 \in 1 .. m + 1 + n
      OBVIOUS
    <3>2. p[i + 1] = SetupLate /\ p[j + 1] = SetupLate
      BY <1>10, <2>1
    <3>3. i + 1 = j + 1
      BY <1>8, <1>15, <3>1, <3>2 DEF Once
    <3> QED BY <3>3
  <2>2. ASSUME h = SetupLate, NEW i \in 1 .. m + n, s[i] = SetupLate PROVE FALSE
    <3>1. i + 1 \in 1 .. m + 1 + n /\ 1 \in 1 .. m + 1 + n /\ i + 1 # 1
      OBVIOUS
    <3>2. p[i + 1] = SetupLate /\ p[1] = SetupLate
      BY <1>9, <1>10, <2>2
    <3> QED BY <1>8, <1>15, <3>1, <3>2 DEF Once
  <2> QED BY <1>8, <2>1, <2>2 DEF Once, Has
<1> QED BY <1>3, <1>5, <1>2, <1>8, <1>12, <1>13, <1>14, <1>15, Zenon

-----------------------------------------------------------------------------
(* The numbers that tell the queued restart's controls from others.        *)
Distinct == Queuer \in Nat /\ Queuer # Nobody

LEMMA QueuerIsNumber == Distinct
<1>0. MaxBatches \in [Modes -> Nat]
  BY BusyAssumption
<1>1. PICK a \in Nat, b \in Nat, c \in Nat, d \in Nat :
        a = MaxBatches["do-nothing"] /\ b = MaxBatches["signal"]
        /\ c = MaxBatches["restart"] /\ d = MaxBatches["queue"]
  BY <1>0 DEF Modes
<1>2. Range(MaxBatches) = {a, b, c, d}
  BY <1>0, <1>1 DEF Range, Modes
<1>3. \E n \in {a, b, c, d} : \A i \in {a, b, c, d} : i <= n
  <2>1. PICK m \in {a, b} : a <= m /\ b <= m
    OBVIOUS
  <2>2. PICK k \in {c, d} : c <= k /\ d <= k
    OBVIOUS
  <2>3. CASE m <= k
    BY <2>1, <2>2, <2>3
  <2>4. CASE ~(m <= k)
    BY <2>1, <2>2, <2>4
  <2> QED BY <2>3, <2>4
<1>4. Bound \in Nat
  BY <1>2, <1>3 DEF Bound
<1> QED BY <1>4 DEF Distinct, Queuer, Nobody

LEMMA ItemsApart ==
  ASSUME Distinct
  PROVE  /\ StartNow \in Control /\ StartLate \in Control /\ SetupLate \in Control
         /\ StartNow # SetupLate /\ StartLate # SetupLate /\ StartNow # StartLate
         /\ \A do \in Dos, by \in Nat :
              do # "setup" \/ by = Nobody => Item(do, by) # SetupLate
         /\ Item("start", Nobody).by = Nobody /\ StartLate.do = "start" /\ StartLate.by = Queuer
         /\ SetupLate.do = "setup" /\ SetupLate.by = Queuer /\ StartNow.do = "start"
         /\ StartNow.by = Nobody
<1>1. Nobody \in Nat /\ Queuer \in Nat /\ "start" \in Dos /\ "setup" \in Dos
  BY DEF Distinct, Nobody, Dos
<1>2. \A do \in Dos, by \in Nat :
        Item(do, by) \in Control /\ Item(do, by).do = do /\ Item(do, by).by = by
  BY ItemIs
<1> QED BY <1>1, <1>2 DEF Distinct, StartNow, StartLate, SetupLate

LEMMA MoreFree ==
  ASSUME NEW p, NEW free
  PROVE  (Comes(p, free) => Comes(p, TRUE)) /\ (Comes(p, FALSE) => Comes(p, free))
BY DEF Comes

LEMMA NothingOn == ASSUME NEW item PROVE ~Has(<<>>, item)
BY DEF Has

(* What the queued restart sends, when nothing of it is on the way.        *)
LEMMA LateComes ==
  ASSUME Distinct, NEW q \in Seq(Control), ~Has(q, SetupLate)
  PROVE  /\ StartAndSetup(Queuer) \in Seq(Control)
         /\ Has(q \o StartAndSetup(Queuer), StartLate)
         /\ Once(q \o StartAndSetup(Queuer))
<1>1. PICK t, p : t = StartAndSetup(Queuer) /\ p = q \o t
  OBVIOUS
<1>2. t \in Seq(Control) /\ Len(t) = 2 /\ t[1] = StartLate /\ t[2] = SetupLate
  BY <1>1, ItemsApart DEF StartAndSetup, StartLate, SetupLate
<1>3. PICK m \in Nat : m = Len(q)
  OBVIOUS
<1>4. Joined(p, q, t, m, 2)
  BY <1>1, <1>2, <1>3, Joins
<1>5. Has(t, StartLate)
  BY <1>2 DEF Has
<1>6. Has(p, StartLate)
  BY <1>1, <1>2, <1>5, HasJoined
<1>7. ASSUME NEW i \in 1 .. m + 2, p[i] = SetupLate PROVE i = m + 2
  <2>1. CASE i <= m
    <3>1. i \in 1 .. Len(q) /\ q[i] = SetupLate
      BY <1>3, <1>4, <1>7, <2>1 DEF Joined
    <3> QED BY <3>1 DEF Has
  <2>2. CASE i = m + 1
    <3>1. p[i] = t[1]
      <4>1. ~(i <= m) /\ i - m = 1
        BY <2>2
      <4> QED BY <1>4, <4>1 DEF Joined
    <3> QED BY <1>2, <1>7, <3>1, ItemsApart
  <2> QED BY <2>1, <2>2
<1>8. Once(p)
  BY <1>4, <1>7 DEF Once, Joined
<1> QED BY <1>1, <1>2, <1>6, <1>8

-----------------------------------------------------------------------------
(* What keeps a change on its way.                                         *)
Keeps(p, r) ==
  /\ \A item : Has(p, item) => Has(r, item)
  /\ \A free : Comes(p, free) => Comes(r, free)

LEMMA WayGrows ==
  ASSUME NEW n, NEW q, NEW h, NEW j, NEW t, NEW r, NEW k, NEW l, NEW u, NEW waiter, NEW free,
         Keeps(q \o h, r \o k), Keeps(q \o j, r \o l), Keeps(q \o t, r \o u),
         Way(n, q, h, j, t, waiter, free)
  PROVE  Way(n, r, k, l, u, waiter, free)
BY DEF Keeps, Way

LEMMA WayFree ==
  ASSUME NEW n, NEW q, NEW h, NEW j, NEW t, NEW waiter, NEW free
  PROVE  /\ Way(n, q, h, j, t, waiter, free) => Way(n, q, h, j, t, waiter, TRUE)
         /\ Way(n, q, h, j, t, waiter, FALSE) => Way(n, q, h, j, t, waiter, free)
BY MoreFree DEF Way

(* The job has taken the first control of its queue.                       *)
LEMMA WayTaken ==
  ASSUME NEW q \in Seq(Control), NEW h \in Seq(Control), NEW j \in Seq(Control),
         NEW t \in Seq(Control), q # <<>>, NEW n, NEW waiter, NEW free,
         Way(n, q, h, j, t, waiter, free)
  PROVE  \/ Head(q) = Item("query", n) \/ Head(q) = StartLate
         \/ free /\ Head(q) = StartNow
         \/ Way(n, Tail(q), h, j, t, waiter, free)
         \/ Head(q).do \in {"stop", "graceful"} /\ Way(n, Tail(q), h, j, t, waiter, TRUE)
<1>1. CASE Has(q \o h, Item("query", n))
  <2>1. Head(q) = Item("query", n) \/ Has(Tail(q) \o h, Item("query", n))
    BY <1>1, TakeKeeps
  <2> QED BY <2>1 DEF Way
<1>2. CASE waiter \in {"ask", "await"}
  BY <1>2 DEF Way
<1>3. CASE Has(q \o t, StartLate)
  <2>1. Head(q) = StartLate \/ Has(Tail(q) \o t, StartLate)
    BY <1>3, TakeKeeps
  <2> QED BY <2>1 DEF Way
<1>4. CASE Comes(q \o h, free)
  <2>1. \/ free /\ Head(q) = StartNow
        \/ Comes(Tail(q) \o h, free)
        \/ Head(q).do \in {"stop", "graceful"} /\ Comes(Tail(q) \o h, TRUE)
    BY <1>4, TakeKeeps
  <2> QED BY <2>1 DEF Way
<1>5. CASE Comes(q \o j, free)
  <2>1. \/ free /\ Head(q) = StartNow
        \/ Comes(Tail(q) \o j, free)
        \/ Head(q).do \in {"stop", "graceful"} /\ Comes(Tail(q) \o j, TRUE)
    BY <1>5, TakeKeeps
  <2> QED BY <2>1 DEF Way
<1> QED BY <1>1, <1>2, <1>3, <1>4, <1>5 DEF Way

LEMMA FlagTaken ==
  ASSUME NEW q \in Seq(Control), NEW t \in Seq(Control), q # <<>>, NEW flag, NEW waiter,
         Flagged(flag, waiter, q, t)
  PROVE  /\ Flagged(flag, waiter, Tail(q), t)
         /\ Head(q) = SetupLate => waiter = "run" /\ ~Has(Tail(q) \o t, SetupLate)
<1>1. Once(q \o t) /\ (Has(q \o t, SetupLate) => waiter = "run")
  BY DEF Flagged
<1>2. Once(Tail(q) \o t) /\ (Head(q) = SetupLate => ~Has(Tail(q) \o t, SetupLate))
  BY <1>1, TakeKeeps
<1>3. Has(Tail(q) \o t, SetupLate) => waiter = "run"
  BY <1>1, TakeKeeps
<1>4. Head(q) = SetupLate => Has(q \o t, SetupLate)
  <2>1. ASSUME Head(q) = SetupLate PROVE Has(q, SetupLate)
    <3>1. Len(q) \in Nat /\ Len(q) # 0 /\ Head(q) = q[1]
      BY EmptySeq
    <3>2. 1 \in 1 .. Len(q)
      BY <3>1
    <3> QED BY <2>1, <3>1, <3>2 DEF Has
  <2> QED BY <2>1, HasJoined
<1> QED BY <1>1, <1>2, <1>3, <1>4 DEF Flagged

(* Nothing of the queued restart is on the way unless it runs.             *)
LEMMA NoneLate ==
  ASSUME Distinct, NEW q \in Seq(Control), NEW t \in Seq(Control), NEW flag, NEW waiter,
         Flagged(flag, waiter, q, t), waiter # "run" \/ ~Has(q \o t, SetupLate)
  PROVE  t = <<>> /\ ~Has(q, SetupLate)
<1>1. ~Has(q \o t, SetupLate)
  BY DEF Flagged
<1>2. ~Has(q, SetupLate) /\ ~Has(t, SetupLate)
  BY <1>1, HasJoined
<1>3. Has(StartAndSetup(Queuer), SetupLate) /\ Has(<<SetupLate>>, SetupLate)
  <2>1. PICK u, v : u = StartAndSetup(Queuer) /\ v = <<SetupLate>>
    OBVIOUS
  <2>2. Len(u) = 2 /\ u[2] = SetupLate /\ Len(v) = 1 /\ v[1] = SetupLate
    BY <2>1 DEF StartAndSetup, SetupLate
  <2> QED BY <2>1, <2>2 DEF Has
<1> QED BY <1>2, <1>3 DEF Flagged

(* The process has ended: a restart that waited for that sends its start.  *)
Waked(waiter) == IF waiter = "await" THEN "run" ELSE waiter
WakedSends(waiter, t) == IF waiter = "await" THEN StartAndSetup(Queuer) ELSE t

LEMMA WayEnded ==
  ASSUME Distinct, NEW q \in Seq(Control), NEW t \in Seq(Control), NEW h, NEW j, NEW flag,
         NEW waiter, Flagged(flag, waiter, q, t)
  PROVE  /\ Flagged(flag, Waked(waiter), q, WakedSends(waiter, t))
         /\ WakedSends(waiter, t) \in Seq(Control)
         /\ \A n : Way(n, q, h, j, t, waiter, TRUE) =>
                     Way(n, q, h, j, WakedSends(waiter, t), Waked(waiter), TRUE)
<1>1. CASE waiter # "await"
  BY <1>1 DEF Waked, WakedSends
<1>2. CASE waiter = "await"
  <2>1. ~Has(q, SetupLate)
    BY <1>2, NoneLate
  <2>2. /\ StartAndSetup(Queuer) \in Seq(Control)
        /\ Has(q \o StartAndSetup(Queuer), StartLate) /\ Once(q \o StartAndSetup(Queuer))
    BY <2>1, LateComes
  <2>3. Waked(waiter) = "run" /\ WakedSends(waiter, t) = StartAndSetup(Queuer)
    BY <1>2 DEF Waked, WakedSends
  <2>4. flag
    BY <1>2 DEF Flagged
  <2>5. Flagged(flag, "run", q, StartAndSetup(Queuer))
    BY <2>2, <2>4 DEF Flagged
  <2>6. \A n : Way(n, q, h, j, StartAndSetup(Queuer), "run", TRUE)
    BY <2>2 DEF Way
  <2> QED BY <2>2, <2>3, <2>5, <2>6
<1> QED BY <1>1, <1>2

-----------------------------------------------------------------------------
(* The steps.  Sending puts a control behind the queue.                    *)
LEMMA SendKeeps ==
  ASSUME BusyInv, Distinct, NEW s \in Senders, Send(s)
  PROVE  BusyInv'
<1>1. /\ queue \in Seq(Control) /\ todo \in [Senders -> Seq(Control)] /\ todo[s] # <<>>
      /\ queue' = Append(queue, Head(todo[s])) /\ todo' = [todo EXCEPT ![s] = Tail(@)]
      /\ UNCHANGED <<asked, tried, skipped, quitting, cmd, grace, queuer, queued, watchers>>
  BY DEF BusyInv, Typed, Send, handlerVars, procVars
<1>2. PICK x \in Control, t \in Seq(Control) : x = Head(todo[s]) /\ t = Tail(todo[s])
  BY <1>1, HeadTailProperties
<1>3. todo'[s] = t /\ \A r \in Senders : r # s => todo'[r] = todo[r]
  BY <1>1, <1>2
<1>4. Typed'
  <2>1. queue' \in Seq(Control) /\ todo' \in [Senders -> Seq(Control)]
    BY <1>1, <1>2
  <2> QED BY <1>1, <2>1 DEF BusyInv, Typed
<1>5. ASSUME NEW r \in Senders
      PROVE  /\ queue \o todo[r] \in Seq(Control) /\ queue' \o todo'[r] \in Seq(Control)
             /\ Keeps(queue \o todo[r], queue' \o todo'[r])
             /\ \A item : Has(queue' \o todo'[r], item) => item = x \/ Has(queue \o todo[r], item)
             /\ r = s \/ x # SetupLate =>
                  /\ Has(queue' \o todo'[r], SetupLate) => Has(queue \o todo[r], SetupLate)
                  /\ Once(queue \o todo[r]) => Once(queue' \o todo'[r])
  <2>0. todo[r] \in Seq(Control) /\ queue \o todo[r] \in Seq(Control)
    BY <1>1
  <2>1. CASE r = s
    <3>1. Append(queue, Head(todo[s])) \o Tail(todo[s]) = queue \o todo[s]
      BY <1>1, <2>0, <2>1, SendStays
    <3>2. queue' \o todo'[r] = queue \o todo[r]
      BY <1>1, <1>2, <1>3, <2>1, <3>1
    <3> QED BY <2>0, <3>2 DEF Keeps
  <2>2. CASE r # s
    <3>1. queue' \o todo'[r] = Append(queue, x) \o todo[r]
      BY <1>1, <1>2, <1>3, <2>2
    <3>2. /\ Append(queue, x) \o todo[r] \in Seq(Control)
          /\ \A item : Has(queue \o todo[r], item) => Has(Append(queue, x) \o todo[r], item)
          /\ \A free : Comes(queue \o todo[r], free) => Comes(Append(queue, x) \o todo[r], free)
          /\ \A item : Has(Append(queue, x) \o todo[r], item) =>
                         item = x \/ Has(queue \o todo[r], item)
          /\ Once(queue \o todo[r]) /\ x # SetupLate => Once(Append(queue, x) \o todo[r])
      BY <1>1, <2>0, InsertKeeps
    <3> QED BY <2>0, <2>2, <3>1, <3>2 DEF Keeps
  <2> QED BY <2>1, <2>2
<1>6. {"handler", "job", "queuer"} = Senders
  BY DEF Senders
<1>7. \A item : Has(todo'[s], item) => Has(todo[s], item)
  <2>1. Len(todo[s]) \in Nat /\ Len(t) = Len(todo[s]) - 1
        /\ \A i \in 1 .. Len(t) : t[i] = todo[s][i + 1]
    BY <1>1, <1>2, HeadTailProperties
  <2>2. \A i \in 1 .. Len(t) : i + 1 \in 1 .. Len(todo[s])
    BY <2>1
  <2> QED BY <1>3, <2>1, <2>2 DEF Has
<1>8. Has(todo[s], x)
  <2>1. Len(todo[s]) \in Nat /\ Len(todo[s]) # 0 /\ x = todo[s][1]
    BY <1>1, <1>2, EmptySeq
  <2>2. 1 \in 1 .. Len(todo[s])
    BY <2>1
  <2> QED BY <2>1, <2>2 DEF Has
<1>9. s # "queuer" => x # SetupLate
  BY <1>6, <1>8 DEF BusyInv, FlagInv
<1>10. FlagInv'
  <2>1. ~Has(todo'["handler"], SetupLate) /\ ~Has(todo'["job"], SetupLate)
    BY <1>3, <1>6, <1>7 DEF BusyInv, FlagInv
  <2>2. /\ Has(queue' \o todo'["queuer"], SetupLate) => Has(queue \o todo["queuer"], SetupLate)
        /\ Once(queue \o todo["queuer"]) => Once(queue' \o todo'["queuer"])
    BY <1>5, <1>6, <1>9
  <2>3. todo'["queuer"] \in {<<>>, StartAndSetup(Queuer), <<SetupLate>>}
    <3>1. Tail(StartAndSetup(Queuer)) = <<SetupLate>> /\ Tail(<<SetupLate>>) = <<>>
      BY DEF StartAndSetup, SetupLate
    <3>2. todo["queuer"] \in {<<>>, StartAndSetup(Queuer), <<SetupLate>>}
      BY DEF BusyInv, FlagInv, Flagged
    <3>3. CASE s = "queuer"
      BY <1>1, <1>2, <1>3, <3>1, <3>2, <3>3
    <3>4. CASE s # "queuer"
      BY <1>3, <1>6, <3>2, <3>4
    <3> QED BY <3>3, <3>4
  <2>4. Flagged(queued, queuer, queue, todo["queuer"])
    BY DEF BusyInv, FlagInv
  <2>5. Flagged(queued', queuer', queue', todo'["queuer"])
    BY <1>1, <2>2, <2>3, <2>4 DEF Flagged
  <2> QED BY <2>1, <2>5 DEF FlagInv
<1>11. WayInv'
  <2>1. ASSUME NEW n \in 1 .. asked', ~Settled(n)'
        PROVE  Way(n, queue', todo'["handler"], todo'["job"], todo'["queuer"], queuer',
                   Idle \/ grace)
    <3>1. n \in 1 .. asked /\ ~Settled(n)
      BY <1>1, <2>1 DEF Settled
    <3>2. Way(n, queue, todo["handler"], todo["job"], todo["queuer"], queuer, Idle \/ grace)
      BY <3>1 DEF BusyInv, WayInv
    <3>3. /\ Keeps(queue \o todo["handler"], queue' \o todo'["handler"])
          /\ Keeps(queue \o todo["job"], queue' \o todo'["job"])
          /\ Keeps(queue \o todo["queuer"], queue' \o todo'["queuer"])
      BY <1>5, <1>6
    <3>4. queuer' = queuer
      BY <1>1
    <3> QED BY <3>2, <3>3, <3>4, WayGrows
  <2>2. Idle' = Idle /\ grace' = grace
    BY <1>1 DEF Idle
  <2> QED BY <2>1, <2>2 DEF WayInv
<1> QED BY <1>4, <1>10, <1>11 DEF BusyInv

(* What does not concern changes.                                          *)
Calm == UNCHANGED <<asked, tried, skipped, quitting, cmd, grace>>

LEMMA QuietKeeps ==
  ASSUME BusyInv, Calm, UNCHANGED <<queue, todo, queuer, queued>>,
         watchers' \in Seq(WatcherStates)
  PROVE  BusyInv'
<1>1. WayInv'
  BY DEF BusyInv, WayInv, Settled, Idle, Calm
<1>2. FlagInv'
  BY DEF BusyInv, FlagInv
<1> QED BY <1>1, <1>2 DEF BusyInv, Typed, Calm

(* A watcher's control is put behind the queue.                            *)
LEMMA PutKeeps ==
  ASSUME BusyInv, Distinct, Calm, UNCHANGED <<todo, queuer, queued>>,
         watchers' \in Seq(WatcherStates),
         NEW x \in Control, x # SetupLate, queue' = Append(queue, x)
  PROVE  BusyInv'
<1>1. queue \in Seq(Control) /\ todo \in [Senders -> Seq(Control)] /\ todo' = todo
  BY DEF BusyInv, Typed
<1>2. ASSUME NEW r \in Senders
      PROVE  /\ Keeps(queue \o todo[r], queue' \o todo[r])
             /\ Has(queue' \o todo[r], SetupLate) => Has(queue \o todo[r], SetupLate)
             /\ Once(queue \o todo[r]) => Once(queue' \o todo[r])
  <2>1. todo[r] \in Seq(Control)
    BY <1>1
  <2>2. /\ \A item : Has(queue \o todo[r], item) => Has(Append(queue, x) \o todo[r], item)
        /\ \A free : Comes(queue \o todo[r], free) => Comes(Append(queue, x) \o todo[r], free)
        /\ \A item : Has(Append(queue, x) \o todo[r], item) =>
                       item = x \/ Has(queue \o todo[r], item)
        /\ Once(queue \o todo[r]) /\ x # SetupLate => Once(Append(queue, x) \o todo[r])
    BY <1>1, <2>1, InsertKeeps
  <2> QED BY <2>2 DEF Keeps
<1>3. "handler" \in Senders /\ "job" \in Senders /\ "queuer" \in Senders
  BY DEF Senders
<1>4. FlagInv'
  <2>1. Flagged(queued, queuer, queue, todo["queuer"])
    BY DEF BusyInv, FlagInv
  <2>2. Flagged(queued, queuer, queue', todo["queuer"])
    BY <1>2, <1>3, <2>1 DEF Flagged
  <2> QED BY <1>1, <2>2 DEF BusyInv, FlagInv
<1>5. WayInv'
  <2>1. ASSUME NEW n \in 1 .. asked, ~Settled(n)
        PROVE  Way(n, queue', todo["handler"], todo["job"], todo["queuer"], queuer, Idle \/ grace)
    <3>1. Way(n, queue, todo["handler"], todo["job"], todo["queuer"], queuer, Idle \/ grace)
      BY <2>1 DEF BusyInv, WayInv
    <3>2. /\ Keeps(queue \o todo["handler"], queue' \o todo["handler"])
          /\ Keeps(queue \o todo["job"], queue' \o todo["job"])
          /\ Keeps(queue \o todo["queuer"], queue' \o todo["queuer"])
      BY <1>2, <1>3
    <3> QED BY <3>1, <3>2, WayGrows
  <2>2. Idle' = Idle /\ grace' = grace /\ asked' = asked /\ queuer' = queuer
    BY DEF Idle, Calm
  <2>3. \A n : Settled(n)' <=> Settled(n)
    BY DEF Settled, Calm
  <2> QED BY <1>1, <2>1, <2>2, <2>3 DEF WayInv
<1>6. Typed'
  BY <1>1 DEF BusyInv, Typed, Calm
<1> QED BY <1>4, <1>5, <1>6 DEF BusyInv

-----------------------------------------------------------------------------
(* Watchers.                                                               *)
LEMMA MovedIs ==
  ASSUME watchers \in Seq(WatcherStates), NEW w \in DOMAIN watchers, NEW state \in WatcherStates
  PROVE  [watchers EXCEPT ![w] = state] \in Seq(WatcherStates) /\ w \in Nat
<1>1. PICK n \in Nat : watchers \in [1 .. n -> WatcherStates]
  OBVIOUS
<1>2. w \in 1 .. n
  BY <1>1
<1> QED BY <1>1, <1>2

LEMMA WatchKeeps ==
  ASSUME BusyInv, Distinct, NEW w \in DOMAIN watchers, Watch(w) \/ TimeRunsOut(w)
  PROVE  BusyInv'
<1>1. watchers \in Seq(WatcherStates)
  BY DEF BusyInv, Typed
<1>2. ASSUME NEW from, NEW to \in WatcherStates, Move(w, from, to)
      PROVE  Calm /\ UNCHANGED <<todo, queuer, queued>> /\ watchers' \in Seq(WatcherStates)
  BY <1>1, <1>2, MovedIs DEF Move, Calm, handlerVars, procVars
<1>3. \A state \in {"ended", "await", "stopping", "ending", "done"} : state \in WatcherStates
  BY DEF WatcherStates
<1>4. CASE AskForEnd(w)
  <2>1. (IF cmd = "Finished" THEN "ended" ELSE "await") \in WatcherStates
    BY <1>3
  <2> QED BY <1>2, <1>4, <2>1, QuietKeeps DEF AskForEnd
<1>5. CASE SendSynthetic(w)
  BY <1>2, <1>3, <1>5, QuietKeeps DEF SendSynthetic
<1>6. w \in Nat
  BY <1>1, <1>3, MovedIs
<1>7. ASSUME NEW do \in {"end", "stop", "graceful"}
      PROVE  Item(do, w) \in Control /\ Item(do, w) # SetupLate
  <2>1. do \in Dos /\ do # "setup"
    BY DEF Dos
  <2> QED BY <1>6, <2>1, ItemIs, ItemsApart
<1>8. CASE LookAtEnd(w)
  <2>1. Item("end", w) \in Control /\ Item("end", w) # SetupLate
    BY <1>7
  <2>2. queue' = Append(queue, Item("end", w)) /\ Move(w, {"ended"}, "ending")
    BY <1>8 DEF LookAtEnd
  <2> QED BY <1>2, <1>3, <2>1, <2>2, PutKeeps
<1>9. CASE TimeRunsOut(w)
  <2>1. StopControl \in {"end", "stop", "graceful"}
    BY DEF StopControl
  <2>2. Item(StopControl, w) \in Control /\ Item(StopControl, w) # SetupLate
    BY <1>7, <2>1
  <2>3. queue' = Append(queue, Item(StopControl, w))
        /\ Move(w, {"ask", "await", "ended"}, "stopping")
    BY <1>9 DEF TimeRunsOut
  <2> QED BY <1>2, <1>3, <2>2, <2>3, PutKeeps
<1> QED BY <1>4, <1>5, <1>8, <1>9 DEF Watch

-----------------------------------------------------------------------------
(* The handler has nothing left to send when it handles the next batch.    *)
LEMMA HandledKeeps ==
  ASSUME BusyInv, todo["handler"] = <<>>, NEW items \in Seq(Control), ~Has(items, SetupLate),
         todo' = [todo EXCEPT !["handler"] = items],
         UNCHANGED <<queue, tried, skipped, cmd, grace, queuer, queued, watchers>>,
         \/ quitting' /\ asked' = asked
         \/ quitting' = quitting /\ asked' = asked
         \/ /\ quitting' = quitting /\ asked' = asked + 1
            /\ Has(items, Item("query", asked + 1))
  PROVE  BusyInv'
<1>1. /\ queue \in Seq(Control) /\ todo \in [Senders -> Seq(Control)] /\ asked \in Nat
      /\ queue' = queue
  BY DEF BusyInv, Typed
<1>2. "handler" \in Senders /\ "job" \in Senders /\ "queuer" \in Senders
  BY DEF Senders
<1>3. todo' \in [Senders -> Seq(Control)] /\ todo'["handler"] = items
      /\ todo'["job"] = todo["job"] /\ todo'["queuer"] = todo["queuer"]
  BY <1>1, <1>2
<1>4. Typed'
  <2>1. asked' \in Nat
    BY <1>1
  <2> QED BY <1>3, <2>1 DEF BusyInv, Typed
<1>5. FlagInv'
  BY <1>3 DEF BusyInv, FlagInv
<1>6. ASSUME NEW n \in 1 .. asked', ~Settled(n)'
      PROVE  Way(n, queue, items, todo["job"], todo["queuer"], queuer, Idle \/ grace)
  <2>1. ~quitting' /\ (~Settled(n) \/ n \notin 1 .. asked)
    BY <1>6 DEF Settled
  <2>2. CASE n \in 1 .. asked
    <3>1. Way(n, queue, <<>>, todo["job"], todo["queuer"], queuer, Idle \/ grace)
      BY <2>1, <2>2 DEF BusyInv, WayInv
    <3>2. queue \o <<>> = queue
      BY <1>1, ConcatEmptySeq
    <3>3. Keeps(queue \o <<>>, queue \o items)
      BY <1>1, <3>2, AddKeeps DEF Keeps
    <3>4. \A p : Keeps(p, p)
      BY DEF Keeps
    <3> QED BY <3>1, <3>3, <3>4, WayGrows
  <2>3. CASE n \notin 1 .. asked
    <3>1. n = asked + 1 /\ Has(items, Item("query", n))
      BY <1>1, <1>6, <2>1, <2>3
    <3>2. Has(queue \o items, Item("query", n))
      BY <1>1, <3>1, HasJoined
    <3> QED BY <3>2 DEF Way
  <2> QED BY <2>2, <2>3
<1>7. WayInv'
  <2>1. Idle' = Idle /\ grace' = grace /\ queuer' = queuer
    BY DEF Idle
  <2> QED BY <1>1, <1>3, <1>6, <2>1 DEF WayInv
<1> QED BY <1>4, <1>5, <1>7 DEF BusyInv

(* What the handler sends.                                                 *)
QuitItems == <<Item(StopControl, Nobody), Item("stop", Nobody), Item("delete", Nobody)>>

LEMMA HandlerItems ==
  ASSUME Distinct, NEW n \in Nat
  PROVE  /\ QuitItems \in Seq(Control) /\ ~Has(QuitItems, SetupLate)
         /\ RestartAndSetup \in Seq(Control) /\ ~Has(RestartAndSetup, SetupLate)
         /\ \A signals \in {<<>>, <<Item("signal", Nobody)>>} :
              /\ signals \in Seq(Control) /\ ~Has(signals, SetupLate)
              /\ Append(signals, Item("query", n)) \in Seq(Control)
              /\ ~Has(Append(signals, Item("query", n)), SetupLate)
              /\ Has(Append(signals, Item("query", n)), Item("query", n))
<1>1. /\ "stop" \in Dos /\ "delete" \in Dos /\ "start" \in Dos /\ "setup" \in Dos
      /\ "signal" \in Dos /\ "query" \in Dos /\ StopControl \in Dos /\ Nobody \in Nat
  BY DEF Dos, StopControl, Nobody
<1>2. PICK a, b, c, d, e, f, g :
        /\ a = Item(StopControl, Nobody) /\ b = Item("stop", Nobody) /\ c = Item("delete", Nobody)
        /\ d = Item("start", Nobody) /\ e = Item("setup", Nobody) /\ f = Item("signal", Nobody)
        /\ g = Item("query", n)
  OBVIOUS
<1>3. /\ a \in Control /\ b \in Control /\ c \in Control /\ d \in Control /\ e \in Control
      /\ f \in Control /\ g \in Control
  BY <1>1, <1>2, ItemIs
<1>4. /\ a # SetupLate /\ b # SetupLate /\ c # SetupLate /\ d # SetupLate /\ e # SetupLate
      /\ f # SetupLate /\ g # SetupLate
  <2>1. \A do \in Dos, by \in Nat : do # "setup" \/ by = Nobody => Item(do, by) # SetupLate
    BY ItemsApart
  <2>2. e # SetupLate
    BY <1>1, <1>2, <2>1
  <2>3. a # SetupLate /\ b # SetupLate /\ c # SetupLate /\ d # SetupLate
    BY <1>1, <1>2, <2>1
  <2>4. f # SetupLate /\ g # SetupLate
    BY <1>1, <1>2, <2>1
  <2> QED BY <2>2, <2>3, <2>4
<1>5. <<a, b, c>> \in Seq(Control) /\ ~Has(<<a, b, c>>, SetupLate)
  BY <1>3, <1>4 DEF Has
<1>6. RestartAndSetup \in Seq(Control) /\ ~Has(RestartAndSetup, SetupLate)
  <2>1. PICK l, r : l = <<a>> /\ r = <<d, e>>
    OBVIOUS
  <2>2. /\ l \in Seq(Control) /\ r \in Seq(Control)
        /\ ~Has(l, SetupLate) /\ ~Has(r, SetupLate)
    BY <1>3, <1>4, <2>1 DEF Has
  <2>3. ~Has(l \o r, SetupLate) /\ l \o r \in Seq(Control)
    BY <2>2, HasJoined, ConcatProperties
  <2>4. RestartAndSetup = l \o r
    BY <1>2, <2>1, Zenon DEF RestartAndSetup, StartAndSetup
  <2> QED BY <2>3, <2>4
<1>7. <<>> \in Seq(Control) /\ <<f>> \in Seq(Control)
      /\ ~Has(<<>>, SetupLate) /\ ~Has(<<f>>, SetupLate)
  BY <1>3, <1>4 DEF Has
<1>8. ASSUME NEW signals \in Seq(Control), ~Has(signals, SetupLate)
      PROVE  /\ Append(signals, g) \in Seq(Control)
             /\ ~Has(Append(signals, g), SetupLate) /\ Has(Append(signals, g), g)
  <2>0. PICK m \in Nat : m = Len(signals)
    BY <1>8
  <2>1. PICK p : p = Append(signals, g)
    OBVIOUS
  <2>2. p \in Seq(Control) /\ Len(p) = m + 1 /\ p[m + 1] = g
        /\ \A i \in 1 .. m : p[i] = signals[i]
    BY <1>3, <2>0, <2>1, AppendProperties
  <2>3. ASSUME NEW i \in 1 .. m + 1, p[i] = SetupLate PROVE FALSE
    <3>1. i \in 1 .. m \/ i = m + 1
      OBVIOUS
    <3> QED BY <1>4, <1>8, <2>0, <2>2, <2>3, <3>1 DEF Has
  <2>4. m + 1 \in 1 .. m + 1
    OBVIOUS
  <2> QED BY <2>1, <2>2, <2>3, <2>4 DEF Has
<1>9. \A signals \in {<<>>, <<f>>} :
        /\ signals \in Seq(Control) /\ ~Has(signals, SetupLate)
        /\ Append(signals, g) \in Seq(Control)
        /\ ~Has(Append(signals, g), SetupLate) /\ Has(Append(signals, g), g)
  BY <1>7, <1>8
<1> QED BY <1>2, <1>5, <1>6, <1>9, Zenon DEF QuitItems

LEMMA ActKeeps ==
  ASSUME BusyInv, Distinct, HandlerFree, NEW batch, Act(batch),
         UNCHANGED <<queue, tried, skipped, cmd, grace, queuer, queued, watchers>>
  PROVE  BusyInv'
<1>1. asked \in Nat /\ asked + 1 \in Nat /\ todo["handler"] = <<>>
  BY DEF BusyInv, Typed, HandlerFree
<1>2. CASE QuitCmd
  BY <1>1, <1>2, HandlerItems, HandledKeeps DEF QuitCmd, HandlerSends, QuitItems
<1>3. ASSUME NEW key, PressKey(key) PROVE BusyInv'
  <2>1. CASE paused' = ~paused /\ UNCHANGED <<asked, restarts, quitting, todo>>
    <3>1. Calm /\ UNCHANGED <<queue, todo, queuer, queued>>
      BY <2>1 DEF Calm
    <3>2. watchers' \in Seq(WatcherStates)
      BY DEF BusyInv, Typed
    <3> QED BY <3>1, <3>2, QuietKeeps
  <2>2. CASE HandlerSends(RestartAndSetup) /\ UNCHANGED <<asked, paused, quitting>>
    BY <1>1, <2>2, HandlerItems, HandledKeeps DEF HandlerSends
  <2> QED BY <1>2, <1>3, <2>1, <2>2 DEF PressKey
<1>4. CASE PassOn(batch)
  <2>1. PICK signals \in {<<>>, <<Item("signal", Nobody)>>} :
          signals = IF "signal" \in batch THEN <<Item("signal", Nobody)>> ELSE <<>>
    OBVIOUS
  <2>2. quitting' = quitting
    BY <1>4 DEF PassOn
  <2>3. CASE "change" \in batch /\ ~paused
    <3>1. asked' = asked + 1
          /\ HandlerSends(Append(signals, Item("query", asked + 1)))
      BY <1>4, <2>1, <2>3 DEF PassOn
    <3> QED BY <1>1, <2>2, <3>1, HandlerItems, HandledKeeps DEF HandlerSends
  <2>4. CASE ~("change" \in batch /\ ~paused)
    <3>1. asked' = asked /\ HandlerSends(signals)
      BY <1>4, <2>1, <2>4 DEF PassOn
    <3> QED BY <1>1, <2>2, <3>1, HandlerItems, HandledKeeps DEF HandlerSends
  <2> QED BY <2>3, <2>4
<1> QED BY <1>2, <1>3, <1>4, Zenon DEF Act

LEMMA HandlerKeeps ==
  ASSUME BusyInv, Distinct, NEW batch, Handle(batch) \/ HandleSynthetic
  PROVE  BusyInv'
<1>1. HandlerFree /\ (Act(batch) \/ Act({"change"}))
  BY DEF Handle, HandleSynthetic
<1>2. UNCHANGED <<queue, tried, skipped, cmd, grace, queuer, queued, watchers>>
  BY DEF Handle, HandleSynthetic, procVars
<1> QED BY <1>1, <1>2, ActKeeps

-----------------------------------------------------------------------------
(* The queued restart.                                                     *)
LEMMA QueuerKeeps ==
  ASSUME BusyInv, Distinct, QueuerAsks \/ QueuerResets
  PROVE  BusyInv'
<1> DEFINE t == todo["queuer"]
<1>1. /\ queue \in Seq(Control) /\ todo \in [Senders -> Seq(Control)] /\ t \in Seq(Control)
      /\ watchers' \in Seq(WatcherStates) /\ queue' = queue
  BY DEF BusyInv, Typed, QueuerAsks, QueuerResets, AnyQueuerResets, Senders
<1>2. Flagged(queued, queuer, queue, t)
  BY DEF BusyInv, FlagInv
<1>3. Calm
  BY DEF QueuerAsks, QueuerResets, AnyQueuerResets, Calm, handlerVars, procVars
<1>4. "handler" \in Senders /\ "job" \in Senders /\ "queuer" \in Senders
  BY DEF Senders
<1>5. Idle' = Idle /\ grace' = grace /\ asked' = asked /\ \A n : Settled(n)' <=> Settled(n)
  BY <1>3 DEF Idle, Settled, Calm
<1>6. \A n \in 1 .. asked :
        \/ Settled(n)
        \/ Way(n, queue, todo["handler"], todo["job"], t, queuer, Idle \/ grace)
  BY DEF BusyInv, WayInv
<1>7. CASE QueuerAsks /\ cmd = "Finished"
  <2>1. /\ queuer = "ask" /\ queuer' = "run" /\ queued' = queued
        /\ todo' = [todo EXCEPT !["queuer"] = StartAndSetup(Queuer)]
    BY <1>7 DEF QueuerAsks
  <2>2. ~Has(queue, SetupLate)
    BY <1>1, <1>2, <2>1, NoneLate
  <2>3. /\ StartAndSetup(Queuer) \in Seq(Control)
        /\ Has(queue \o StartAndSetup(Queuer), StartLate) /\ Once(queue \o StartAndSetup(Queuer))
    BY <1>1, <2>2, LateComes
  <2>4. /\ todo' \in [Senders -> Seq(Control)] /\ todo'["queuer"] = StartAndSetup(Queuer)
        /\ todo'["handler"] = todo["handler"] /\ todo'["job"] = todo["job"]
    BY <1>1, <1>4, <2>1, <2>3
  <2>5. Flagged(queued, "run", queue, StartAndSetup(Queuer))
    BY <1>2, <2>1, <2>3 DEF Flagged
  <2>6. FlagInv'
    BY <1>1, <2>1, <2>4, <2>5 DEF BusyInv, FlagInv
  <2>7. WayInv'
    BY <1>1, <2>3, <2>4 DEF WayInv, Way
  <2> QED BY <1>1, <1>3, <2>1, <2>4, <2>6, <2>7 DEF BusyInv, Typed, Calm, QueuerStates
<1>8. CASE QueuerAsks /\ cmd # "Finished"
  <2>1. queuer = "ask" /\ queuer' = "await" /\ todo' = todo /\ queued' = queued
    BY <1>8 DEF QueuerAsks
  <2>2. FlagInv'
    BY <1>1, <1>2, <2>1 DEF BusyInv, FlagInv, Flagged
  <2>3. WayInv'
    BY <2>1 DEF WayInv, Way
  <2> QED BY <1>1, <1>3, <2>1, <2>2, <2>3 DEF BusyInv, Typed, Calm, QueuerStates
<1>9. CASE QueuerResets
  <2>1. queuer = "reset" /\ queuer' = "none" /\ queued' = FALSE /\ todo' = todo
    BY <1>9 DEF QueuerResets, AnyQueuerResets
  <2>2. FlagInv'
    BY <1>1, <1>2, <2>1 DEF BusyInv, FlagInv, Flagged
  <2>3. WayInv'
    BY <1>1, <1>5, <1>6, <2>1 DEF WayInv, Way
  <2> QED BY <1>1, <1>3, <2>1, <2>2, <2>3 DEF BusyInv, Typed, Calm, QueuerStates
<1> QED BY <1>7, <1>8, <1>9 DEF QueuerAsks

-----------------------------------------------------------------------------
(* The process ends, when q is what is left in the queue.                  *)
LEMMA AnsweredIs ==
  ASSUME NEW ws \in Seq(WatcherStates), NEW w, NEW state \in WatcherStates
  PROVE  Answered(ws, w, state) \in Seq(WatcherStates)
<1>1. PICK n \in Nat : ws \in [1 .. n -> WatcherStates]
  OBVIOUS
<1>2. [ws EXCEPT ![w] = state] \in [1 .. n -> WatcherStates]
  BY <1>1
<1> QED BY <1>2 DEF Answered

LEMMA WakenedIs ==
  ASSUME watchers \in Seq(WatcherStates)
  PROVE  Wakened \in Seq(WatcherStates)
<1>1. PICK n \in Nat : watchers \in [1 .. n -> WatcherStates]
  OBVIOUS
<1>2. "ended" \in WatcherStates
  BY DEF WatcherStates
<1>3. Wakened \in [1 .. n -> WatcherStates]
  BY <1>1, <1>2 DEF Wakened
<1> QED BY <1>3

LEMMA EndKeeps ==
  ASSUME Typed, Distinct, queue' \in Seq(Control),
         Flagged(queued, queuer, queue', todo["queuer"]),
         ~Has(todo["handler"], SetupLate), ~Has(todo["job"], SetupLate),
         \A n \in 1 .. asked :
           \/ Settled(n)
           \/ Way(n, queue', todo["handler"], todo["job"], todo["queuer"], queuer, TRUE),
         NEW by, NEW outcome, ProcessEnds(by, outcome),
         UNCHANGED <<asked, tried, skipped, quitting, queued>>
  PROVE  BusyInv'
<1> DEFINE t == todo["queuer"]
<1>1. /\ todo \in [Senders -> Seq(Control)] /\ t \in Seq(Control)
      /\ "handler" \in Senders /\ "job" \in Senders /\ "queuer" \in Senders
  BY DEF Typed, Senders
<1>2. /\ Flagged(queued, Waked(queuer), queue', WakedSends(queuer, t))
      /\ WakedSends(queuer, t) \in Seq(Control)
      /\ \A n : Way(n, queue', todo["handler"], todo["job"], t, queuer, TRUE) =>
                  Way(n, queue', todo["handler"], todo["job"], WakedSends(queuer, t),
                      Waked(queuer), TRUE)
  BY <1>1, WayEnded
<1>3. queuer' = Waked(queuer) /\ cmd' = "Finished" /\ watchers' = Answered(Wakened, by, "ended")
  BY DEF ProcessEnds, Waked
<1>4. /\ todo' \in [Senders -> Seq(Control)] /\ todo'["queuer"] = WakedSends(queuer, t)
      /\ todo'["handler"] = todo["handler"] /\ todo'["job"] = todo["job"]
  <2>1. CASE queuer = "await"
    <3>1. todo' = [todo EXCEPT !["queuer"] = StartAndSetup(Queuer)]
          /\ WakedSends(queuer, t) = StartAndSetup(Queuer)
      BY <2>1 DEF ProcessEnds, WakedSends
    <3> QED BY <1>1, <1>2, <3>1
  <2>2. CASE queuer # "await"
    BY <1>1, <2>2 DEF ProcessEnds, WakedSends
  <2> QED BY <2>1, <2>2
<1>5. Typed'
  <2>1. watchers' \in Seq(WatcherStates)
    <3>1. "ended" \in WatcherStates
      BY DEF WatcherStates
    <3> QED BY <1>3, <3>1, AnsweredIs, WakenedIs DEF Typed
  <2>2. queuer' \in QueuerStates
    BY <1>3 DEF Typed, Waked, QueuerStates
  <2> QED BY <1>4, <2>1, <2>2 DEF Typed
<1>6. FlagInv'
  BY <1>2, <1>3, <1>4 DEF FlagInv
<1>7. WayInv'
  <2>1. Idle'
    BY <1>3 DEF Idle
  <2>2. \A n : Settled(n)' <=> Settled(n)
    BY DEF Settled
  <2>3. ASSUME NEW n \in 1 .. asked
        PROVE  \/ Settled(n)'
               \/ Way(n, queue', todo'["handler"], todo'["job"], todo'["queuer"], queuer', TRUE)
    BY <1>2, <1>3, <1>4, <2>2
  <2>4. ASSUME NEW n, Way(n, queue', todo'["handler"], todo'["job"], todo'["queuer"], queuer', TRUE)
        PROVE  Way(n, queue, todo["handler"], todo["job"], todo["queuer"], queuer, Idle \/ grace)'
    BY <2>1, <2>4 DEF Way, Comes
  <2> QED BY <2>3, <2>4 DEF WayInv
<1> QED BY <1>5, <1>6, <1>7 DEF BusyInv

LEMMA EndsKeeps ==
  ASSUME BusyInv, Distinct, (\E outcome \in {"ok", "fail"} : EndsByItself(outcome)) \/ GraceEnds
  PROVE  BusyInv'
<1>1. PICK outcome : ProcessEnds(Nobody, outcome)
  BY DEF EndsByItself, GraceEnds
<1>2. queue' = queue /\ UNCHANGED <<asked, tried, skipped, quitting, queued>>
  BY DEF EndsByItself, GraceEnds, handlerVars
<1>3. ASSUME NEW n \in 1 .. asked, ~Settled(n)
      PROVE  Way(n, queue', todo["handler"], todo["job"], todo["queuer"], queuer, TRUE)
  BY <1>2, <1>3, WayFree DEF BusyInv, WayInv
<1>4. Typed /\ queue' \in Seq(Control) /\ Flagged(queued, queuer, queue', todo["queuer"])
      /\ ~Has(todo["handler"], SetupLate) /\ ~Has(todo["job"], SetupLate)
  BY <1>2 DEF BusyInv, Typed, FlagInv
<1> QED BY <1>1, <1>2, <1>3, <1>4, EndKeeps

-----------------------------------------------------------------------------
(* The job has taken x: what is true of the rest of its queue.             *)
Taken(x, do) ==
  /\ Typed /\ x \in Control /\ x.do = do /\ queue' \in Seq(Control)
  /\ todo["handler"] \in Seq(Control) /\ todo["queuer"] \in Seq(Control)
  /\ todo["job"] = <<>> /\ ~grace
  /\ UNCHANGED <<asked, quitting, setting>>
  /\ ~Has(todo["handler"], SetupLate) /\ ~Has(todo["job"], SetupLate)
  /\ Flagged(queued, queuer, queue', todo["queuer"])
  /\ x = SetupLate => queuer = "run" /\ ~Has(queue' \o todo["queuer"], SetupLate)
  /\ Has(queue \o todo["queuer"], StartLate) =>
       x = StartLate \/ Has(queue' \o todo["queuer"], StartLate)
Follows(x, n) ==
  \/ Settled(n)
  \/ x = Item("query", n)
  \/ x = StartLate
  \/ Idle /\ x = StartNow
  \/ Way(n, queue', todo["handler"], <<>>, todo["queuer"], queuer, Idle)
  \/ /\ x.do \in {"stop", "graceful"}
     /\ Way(n, queue', todo["handler"], <<>>, todo["queuer"], queuer, TRUE)

LEMMA ServingTakes ==
  ASSUME BusyInv, NEW do, Serving(do)
  PROVE  Taken(Head(queue), do) /\ \A n \in 1 .. asked : Follows(Head(queue), n)
<1>1. /\ queue \in Seq(Control) /\ queue # <<>> /\ Head(queue).do = do /\ queue' = Tail(queue)
      /\ todo["job"] = <<>> /\ ~grace /\ UNCHANGED <<asked, quitting, setting>>
      /\ todo["handler"] \in Seq(Control) /\ todo["queuer"] \in Seq(Control)
      /\ todo["job"] \in Seq(Control)
  BY DEF BusyInv, Typed, Serving, Senders, handlerVars
<1>2. Head(queue) \in Control /\ queue' \in Seq(Control)
  BY <1>1, TakeKeeps
<1>3. Flagged(queued, queuer, queue', todo["queuer"])
      /\ (Head(queue) = SetupLate => queuer = "run" /\ ~Has(queue' \o todo["queuer"], SetupLate))
  BY <1>1, FlagTaken DEF BusyInv, FlagInv
<1>4. Has(queue \o todo["queuer"], StartLate) =>
        Head(queue) = StartLate \/ Has(queue' \o todo["queuer"], StartLate)
  BY <1>1, TakeKeeps
<1>5. ASSUME NEW n \in 1 .. asked, ~Settled(n) PROVE Follows(Head(queue), n)
  <2>1. Way(n, queue, todo["handler"], todo["job"], todo["queuer"], queuer, Idle)
    <3>1. Way(n, queue, todo["handler"], todo["job"], todo["queuer"], queuer, Idle \/ grace)
      BY <1>5 DEF BusyInv, WayInv
    <3> QED BY <1>1, <3>1 DEF Way, Comes
  <2>2. PICK r, h, t : r = Tail(queue) /\ h = todo["handler"] /\ t = todo["queuer"]
    OBVIOUS
  <2>3. \/ Head(queue) = Item("query", n)
        \/ Head(queue) = StartLate
        \/ Idle /\ Head(queue) = StartNow
        \/ Way(n, r, h, <<>>, t, queuer, Idle)
        \/ Head(queue).do \in {"stop", "graceful"} /\ Way(n, r, h, <<>>, t, queuer, TRUE)
    BY <1>1, <2>1, <2>2, WayTaken
  <2> QED BY <1>1, <2>2, <2>3 DEF Follows
<1>6. Taken(Head(queue), do)
  BY <1>1, <1>2, <1>3, <1>4 DEF Taken, BusyInv, FlagInv
<1>7. \A n \in 1 .. asked : Settled(n) => Follows(Head(queue), n)
  BY DEF Follows
<1> QED BY <1>5, <1>6, <1>7

(* What x was not is still on its way.                                     *)
LEMMA OtherFollows ==
  ASSUME NEW x, NEW n, NEW do, x.do = do, Follows(x, n), Distinct, n \in Nat
  PROVE  /\ do \notin {"query", "start", "stop", "graceful"} =>
              Settled(n) \/ Way(n, queue', todo["handler"], <<>>, todo["queuer"], queuer, Idle)
         /\ do \in {"stop", "graceful"} =>
              Settled(n) \/ Way(n, queue', todo["handler"], <<>>, todo["queuer"], queuer, TRUE)
         /\ do = "start" =>
              \/ Settled(n) \/ x.by = Queuer \/ Idle
              \/ Way(n, queue', todo["handler"], <<>>, todo["queuer"], queuer, Idle)
         /\ do = "query" =>
              \/ Settled(n) \/ x.by = n
              \/ Way(n, queue', todo["handler"], <<>>, todo["queuer"], queuer, Idle)
<1>1. /\ Item("query", n).do = "query" /\ Item("query", n).by = n
  BY DEF Item
<1>2. StartLate.do = "start" /\ StartLate.by = Queuer /\ StartNow.do = "start"
  BY ItemsApart
<1>3. Way(n, queue', todo["handler"], <<>>, todo["queuer"], queuer, Idle) =>
        Way(n, queue', todo["handler"], <<>>, todo["queuer"], queuer, TRUE)
  BY WayFree
<1> QED BY <1>1, <1>2, <1>3 DEF Follows

(* Serving that changes nothing but the queue and watchers, or the history.*)
LEMMA ServedKeeps ==
  ASSUME Typed, Distinct, queue' \in Seq(Control),
         ~Has(todo["handler"], SetupLate), ~Has(todo["job"], SetupLate),
         UNCHANGED <<asked, todo, queuer, queued>>, tried' \in Nat,
         Flagged(queued, queuer, queue', todo["queuer"]), watchers' \in Seq(WatcherStates),
         \A n \in 1 .. asked :
           \/ Settled(n)'
           \/ Way(n, queue', todo["handler"], todo["job"], todo["queuer"], queuer, Idle' \/ grace')
  PROVE  BusyInv'
<1>1. Typed' /\ FlagInv'
  BY DEF Typed, FlagInv
<1>2. WayInv'
  BY DEF WayInv
<1> QED BY <1>1, <1>2 DEF BusyInv

LEMMA StartKeeps == ASSUME BusyInv, Distinct, StartCmd PROVE BusyInv'
<1>1. PICK x : x = Head(queue)
  OBVIOUS
<1>2. Taken(x, "start") /\ \A n \in 1 .. asked : Follows(x, n)
  BY <1>1, ServingTakes DEF StartCmd
<1>3. UNCHANGED <<todo, queuer, queued, watchers>> /\ asked' = asked /\ quitting' = quitting
  BY <1>2 DEF StartCmd, Taken
<1>4. asked \in Nat /\ watchers' \in Seq(WatcherStates) /\ tried \in Nat
  BY <1>2, <1>3 DEF Taken, Typed
<1>5. CASE ~Idle /\ UNCHANGED <<procVars, tried>>
           /\ skipped' = IF x.by = Queuer THEN skipped \cup (tried + 1 .. asked) ELSE skipped
  <2>1. ASSUME NEW n \in 1 .. asked
        PROVE  \/ Settled(n)'
               \/ Way(n, queue', todo["handler"], todo["job"], todo["queuer"],
                      queuer, Idle' \/ grace')
    <3>1. n \in Nat /\ x.do = "start" /\ todo["job"] = <<>>
      BY <1>2, <1>4 DEF Taken
    <3>2. \/ Settled(n) \/ x.by = Queuer
          \/ Way(n, queue', todo["handler"], <<>>, todo["queuer"], queuer, Idle)
      BY <1>2, <1>5, <3>1, OtherFollows
    <3>3. CASE Settled(n)
      BY <1>3, <1>5, <3>3 DEF Settled
    <3>4. CASE x.by = Queuer
      <4>1. tried >= n \/ n \in tried + 1 .. asked
        BY <1>4, <3>1
      <4> QED BY <1>5, <3>4, <4>1 DEF Settled
    <3>5. CASE Way(n, queue', todo["handler"], <<>>, todo["queuer"], queuer, Idle)
      <4>1. ~Idle /\ ~Idle' /\ ~grace'
        BY <1>2, <1>5 DEF Idle, procVars, Taken
      <4> QED BY <3>1, <3>5, <4>1 DEF Way, Comes
    <3> QED BY <3>2, <3>3, <3>4, <3>5
  <2>2. tried' \in Nat
    BY <1>4, <1>5
  <2> QED BY <1>2, <1>3, <1>4, <2>1, <2>2, ServedKeeps DEF Taken
<1>6. CASE Idle /\ tried' = asked
  <2>1. ASSUME NEW n \in 1 .. asked PROVE Settled(n)'
    BY <1>4, <1>6 DEF Settled
  <2> QED BY <1>2, <1>3, <1>4, <1>6, <2>1, ServedKeeps DEF Taken
<1> QED BY <1>1, <1>5, <1>6 DEF StartCmd

LEMMA StopKeeps == ASSUME BusyInv, Distinct, Stop PROVE BusyInv'
<1>1. PICK x : x = Head(queue)
  OBVIOUS
<1>2. Taken(x, "stop") /\ \A n \in 1 .. asked : Follows(x, n)
  BY <1>1, ServingTakes DEF Stop
<1>3. UNCHANGED <<queued, asked, quitting, tried, skipped>> /\ todo["job"] = <<>>
  BY <1>2 DEF Stop, Taken
<1>4. ASSUME NEW n \in 1 .. asked
      PROVE  \/ Settled(n)
             \/ Way(n, queue', todo["handler"], todo["job"], todo["queuer"], queuer, TRUE)
  <2>1. n \in Nat /\ x.do = "stop"
    BY <1>2 DEF Taken, Typed
  <2> QED BY <1>2, <1>3, <2>1, OtherFollows
<1>5. CASE Idle /\ Answer("ended") /\ UNCHANGED <<procVars, todo, queuer>>
  <2>1. watchers' \in Seq(WatcherStates)
    <3>1. "ended" \in WatcherStates
      BY DEF WatcherStates
    <3> QED BY <1>2, <1>5, <3>1, AnsweredIs DEF Answer, Taken, Typed
  <2>2. ASSUME NEW n \in 1 .. asked
        PROVE  \/ Settled(n)'
               \/ Way(n, queue', todo["handler"], todo["job"], todo["queuer"],
                      queuer, Idle' \/ grace')
    <3>1. Idle' /\ (Settled(n)' <=> Settled(n))
      BY <1>3, <1>5 DEF Idle, procVars, Settled
    <3>2. Settled(n) \/ Way(n, queue', todo["handler"], todo["job"], todo["queuer"], queuer, TRUE)
      BY <1>4
    <3> QED BY <3>1, <3>2 DEF Way, Comes
  <2>3. tried' \in Nat
    BY <1>2, <1>3 DEF Taken, Typed
  <2> QED BY <1>2, <1>3, <1>5, <2>1, <2>2, <2>3, ServedKeeps DEF Taken
<1>6. CASE ProcessEnds(x.by, "stopped")
  BY <1>2, <1>3, <1>4, <1>6, EndKeeps DEF Taken
<1> QED BY <1>1, <1>5, <1>6 DEF Stop

LEMMA GracefulKeeps == ASSUME BusyInv, Distinct, Graceful PROVE BusyInv'
<1>1. PICK x : x = Head(queue)
  OBVIOUS
<1>2. Taken(x, "graceful") /\ \A n \in 1 .. asked : Follows(x, n)
  BY <1>1, ServingTakes DEF Graceful
<1>3. UNCHANGED <<todo, queuer, queued, asked, quitting, tried, skipped, cmd>>
      /\ todo["job"] = <<>> /\ grace' = ~Idle
  BY <1>2 DEF Graceful, Taken
<1>4. watchers' \in Seq(WatcherStates)
  <2>1. (IF Idle THEN "ended" ELSE "halting") \in WatcherStates
    BY DEF WatcherStates
  <2> QED BY <1>2, <2>1, AnsweredIs DEF Graceful, Answer, Taken, Typed
<1>5. ASSUME NEW n \in 1 .. asked
      PROVE  \/ Settled(n)'
             \/ Way(n, queue', todo["handler"], todo["job"], todo["queuer"],
                    queuer, Idle' \/ grace')
  <2>1. n \in Nat /\ x.do = "graceful"
    BY <1>2 DEF Taken, Typed
  <2>2. Settled(n) \/ Way(n, queue', todo["handler"], <<>>, todo["queuer"], queuer, TRUE)
    BY <1>2, <2>1, OtherFollows
  <2>3. (Idle' \/ grace') /\ (Settled(n)' <=> Settled(n))
    BY <1>3 DEF Idle, Settled
  <2> QED BY <1>3, <2>2, <2>3 DEF Way, Comes
<1>6. tried' \in Nat
  BY <1>2, <1>3 DEF Taken, Typed
<1> QED BY <1>2, <1>3, <1>4, <1>5, <1>6, ServedKeeps DEF Taken

LEMMA OthersKeep == ASSUME BusyInv, Distinct, Signal \/ Delete \/ End PROVE BusyInv'
<1>0. PICK do \in {"signal", "delete", "end"} : Serving(do)
  BY DEF Signal, Delete, End
<1>1. PICK x : Taken(x, do) /\ \A n \in 1 .. asked : Follows(x, n)
  BY <1>0, ServingTakes
<1>2. UNCHANGED <<todo, queuer, queued, tried, skipped, cmd, grace>>
      /\ asked' = asked /\ quitting' = quitting /\ todo["job"] = <<>>
  BY <1>1 DEF Signal, Delete, End, Taken, procVars
<1>3. watchers' \in Seq(WatcherStates)
  <2>1. watchers \in Seq(WatcherStates) /\ "told" \in WatcherStates /\ "done" \in WatcherStates
    BY <1>1 DEF Taken, Typed, WatcherStates
  <2>2. \/ watchers' = watchers
        \/ \E w : \E state \in {"told", "done"} : watchers' = Answered(watchers, w, state)
    <3>1. CASE Signal \/ Delete
      BY <3>1 DEF Signal, Delete
    <3>2. CASE End
      <4>1. PICK state \in {"told", "done"} : Answer(state)
        BY <3>2 DEF End
      <4> QED BY <4>1 DEF Answer
    <3> QED BY <3>1, <3>2
  <2> QED BY <2>1, <2>2, AnsweredIs
<1>4. ASSUME NEW n \in 1 .. asked
      PROVE  \/ Settled(n)'
             \/ Way(n, queue', todo["handler"], todo["job"], todo["queuer"],
                    queuer, Idle' \/ grace')
  <2>1. n \in Nat /\ x.do = do
    BY <1>1 DEF Taken, Typed
  <2>2. Settled(n) \/ Way(n, queue', todo["handler"], <<>>, todo["queuer"], queuer, Idle)
    BY <1>1, <2>1, OtherFollows
  <2>3. Idle' = Idle /\ ~grace' /\ (Settled(n)' <=> Settled(n))
    BY <1>1, <1>2 DEF Idle, Settled, Taken
  <2> QED BY <1>2, <2>2, <2>3 DEF Way, Comes
<1>5. tried' \in Nat
  BY <1>1, <1>2 DEF Taken, Typed
<1> QED BY <1>1, <1>2, <1>3, <1>4, <1>5, ServedKeeps DEF Taken

LEMMA SetupKeeps == ASSUME BusyInv, Distinct, Setup PROVE BusyInv'
<1>1. PICK x : x = Head(queue)
  OBVIOUS
<1>2. Taken(x, "setup") /\ \A n \in 1 .. asked : Follows(x, n)
  BY <1>1, ServingTakes DEF Setup
<1>3. UNCHANGED <<todo, queued, asked, quitting, tried, skipped, cmd, grace>>
      /\ todo["job"] = <<>> /\ queuer' = IF x.by = Queuer THEN "reset" ELSE queuer
  BY <1>1, <1>2 DEF Setup, Taken, procVars
<1>4. watchers' \in Seq(WatcherStates)
  <2>1. watchers \in Seq(WatcherStates) /\ "ask" \in WatcherStates
    BY <1>2 DEF Taken, Typed, WatcherStates
  <2> QED BY <2>1, AppendProperties DEF Setup
<1>5. x.by = Queuer => x = SetupLate
  BY <1>2 DEF Taken, Control, SetupLate, Item
<1>6. /\ Flagged(queued, queuer', queue', todo["queuer"]) /\ queuer' \in QueuerStates
      /\ queuer' = queuer \/ queuer = "run"
  <2>1. CASE x.by = Queuer
    <3>1. queuer = "run" /\ queuer' = "reset" /\ ~Has(queue' \o todo["queuer"], SetupLate)
      BY <1>2, <1>3, <1>5, <2>1 DEF Taken
    <3>2. Flagged(queued, queuer, queue', todo["queuer"])
      BY <1>2 DEF Taken
    <3> QED BY <3>1, <3>2 DEF Flagged, QueuerStates
  <2>2. CASE x.by # Queuer
    BY <1>2, <1>3, <2>2 DEF Taken, Typed
  <2> QED BY <2>1, <2>2
<1>7. ASSUME NEW n \in 1 .. asked
      PROVE  \/ Settled(n)'
             \/ Way(n, queue', todo["handler"], todo["job"], todo["queuer"],
                    queuer', Idle' \/ grace')
  <2>1. n \in Nat /\ x.do = "setup"
    BY <1>2 DEF Taken, Typed
  <2>2. Settled(n) \/ Way(n, queue', todo["handler"], <<>>, todo["queuer"], queuer, Idle)
    BY <1>2, <2>1, OtherFollows
  <2>3. Idle' = Idle /\ ~grace' /\ (Settled(n)' <=> Settled(n))
    BY <1>2, <1>3 DEF Idle, Settled, Taken
  <2> QED BY <1>3, <1>6, <2>2, <2>3 DEF Way, Comes
<1>8. Typed' /\ FlagInv'
  BY <1>2, <1>3, <1>4, <1>6 DEF Taken, Typed, FlagInv
<1>9. WayInv'
  BY <1>3, <1>7 DEF WayInv
<1> QED BY <1>8, <1>9 DEF BusyInv

(* The job is asked to look whether the command runs, for change x.by.  It *)
(* sends what answers all changes, or leaves the others alone.             *)
LEMMA AskedKeeps ==
  ASSUME Distinct, NEW x, Taken(x, "query"),
         NEW items \in Seq(Control), ~Has(items, SetupLate),
         todo' = [todo EXCEPT !["job"] = items], queuer' \in QueuerStates, tried' \in Nat,
         watchers' \in Seq(WatcherStates), Flagged(queued', queuer', queue', todo["queuer"]),
         \A n \in 1 .. asked :
           \/ Settled(n)'
           \/ Way(n, queue', todo["handler"], items, todo["queuer"], queuer', Idle' \/ grace')
  PROVE  BusyInv'
<1>1. todo \in [Senders -> Seq(Control)] /\ "handler" \in Senders /\ "job" \in Senders
      /\ "queuer" \in Senders /\ queue' \in Seq(Control) /\ asked \in Nat /\ asked' = asked
  BY DEF Taken, Typed, Senders
<1>2. /\ todo' \in [Senders -> Seq(Control)] /\ todo'["job"] = items
      /\ todo'["handler"] = todo["handler"] /\ todo'["queuer"] = todo["queuer"]
  BY <1>1
<1>3. Typed' /\ FlagInv'
  BY <1>1, <1>2 DEF Typed, FlagInv, Taken
<1>4. WayInv'
  BY <1>1, <1>2 DEF WayInv
<1> QED BY <1>3, <1>4 DEF BusyInv

LEMMA JobItems ==
  ASSUME Distinct
  PROVE  /\ StartAndSetup(Nobody) \in Seq(Control) /\ ~Has(StartAndSetup(Nobody), SetupLate)
         /\ <<Item("signal", Nobody)>> \in Seq(Control)
         /\ ~Has(<<Item("signal", Nobody)>>, SetupLate)
<1>1. Nobody \in Nat /\ "signal" \in Dos /\ "setup" \in Dos /\ "start" \in Dos
  BY DEF Nobody, Dos
<1>2. PICK a, b, c :
        a = Item("start", Nobody) /\ b = Item("setup", Nobody) /\ c = Item("signal", Nobody)
  OBVIOUS
<1>3. a \in Control /\ b \in Control /\ c \in Control
  BY <1>1, <1>2, ItemIs
<1>4. \A do \in Dos, by \in Nat : do # "setup" \/ by = Nobody => Item(do, by) # SetupLate
  BY ItemsApart
<1>5. a # SetupLate /\ b # SetupLate /\ c # SetupLate
  BY <1>1, <1>2, <1>4
<1>6. <<a, b>> \in Seq(Control) /\ ~Has(<<a, b>>, SetupLate)
  BY <1>3, <1>5 DEF Has
<1>7. <<c>> \in Seq(Control) /\ ~Has(<<c>>, SetupLate)
  BY <1>3, <1>5 DEF Has
<1>8. StartAndSetup(Nobody) = <<a, b>>
  BY <1>2 DEF StartAndSetup
<1> QED BY <1>2, <1>6, <1>7, <1>8

LEMMA QueryKeeps == ASSUME BusyInv, Distinct, Query PROVE BusyInv'
<1>1. PICK x : x = Head(queue)
  OBVIOUS
<1>2. Taken(x, "query") /\ \A n \in 1 .. asked : Follows(x, n)
  BY <1>1, ServingTakes DEF Query
<1> DEFINE h == todo["handler"]
           t == todo["queuer"]
<1>3. /\ UNCHANGED <<tried, cmd, grace, watchers>> /\ quitting' = quitting /\ asked \in Nat
      /\ tried' \in Nat /\ watchers' \in Seq(WatcherStates) /\ ~grace /\ x.do = "query"
      /\ todo["job"] = <<>> /\ todo["job"] \in Seq(Control) /\ ~Has(todo["job"], SetupLate)
      /\ queue' \in Seq(Control) /\ h \in Seq(Control) /\ t \in Seq(Control)
      /\ Flagged(queued, queuer, queue', t) /\ queuer \in QueuerStates
      /\ todo \in [Senders -> Seq(Control)] /\ Idle' = Idle
  BY <1>2, NothingOn DEF Query, Taken, Typed, procVars, Idle, Senders
<1>4. ASSUME NEW n \in 1 .. asked
      PROVE  Settled(n) \/ x.by = n \/ Way(n, queue', h, <<>>, t, queuer, Idle)
  <2>1. n \in Nat
    BY <1>3
  <2> QED BY <1>2, <1>3, <2>1, OtherFollows
<1>5. CASE Idle
  <2>1. /\ todo' = [todo EXCEPT !["job"] = StartAndSetup(Nobody)]
        /\ queuer' = queuer /\ queued' = queued
    BY <1>5 DEF Query, JobSends
  <2>2. Comes(queue' \o StartAndSetup(Nobody), TRUE)
    BY <1>3, StartComes
  <2>3. \A n : Way(n, queue', h, StartAndSetup(Nobody), t, queuer', Idle' \/ grace')
    BY <1>3, <1>5, <2>2 DEF Way, Comes
  <2> QED BY <1>2, <1>3, <2>1, <2>3, JobItems, AskedKeeps
<1>6. CASE ~Idle
  <2>1. WhenBusy(x.by)
    BY <1>1, <1>6 DEF Query
  <2>2. todo' = todo => todo' = [todo EXCEPT !["job"] = <<>>]
    BY <1>3
  <2>3. ASSUME skipped' = skipped \cup {x.by} \/ \A n \in 1 .. asked : x.by # n \/ Settled(n)',
               skipped' = skipped \cup {x.by} \/ skipped' = skipped,
               NEW n \in 1 .. asked
        PROVE  Settled(n)' \/ Way(n, queue', h, <<>>, t, queuer, FALSE)
    <3>1. Settled(n) => Settled(n)'
      BY <1>3, <2>3 DEF Settled
    <3>2. x.by = n => Settled(n)'
      BY <2>3 DEF Settled
    <3> QED BY <1>4, <1>6, <3>1, <3>2 DEF Way, Comes
  <2>4. ASSUME NEW n, Way(n, queue', h, <<>>, t, queuer, FALSE), NEW items \in Seq(Control)
        PROVE  Way(n, queue', h, items, t, queuer, FALSE)
    <3>1. queue' \o <<>> = queue'
      BY <1>3, ConcatEmptySeq
    <3>2. Keeps(queue' \o <<>>, queue' \o items)
      BY <1>3, <3>1, AddKeeps DEF Keeps
    <3>3. \A p : Keeps(p, p)
      BY DEF Keeps
    <3> QED BY <2>4, <3>2, <3>3, WayGrows
  <2>5. \A n, items : Way(n, queue', h, items, t, queuer, FALSE) =>
                        Way(n, queue', h, items, t, queuer, Idle' \/ grace')
    BY WayFree
  <2>6. CASE Ignore(x.by)
    <3>1. skipped' = skipped \cup {x.by} /\ todo' = todo /\ queuer' = queuer /\ queued' = queued
      BY <2>6 DEF Ignore
    <3>2. \A n \in 1 .. asked : Settled(n)' \/ Way(n, queue', h, <<>>, t, queuer, FALSE)
      BY <2>3, <3>1
    <3> QED BY <1>2, <1>3, <2>2, <2>5, <3>1, <3>2, AskedKeeps
  <2>7. CASE SignalIt(x.by)
    <3>1. PICK items \in Seq(Control) : items = <<Item("signal", Nobody)>>
      BY JobItems
    <3>2. /\ skipped' = skipped \cup {x.by} /\ queuer' = queuer /\ queued' = queued
          /\ todo' = [todo EXCEPT !["job"] = items]
      BY <2>7, <3>1 DEF SignalIt, JobSends
    <3>3. \A n \in 1 .. asked : Settled(n)' \/ Way(n, queue', h, <<>>, t, queuer, FALSE)
      BY <2>3, <3>2
    <3>4. \A n \in 1 .. asked :
            Settled(n)' \/ Way(n, queue', h, items, t, queuer, Idle' \/ grace')
      BY <2>4, <2>5, <3>3
    <3> QED BY <1>2, <1>3, <3>1, <3>2, <3>4, JobItems, AskedKeeps
  <2>8. CASE RestartIt
    <3>1. /\ todo' = [todo EXCEPT !["job"] = RestartAndSetup]
          /\ queuer' = queuer /\ queued' = queued
      BY <2>8 DEF RestartIt, AnyRestartIt, JobSends
    <3>2. RestartAndSetup \in Seq(Control) /\ ~Has(RestartAndSetup, SetupLate)
      BY <1>3, HandlerItems
    <3>3. Comes(queue' \o RestartAndSetup, FALSE)
      BY <1>3, StartComes
    <3>4. \A n : Way(n, queue', h, RestartAndSetup, t, queuer, FALSE)
      BY <3>3 DEF Way
    <3> QED BY <1>2, <1>3, <2>5, <3>1, <3>2, <3>4, AskedKeeps
  <2>9. CASE QueueRestart
    <3>1. ~queued /\ queued' = TRUE /\ queuer' = "ask" /\ todo' = todo
      BY <2>9 DEF QueueRestart
    <3>2. Flagged(queued', queuer', queue', t) /\ queuer' \in QueuerStates
      BY <1>3, <3>1 DEF Flagged, QueuerStates
    <3>3. \A n : Way(n, queue', h, <<>>, t, queuer', Idle' \/ grace')
      BY <3>1 DEF Way
    <3> QED BY <1>2, <1>3, <2>2, <3>1, <3>2, <3>3, AskedKeeps
  <2>10. CASE AlreadyQueued(x.by)
    <3>1. /\ queued /\ todo' = todo /\ queuer' = queuer /\ queued' = queued
          /\ skipped' = IF TooLate THEN skipped \cup {x.by} ELSE skipped
      BY <2>10 DEF AlreadyQueued
    <3>2. CASE TooLate
      <4>1. \A n \in 1 .. asked : Settled(n)' \/ Way(n, queue', h, <<>>, t, queuer, FALSE)
        BY <2>3, <3>1, <3>2
      <4> QED BY <1>2, <1>3, <2>2, <2>5, <3>1, <4>1, AskedKeeps
    <3>3. CASE ~TooLate
      <4>1. queuer \in {"ask", "await"} \/ StartLate \in Range(t \o queue)
        <5>1. queuer \in {"ask", "await", "run", "reset"}
          BY <1>3, <3>1 DEF Flagged, QueuerStates
        <5> QED BY <3>3, <5>1 DEF TooLate, StartLate
      <4>2. StartLate \in Range(t \o queue) => Has(queue' \o t, StartLate)
        <5>1. queue \in Seq(Control)
          BY <1>2 DEF Taken, Typed
        <5>2. ASSUME StartLate \in Range(t \o queue) PROVE Has(t \o queue, StartLate)
          <6>1. PICK p \in Seq(Control) : p = t \o queue
            BY <1>3, <5>1, ConcatProperties
          <6>2. PICK i \in DOMAIN p : p[i] = StartLate
            BY <5>2, <6>1 DEF Range
          <6> QED BY <6>1, <6>2 DEF Has
        <5>3. Has(t \o queue, StartLate) => Has(queue \o t, StartLate)
          BY <1>3, <5>1, HasJoined
        <5>4. x # StartLate
          BY <1>3, ItemsApart
        <5>5. Has(queue \o t, StartLate) => x = StartLate \/ Has(queue' \o t, StartLate)
          BY <1>2 DEF Taken
        <5> QED BY <5>2, <5>3, <5>4, <5>5
      <4>3. \A n : Way(n, queue', h, <<>>, t, queuer, Idle' \/ grace')
        BY <4>1, <4>2 DEF Way
      <4> QED BY <1>2, <1>3, <2>2, <3>1, <4>3, AskedKeeps
    <3> QED BY <3>2, <3>3
  <2> QED BY <2>1, <2>6, <2>7, <2>8, <2>9, <2>10 DEF WhenBusy
<1> QED BY <1>5, <1>6

-----------------------------------------------------------------------------
LEMMA InitKeeps == ASSUME BusyInit, Distinct PROVE BusyInv
<1>1. /\ asked = 0 /\ tried = 0 /\ queue = <<>> /\ watchers = <<>> /\ queuer = "none"
      /\ queued = FALSE /\ todo = [s \in Senders |-> <<>>]
  BY DEF BusyInit
<1>2. todo["handler"] = <<>> /\ todo["job"] = <<>> /\ todo["queuer"] = <<>>
      /\ todo \in [Senders -> Seq(Control)]
  BY <1>1 DEF Senders
<1>3. Typed
  BY <1>1, <1>2 DEF Typed, QueuerStates
<1>4. <<>> \o <<>> = <<>>
  OBVIOUS
<1>5. ~Has(<<>>, SetupLate) /\ Once(<<>>)
  BY DEF Has, Once
<1>6. FlagInv
  BY <1>1, <1>2, <1>4, <1>5 DEF FlagInv, Flagged
<1>7. WayInv
  BY <1>1 DEF WayInv
<1> QED BY <1>3, <1>6, <1>7 DEF BusyInv

LEMMA NextKeeps == ASSUME BusyInv, Distinct, [BusyNext]_busyVars PROVE BusyInv'
<1>1. CASE \E batch \in Batches : Handle(batch)
  BY <1>1, HandlerKeeps
<1>2. CASE HandleSynthetic
  BY <1>2, HandlerKeeps
<1>3. CASE \E s \in Senders : Send(s)
  BY <1>3, SendKeeps
<1>4. CASE (\E outcome \in {"ok", "fail"} : EndsByItself(outcome)) \/ GraceEnds
  BY <1>4, EndsKeeps
<1>5. CASE Serve
  BY <1>5, StartKeeps, StopKeeps, GracefulKeeps, OthersKeep, QueryKeeps, SetupKeeps DEF Serve
<1>6. CASE \E w \in DOMAIN watchers : Watch(w) \/ TimeRunsOut(w)
  BY <1>6, WatchKeeps
<1>7. CASE QueuerAsks \/ QueuerResets
  BY <1>7, QueuerKeeps
<1>8. CASE UNCHANGED busyVars
  <2>1. Calm /\ UNCHANGED <<queue, todo, queuer, queued, watchers>>
    BY <1>8 DEF busyVars, Calm, handlerVars
  <2>2. watchers' \in Seq(WatcherStates)
    BY <2>1 DEF BusyInv, Typed
  <2> QED BY <2>1, <2>2, QuietKeeps
<1> QED BY <1>1, <1>2, <1>3, <1>4, <1>5, <1>6, <1>7, <1>8 DEF BusyNext

LEMMA WayIsOnTheWay == ASSUME BusyInv, Distinct PROVE NoChangeForgotten
<1>1. queue \in Seq(Control) /\ todo \in [Senders -> Seq(Control)]
  BY DEF BusyInv, Typed
<1>2. ASSUME NEW p \in Seq(Control), NEW item, Has(p, item) PROVE item \in Range(p)
  BY <1>2 DEF Has, Range
<1>3. ASSUME NEW s \in Senders, NEW item, Has(queue \o todo[s], item) PROVE item \in OnTheWay
  <2>1. todo[s] \in Seq(Control) /\ (Has(queue, item) \/ Has(todo[s], item))
    BY <1>1, <1>3, HasJoined
  <2>2. item \in Range(queue) \/ item \in Range(todo[s])
    BY <1>1, <1>2, <2>1
  <2>3. Range(todo[s]) \in {Range(todo[r]) : r \in Senders}
    OBVIOUS
  <2> QED BY <2>2, <2>3 DEF OnTheWay
<1>4. "handler" \in Senders /\ "job" \in Senders /\ "queuer" \in Senders
  BY DEF Senders
<1>5. ASSUME NEW p, NEW free, Comes(p, free) PROVE Has(p, StartNow)
  BY <1>5 DEF Comes, Has
<1>6. ASSUME NEW n \in 1 .. asked, ~Settled(n)
      PROVE  \/ Item("query", n) \in OnTheWay
             \/ queuer \in {"ask", "await"}
             \/ StartNow \in OnTheWay
             \/ StartLate \in OnTheWay
  <2>1. Way(n, queue, todo["handler"], todo["job"], todo["queuer"], queuer, Idle \/ grace)
    BY <1>6 DEF BusyInv, WayInv
  <2> QED BY <1>3, <1>4, <1>5, <2>1 DEF Way
<1> QED BY <1>6 DEF NoChangeForgotten, StartNow, StartLate

(* No change is forgotten, in any mode and whatever the settings: as long  *)
(* as it is not settled, its question, a start, or a restart that waits for*)
(* the end is on its way to the job.                                       *)
THEOREM NoChangeForgottenTheorem == BusySpec => []NoChangeForgotten
<1>1. Distinct
  BY QueuerIsNumber
<1>2. BusyInit => BusyInv
  BY <1>1, InitKeeps
<1>3. BusyInv /\ [BusyNext]_busyVars => BusyInv'
  BY <1>1, NextKeeps
<1>4. BusyInv => NoChangeForgotten
  BY <1>1, WayIsOnTheWay
<1> QED BY <1>2, <1>3, <1>4, PTL DEF BusySpec
=============================================================================
