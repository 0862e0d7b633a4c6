----------------------------- MODULE TicketFlag -----------------------------
(***************************************************************************)
(* Tickets of watchexec-supervisor.  A ticket is two flags, the job's      *)
(* "gone" flag, which every ticket of the job and every clone shares, and  *)
(* the "done" flag of its control.  A flag is a boolean and one waker slot *)
(* (AtomicWaker): the last task to register owns the slot, and raising the *)
(* flag stores the boolean, then wakes the owner.                          *)
(***************************************************************************)
EXTENDS Naturals

CONSTANTS Tasks,     \* tasks that each await one ticket
          Controls   \* controls, one done flag each

ASSUME ControlsAreNotGone == "gone" \notin Controls

Flags == Controls \cup {"gone"}

VARIABLES
  awaits,   \* awaits[w]: the control whose ticket task w awaits
  set,      \* flags whose boolean is stored
  raising,  \* flags stored by a raise() that has not reached wake()
  waker,    \* waker[f]: the task registered in f's slot, if any
  inPoll,   \* where task w is in Flag::poll
  at,       \* the flag of its ticket task w is polling
  woken     \* tasks the runtime will poll again

ticketVars == <<awaits, set, raising, waker, inPoll, at, woken>>

Of(w) == {"gone", awaits[w]}

FlagTypes ==
  /\ awaits \in [Tasks -> Controls]
  /\ set \subseteq Flags /\ raising \subseteq set
  /\ waker \in [Flags -> SUBSET Tasks]
  /\ inPoll \in [Tasks -> {"check", "register", "recheck", "asleep", "ready"}]
  /\ at \in [Tasks -> Flags] /\ \A w \in Tasks : at[w] \in Of(w)
  /\ woken \subseteq Tasks

FlagInit ==
  /\ awaits \in [Tasks -> Controls]
  /\ set = {} /\ raising = {}
  /\ waker = [f \in Flags |-> {}]
  /\ inPoll = [w \in Tasks |-> "check"]
  /\ at = [w \in Tasks |-> "gone"]
  /\ woken = {}

-----------------------------------------------------------------------------
(* Ticket::poll polls select(job_gone, control_done): the gone flag, then  *)
(* the done flag if the first is pending.                                  *)

FlagPending(w) ==
  \/ /\ at[w] = "gone"
     /\ at' = [at EXCEPT ![w] = awaits[w]]
     /\ inPoll' = [inPoll EXCEPT ![w] = "check"]
  \/ /\ at[w] # "gone"
     /\ inPoll' = [inPoll EXCEPT ![w] = "asleep"]
     /\ UNCHANGED at

FlagReady(w) == inPoll' = [inPoll EXCEPT ![w] = "ready"] /\ UNCHANGED at

Check(w) ==
  /\ inPoll[w] = "check"
  /\ \/ at[w] \in set /\ FlagReady(w)
     \/ at[w] \notin set /\ inPoll' = [inPoll EXCEPT ![w] = "register"] /\ UNCHANGED at
  /\ UNCHANGED <<awaits, set, raising, waker, woken>>

Register(w) ==
  /\ inPoll[w] = "register"
  /\ waker' = [waker EXCEPT ![at[w]] = {w}]
  /\ inPoll' = [inPoll EXCEPT ![w] = "recheck"]
  /\ UNCHANGED <<awaits, set, raising, at, woken>>

(* The second look, which sees the flags in seen.                          *)
AnyRecheck(w, seen) ==
  /\ inPoll[w] = "recheck"
  /\ \/ at[w] \in seen /\ FlagReady(w)
     \/ at[w] \notin seen /\ FlagPending(w)
  /\ UNCHANGED <<awaits, set, raising, waker, woken>>
NoRecheck(w) == AnyRecheck(w, {})
Recheck(w) == AnyRecheck(w, set)

(* The runtime polls a woken task again, from the first flag.              *)
Repoll(w) ==
  /\ inPoll[w] = "asleep" /\ w \in woken
  /\ woken' = woken \ {w}
  /\ inPoll' = [inPoll EXCEPT ![w] = "check"] /\ at' = [at EXCEPT ![w] = "gone"]
  /\ UNCHANGED <<awaits, set, raising, waker>>

(* Flag::raise, called by the job task: the store, then wake(), which      *)
(* empties the slot and wakes its owner.                                   *)
AnyRaise(f, stored) ==
  /\ f \notin set
  /\ set' = stored /\ raising' = raising \cup {f}
  /\ UNCHANGED <<awaits, waker, inPoll, at, woken>>
RaiseUnstored(f) == AnyRaise(f, set)
Raise(f) == AnyRaise(f, set \cup {f})

Wake(f) ==
  /\ f \in raising
  /\ raising' = raising \ {f}
  /\ woken' = woken \cup waker[f]
  /\ waker' = [waker EXCEPT ![f] = {}]
  /\ UNCHANGED <<awaits, set, inPoll, at>>

Poll(w) == Check(w) \/ Register(w) \/ Recheck(w) \/ Repoll(w)
FlagNext == (\E w \in Tasks : Poll(w)) \/ (\E f \in Flags : Raise(f) \/ Wake(f))

FlagSpec == FlagInit /\ [][FlagNext]_ticketVars

(* The runtime polls every woken task, and raise() does not stop half-way. *)
FairFlagSpec ==
  /\ FlagSpec
  /\ (\A w \in Tasks : WF_ticketVars(Poll(w))) /\ (\A f \in Flags : WF_ticketVars(Wake(f)))

-----------------------------------------------------------------------------
(* A flag that at most one task awaits.                                    *)
Sole(f) == \A v, w \in Tasks : f \in Of(v) /\ f \in Of(w) => v = w

(* No lost wake-up (flag.rs:63): once raise() returned, the one task that  *)
(* awaits the flag is not asleep for good, wherever the raise fell between *)
(* its check, its registration and its second check.                       *)
NoLostWakeup ==
  \A w \in Tasks : \A f \in Of(w) :
    Sole(f) /\ f \in set \ raising /\ inPoll[w] = "asleep" => w \in woken

(* A ticket awaited by one task resolves once its flag is raised.          *)
SoleTicketResolves ==
  \A w \in Tasks : (\E f \in Of(w) : Sole(f) /\ f \in set) ~> inPoll[w] = "ready"

(* job.rs:37, "If a job task stops gracefully, all pending tickets will    *)
(* resolve immediately".                                                   *)
AllPendingResolve == \A w \in Tasks : "gone" \in set ~> inPoll[w] = "ready"
=============================================================================
