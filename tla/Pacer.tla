-------------------------------- MODULE Pacer --------------------------------
(***************************************************************************)
(* Pacer::wait of diode_send: the thread that sends files and the thread   *)
(* that forwards UDP share one pacer, without a lock.  Each call takes a   *)
(* slot off next_deadline_nanos by compare-and-exchange and returns when   *)
(* the slot has come.  One action per access to the shared word, so calls  *)
(* interleave in every way; the clock may move between any two of them.    *)
(***************************************************************************)
EXTENDS Integers, FiniteSets

CONSTANTS
  Threads,
  interval_nanos,  \* time between two packets; 0 would disable the pacer
  MaxStart,        \* bound of the model: no call begins after this time
  MaxTime          \* bound of the model: the clock stops here

ASSUME PacerAssumption ==
  /\ interval_nanos \in Nat \ {0}
  /\ MaxStart \in Nat /\ MaxTime \in Nat

VARIABLES
  now,            \* the clock, base.elapsed()
  next_deadline,  \* next_deadline_nanos
  call,           \* call[t]: the locals of thread t's call of wait
  slots,          \* history: the slots given out
  returned        \* history: beginning and slot of the calls that returned

vars == <<now, next_deadline, call, slots, returned>>

NotCalling == [pc |-> "out", now_ns |-> 0, prev |-> 0, slot |-> 0]

Init ==
  /\ now = 0
  /\ next_deadline = 0
  /\ call = [t \in Threads |-> NotCalling]
  /\ slots = {}
  /\ returned = {}

\* The clock is read once, before the loop.
Enter(t) ==
  /\ call[t].pc = "out"
  /\ now <= MaxStart
  /\ call' = [call EXCEPT ![t] = [NotCalling EXCEPT !.pc = "load", !.now_ns = now]]
  /\ UNCHANGED <<now, next_deadline, slots, returned>>

Load(t) ==
  /\ call[t].pc = "load"
  /\ call' = [call EXCEPT ![t].pc = "cas", ![t].prev = next_deadline]
  /\ UNCHANGED <<now, next_deadline, slots, returned>>

\* Idle time is credited.
Target_NoCatchUp(c) == c.prev

Target(c) == IF c.prev > c.now_ns THEN c.prev ELSE c.now_ns

\* The slot is taken whether or not somebody else took it.
Exchange_PlainStore(t) ==
  /\ call[t].pc = "cas"
  /\ next_deadline' = Target(call[t]) + interval_nanos
  /\ slots' = slots \cup {Target(call[t])}
  /\ call' = [call EXCEPT ![t].pc = "wait", ![t].slot = Target(call[t])]
  /\ UNCHANGED <<now, returned>>

\* compare_exchange_weak succeeds: the slot is taken.
Exchange(t) ==
  /\ call[t].pc = "cas"
  /\ next_deadline = call[t].prev
  /\ next_deadline' = Target(call[t]) + interval_nanos
  /\ slots' = slots \cup {Target(call[t])}
  /\ call' = [call EXCEPT ![t].pc = "wait", ![t].slot = Target(call[t])]
  /\ UNCHANGED <<now, returned>>

\* The value that was compared with is compared with again.
Retry_Blindly(t) ==
  /\ call[t].pc = "cas"
  /\ UNCHANGED vars

\* It fails, because of another thread or spuriously, and returns the value.
Retry(t) ==
  /\ call[t].pc = "cas"
  /\ call' = [call EXCEPT ![t].prev = next_deadline]
  /\ UNCHANGED <<now, next_deadline, slots, returned>>

\* Sleeping and spinning end when the slot has come.
Return(t) ==
  /\ call[t].pc = "wait"
  /\ now >= call[t].slot
  /\ call' = [call EXCEPT ![t] = NotCalling]
  /\ returned' = returned \cup {[entered |-> call[t].now_ns, slot |-> call[t].slot]}
  /\ UNCHANGED <<now, next_deadline, slots>>

Tick ==
  /\ now < MaxTime
  /\ now' = now + 1
  /\ UNCHANGED <<next_deadline, call, slots, returned>>

Next ==
  \/ \E t \in Threads : Enter(t) \/ Load(t) \/ Exchange(t) \/ Retry(t) \/ Return(t)
  \/ Tick

Spec == Init /\ [][Next]_vars

\* Threads run and the clock moves.  An exchange that could succeed again and
\* again does so in the end: it fails spuriously, or for another thread's
\* success, only finitely often.
FairSpec ==
  /\ Spec
  /\ WF_vars(Tick)
  /\ \A t \in Threads :
       WF_vars(Load(t)) /\ WF_vars(Retry(t)) /\ WF_vars(Return(t)) /\ SF_vars(Exchange(t))

-----------------------------------------------------------------------------
(* Properties                                                              *)

\* However the threads interleave, no two calls get slots closer to each other
\* than the interval, and none gets a slot another one has.
SlotsAreSpaced ==
  /\ \A s, r \in slots : s # r => s - r >= interval_nanos \/ r - s >= interval_nanos
  /\ \A t1, t2 \in Threads :
       t1 # t2 /\ call[t1].pc = "wait" /\ call[t2].pc = "wait" => call[t1].slot # call[t2].slot

\* In no stretch of time more calls pass than it has intervals, and one: not
\* after an idle time either, which earns no credit.  (A call counts from its
\* beginning: one that was held up may return late and close to another.)
RateIsBounded ==
  \A x \in 0 .. now :
    Cardinality({r \in returned : r.entered >= x}) <= (now - x) \div interval_nanos + 1

\* Every call returns.
EveryCallReturns == \A t \in Threads : (call[t].pc # "out") ~> (call[t].pc = "out")

=============================================================================
