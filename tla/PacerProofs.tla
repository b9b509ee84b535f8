----------------------------- MODULE PacerProofs -----------------------------
(***************************************************************************)
(* Proofs about the pacer, for any number of threads: the slots it gives   *)
(* out are spaced, and so no stretch of time sees more calls pass than it  *)
(* has intervals, and one.                                                 *)
(***************************************************************************)
EXTENDS Pacer, FiniteSetTheorems, TLAPS

TypeOK ==
  /\ now \in Nat /\ next_deadline \in Nat
  /\ call \in [Threads -> [pc: {"out", "load", "cas", "wait"}, now_ns: Nat, prev: Nat, slot: Nat]]
  /\ slots \subseteq Nat

\* The deadline is an interval past every slot given out, and a thread that
\* waits has been given its slot.
PacerInv ==
  /\ TypeOK
  /\ \A s \in slots : s + interval_nanos <= next_deadline
  /\ \A t \in Threads : call[t].pc = "wait" => call[t].slot \in slots
  /\ SlotsAreSpaced

\* Initially no slot is given out and nobody waits.
LEMMA InitPacerInv == Init => PacerInv
BY DEF Init, PacerInv, TypeOK, SlotsAreSpaced, NotCalling

\* A step that gives out no slot and makes nobody wait keeps the invariant.
LEMMA QuietStep ==
  ASSUME PacerInv, TypeOK', slots' = slots, next_deadline' = next_deadline,
         \A t \in Threads : call'[t].pc = "wait" => call[t].pc = "wait" /\ call'[t].slot = call[t].slot
  PROVE  PacerInv'
BY DEF PacerInv, SlotsAreSpaced

\* The exchange succeeds only on the deadline as it is, so the slot it gives
\* out is past every other one by an interval.
LEMMA ExchangeInv ==
  ASSUME PacerInv, NEW t \in Threads, Exchange(t)
  PROVE  PacerInv'
<1> DEFINE new == Target(call[t])
<1>1. call[t] \in [pc: {"out", "load", "cas", "wait"}, now_ns: Nat, prev: Nat, slot: Nat]
      /\ next_deadline \in Nat /\ interval_nanos \in Nat \ {0}
  BY PacerAssumption DEF PacerInv, TypeOK
<1>2. new \in Nat /\ new >= next_deadline
  BY <1>1 DEF Exchange, Target
<1>3. \A s \in slots : s \in Nat /\ s + interval_nanos <= new
  BY <1>1, <1>2 DEF PacerInv, TypeOK
<1>4. /\ next_deadline' = new + interval_nanos
      /\ slots' = slots \cup {new}
      /\ call' = [call EXCEPT ![t].pc = "wait", ![t].slot = new]
      /\ now' = now
  BY DEF Exchange
<1> HIDE DEF new
<1>5. TypeOK'
  <2> DEFINE Call == [pc: {"out", "load", "cas", "wait"}, now_ns: Nat, prev: Nat, slot: Nat]
             c == [call[t] EXCEPT !.pc = "wait", !.slot = new]
  <2>1. c \in Call
    BY <1>1, <1>2
  <2>2. call \in [Threads -> Call] /\ call' = [call EXCEPT ![t] = c]
    BY <1>4 DEF PacerInv, TypeOK
  <2>3. call' \in [Threads -> Call]
    <3> HIDE DEF Call, c
    <3> QED
      BY <2>1, <2>2
  <2>4. now' \in Nat /\ next_deadline' \in Nat /\ slots' \subseteq Nat
    BY <1>1, <1>2, <1>4 DEF PacerInv, TypeOK
  <2> QED
    BY <2>3, <2>4 DEF TypeOK
<1>6. \A s \in slots' : s + interval_nanos <= next_deadline'
  BY <1>1, <1>2, <1>3, <1>4
<1>7. call'[t].slot = new /\ \A u \in Threads \ {t} : call'[u] = call[u]
  BY <1>4 DEF PacerInv, TypeOK
<1>8. \A u \in Threads : call'[u].pc = "wait" => call'[u].slot \in slots'
  <2> SUFFICES ASSUME NEW u \in Threads, call'[u].pc = "wait"
               PROVE  call'[u].slot \in slots'
    OBVIOUS
  <2>1. CASE u = t
    BY <1>4, <1>7, <2>1
  <2>2. CASE u # t
    <3>1. call'[u] = call[u]
      BY <1>7, <2>2
    <3>2. call[u].slot \in slots
      BY <3>1 DEF PacerInv
    <3>3. slots \subseteq slots'
      BY <1>4
    <3> QED
      BY <3>1, <3>2, <3>3
  <2> QED
    BY <2>1, <2>2
<1>9. \A s, r \in slots' : s # r => s - r >= interval_nanos \/ r - s >= interval_nanos
  <2>1. \A s \in slots : new - s >= interval_nanos
    BY <1>1, <1>2, <1>3
  <2> QED
    BY <1>4, <2>1 DEF PacerInv, SlotsAreSpaced
<1>10. new \notin slots
  BY <1>1, <1>2, <1>3
<1>11. \A t1, t2 \in Threads :
         t1 # t2 /\ call'[t1].pc = "wait" /\ call'[t2].pc = "wait" => call'[t1].slot # call'[t2].slot
  <2> SUFFICES ASSUME NEW t1 \in Threads, NEW t2 \in Threads, t1 # t2,
                      call'[t1].pc = "wait", call'[t2].pc = "wait"
               PROVE  call'[t1].slot # call'[t2].slot
    OBVIOUS
  <2>1. CASE t1 # t /\ t2 # t
    <3>1. call'[t1] = call[t1] /\ call'[t2] = call[t2]
      BY <1>7, <2>1
    <3> QED
      BY <3>1 DEF PacerInv, SlotsAreSpaced
  <2>2. CASE t1 = t \/ t2 = t
    <3>1. \A u \in Threads \ {t} : call'[u].pc = "wait" => call'[u].slot \in slots
      BY <1>7 DEF PacerInv
    <3> QED
      BY <1>7, <1>10, <2>2, <3>1
  <2> QED
    BY <2>1, <2>2
<1> QED
  BY <1>5, <1>6, <1>8, <1>9, <1>11 DEF PacerInv, SlotsAreSpaced

\* Every step keeps the invariant.
LEMMA NextPacerInv == PacerInv /\ [Next]_vars => PacerInv'
<1> SUFFICES ASSUME PacerInv, [Next]_vars
             PROVE  PacerInv'
  OBVIOUS
<1> USE DEF TypeOK, NotCalling
<1>1. ASSUME NEW t \in Threads, Enter(t)
      PROVE  PacerInv'
  <2>1. TypeOK' /\ slots' = slots /\ next_deadline' = next_deadline
    BY <1>1 DEF Enter, PacerInv
  <2>2. \A u \in Threads : call'[u].pc = "wait" => call[u].pc = "wait" /\ call'[u].slot = call[u].slot
    BY <1>1 DEF Enter, PacerInv
  <2> QED
    BY <2>1, <2>2, QuietStep
<1>2. ASSUME NEW t \in Threads, Load(t) \/ Retry(t)
      PROVE  PacerInv'
  <2>1. TypeOK' /\ slots' = slots /\ next_deadline' = next_deadline
    BY <1>2 DEF Load, Retry, PacerInv
  <2>2. \A u \in Threads : call'[u].pc = "wait" => call[u].pc = "wait" /\ call'[u].slot = call[u].slot
    BY <1>2 DEF Load, Retry, PacerInv
  <2> QED
    BY <2>1, <2>2, QuietStep
<1>3. ASSUME NEW t \in Threads, Return(t)
      PROVE  PacerInv'
  <2>1. TypeOK' /\ slots' = slots /\ next_deadline' = next_deadline
    BY <1>3 DEF Return, PacerInv
  <2>2. \A u \in Threads : call'[u].pc = "wait" => call[u].pc = "wait" /\ call'[u].slot = call[u].slot
    BY <1>3 DEF Return, PacerInv
  <2> QED
    BY <2>1, <2>2, QuietStep
<1>4. CASE Tick
  BY <1>4 DEF Tick, PacerInv, SlotsAreSpaced
<1>5. CASE UNCHANGED vars
  BY <1>5 DEF vars, PacerInv, SlotsAreSpaced
<1> QED
  BY <1>1, <1>2, <1>3, <1>4, <1>5, ExchangeInv DEF Next

\* For any number of threads and any interleaving of their calls, slots are at
\* least an interval apart and no slot is given out twice.
THEOREM SlotsStaySpaced == Spec => []SlotsAreSpaced
<1>1. PacerInv => SlotsAreSpaced
  BY DEF PacerInv
<1> QED
  BY <1>1, InitPacerInv, NextPacerInv, PTL DEF Spec

-----------------------------------------------------------------------------
(* The rate                                                                *)

\* A call that returned was given a slot not before its beginning, the slot has
\* come, and nobody else has it: neither a call that returned nor one that
\* still waits.
PassedInv ==
  /\ returned \subseteq [entered: Nat, slot: Nat]
  /\ \A r \in returned : r.slot \in slots /\ r.entered <= r.slot /\ r.slot <= now
  /\ \A r, q \in returned : r.slot = q.slot => r = q
  /\ \A t \in Threads : call[t].pc = "wait" =>
       /\ call[t].now_ns <= call[t].slot
       /\ \A r \in returned : r.slot # call[t].slot

\* Initially no call has returned and nobody waits.
LEMMA InitPassedInv == Init => PassedInv
BY DEF Init, PassedInv, NotCalling

\* A step after which nobody returned and nobody new waits keeps it.
LEMMA QuietPassed ==
  ASSUME PacerInv, PassedInv, now' \in Nat, now <= now', slots' = slots, returned' = returned,
         \A t \in Threads : call'[t].pc = "wait" => call'[t] = call[t]
  PROVE  PassedInv'
<1>1. now \in Nat /\ returned \subseteq [entered: Nat, slot: Nat]
  BY DEF PacerInv, TypeOK, PassedInv
<1>2. \A r \in returned' : r.slot \in slots' /\ r.entered <= r.slot /\ r.slot <= now'
  BY <1>1 DEF PassedInv
<1>3. \A t \in Threads : call'[t].pc = "wait" =>
        /\ call'[t].now_ns <= call'[t].slot
        /\ \A r \in returned' : r.slot # call'[t].slot
  BY DEF PassedInv
<1> QED
  BY <1>1, <1>2, <1>3 DEF PassedInv

\* The slot an exchange gives out is new, and not before the call began.
LEMMA ExchangePassed ==
  ASSUME PacerInv, PassedInv, NEW t \in Threads, Exchange(t)
  PROVE  PassedInv'
<1> DEFINE new == Target(call[t])
<1>1. call[t] \in [pc: {"out", "load", "cas", "wait"}, now_ns: Nat, prev: Nat, slot: Nat]
      /\ next_deadline \in Nat /\ interval_nanos \in Nat \ {0}
  BY PacerAssumption DEF PacerInv, TypeOK
<1>2. new \in Nat /\ new >= next_deadline /\ call[t].now_ns <= new
  BY <1>1 DEF Exchange, Target
<1>3. /\ slots' = slots \cup {new} /\ returned' = returned /\ now' = now
      /\ call' = [call EXCEPT ![t].pc = "wait", ![t].slot = new]
  BY DEF Exchange
<1> HIDE DEF new
<1>4. new \notin slots
  BY <1>1, <1>2 DEF PacerInv, TypeOK
<1>5. call'[t].slot = new /\ call'[t].now_ns = call[t].now_ns
      /\ \A u \in Threads \ {t} : call'[u] = call[u]
  BY <1>3 DEF PacerInv, TypeOK
<1>6. ASSUME NEW u \in Threads, call'[u].pc = "wait"
      PROVE  /\ call'[u].now_ns <= call'[u].slot
             /\ \A r \in returned' : r.slot # call'[u].slot
  <2>1. CASE u = t
    <3>1. call'[u].now_ns <= call'[u].slot /\ call'[u].slot = new
      BY <1>2, <1>5, <2>1
    <3> QED
      BY <1>3, <1>4, <3>1 DEF PassedInv
  <2>2. CASE u # t
    <3>1. call'[u] = call[u]
      BY <1>5, <2>2
    <3> QED
      BY <1>3, <1>6, <3>1 DEF PassedInv
  <2> QED
    BY <2>1, <2>2
<1> QED
  BY <1>3, <1>6 DEF PassedInv

\* A call returns when its slot has come, and takes it along.
LEMMA ReturnPassed ==
  ASSUME PacerInv, PassedInv, NEW t \in Threads, Return(t)
  PROVE  PassedInv'
<1> DEFINE mine == [entered |-> call[t].now_ns, slot |-> call[t].slot]
<1>1. call[t].now_ns \in Nat /\ call[t].slot \in Nat /\ now \in Nat
  BY DEF PacerInv, TypeOK
<1>2. /\ slots' = slots /\ returned' = returned \cup {mine} /\ now' = now
      /\ call[t].pc = "wait" /\ call[t].slot <= now
  BY <1>1 DEF Return
<1>3. /\ mine \in [entered: Nat, slot: Nat] /\ mine.slot = call[t].slot
      /\ mine.slot \in slots /\ mine.entered <= mine.slot /\ mine.slot <= now
      /\ \A r \in returned : r.slot # mine.slot
  BY <1>1, <1>2 DEF PacerInv, PassedInv
<1> HIDE DEF mine
<1>4. returned' \subseteq [entered: Nat, slot: Nat]
  BY <1>2, <1>3 DEF PassedInv
<1>5. \A r \in returned' : r.slot \in slots' /\ r.entered <= r.slot /\ r.slot <= now'
  BY <1>2, <1>3 DEF PassedInv
<1>6. \A r, q \in returned' : r.slot = q.slot => r = q
  BY <1>2, <1>3 DEF PassedInv
<1>7. call'[t].pc # "wait" /\ \A u \in Threads \ {t} : call'[u] = call[u]
  BY DEF Return, NotCalling, PacerInv, TypeOK
<1>8. ASSUME NEW u \in Threads, call'[u].pc = "wait"
      PROVE  /\ call'[u].now_ns <= call'[u].slot
             /\ \A r \in returned' : r.slot # call'[u].slot
  <2>1. u # t /\ call'[u] = call[u]
    BY <1>7, <1>8
  <2>2. call[u].slot # call[t].slot
    BY <1>2, <1>8, <2>1 DEF PacerInv, SlotsAreSpaced
  <2> QED
    BY <1>2, <1>3, <1>8, <2>1, <2>2 DEF PassedInv
<1> QED
  BY <1>4, <1>5, <1>6, <1>8 DEF PassedInv

\* Every step keeps both invariants.
LEMMA NextPassedInv == PacerInv /\ PassedInv /\ [Next]_vars => PassedInv'
<1> SUFFICES ASSUME PacerInv, PassedInv, [Next]_vars
             PROVE  PassedInv'
  OBVIOUS
<1>1. now \in Nat
  BY DEF PacerInv, TypeOK
<1>2. ASSUME NEW t \in Threads, Enter(t) \/ Load(t) \/ Retry(t)
      PROVE  PassedInv'
  <2>1. \A u \in Threads : call'[u].pc = "wait" => call'[u] = call[u]
    BY <1>2 DEF Enter, Load, Retry, NotCalling, PacerInv, TypeOK
  <2>2. now' = now /\ slots' = slots /\ returned' = returned
    BY <1>2 DEF Enter, Load, Retry
  <2> QED
    BY <1>1, <2>1, <2>2, QuietPassed
<1>3. CASE Tick
  BY <1>1, <1>3, QuietPassed DEF Tick
<1>4. CASE UNCHANGED vars
  BY <1>1, <1>4, QuietPassed DEF vars
<1> QED
  BY <1>2, <1>3, <1>4, ExchangePassed, ReturnPassed DEF Next

\* Numbers at least n apart lie in different intervals of length n.
LEMMA DifferentIntervals ==
  ASSUME NEW n \in Nat \ {0}, NEW a \in Nat, NEW b \in Nat, a \div n = b \div n
  PROVE  a - b < n /\ b - a < n
<1>1. /\ a = n * (a \div n) + (a % n) /\ a % n \in 0 .. n - 1
      /\ b = n * (b \div n) + (b % n) /\ b % n \in 0 .. n - 1
  BY SMT
<1> QED
  BY <1>1

\* The calls that began at x or later and returned have slots in x .. now, an
\* interval apart, and so no more of them than intervals begin there.
LEMMA PassedIsBounded ==
  ASSUME PacerInv, PassedInv
  PROVE  RateIsBounded
<1> SUFFICES ASSUME NEW x \in 0 .. now
             PROVE  Cardinality({r \in returned : r.entered >= x})
                      <= (now - x) \div interval_nanos + 1
  BY DEF RateIsBounded
<1> DEFINE S == {r \in returned : r.entered >= x}
           last == (now - x) \div interval_nanos
           f == [r \in S |-> (r.slot - x) \div interval_nanos]
<1>1. now \in Nat /\ x \in Nat /\ interval_nanos \in Nat \ {0} /\ now - x \in Nat
  BY PacerAssumption DEF PacerInv, TypeOK
<1>2. last \in Nat
  BY <1>1
<1>3. \A r \in S : r.slot - x \in Nat /\ r.slot - x <= now - x /\ r.slot \in slots
  BY <1>1 DEF PassedInv
<1>4. ASSUME NEW r \in S
      PROVE  f[r] \in 0 .. last
  <2>1. r.slot - x \in Nat /\ r.slot - x <= now - x
    BY <1>3
  <2>2. \A a, b \in Nat : a <= b => a \div interval_nanos \in 0 .. b \div interval_nanos
    BY <1>1
  <2> QED
    BY <1>1, <2>1, <2>2
<1>5. ASSUME NEW r \in S, NEW q \in S, f[r] = f[q]
      PROVE  r = q
  <2>1. r.slot - q.slot < interval_nanos /\ q.slot - r.slot < interval_nanos
    <3>1. r.slot - x \in Nat /\ q.slot - x \in Nat /\ r.slot \in Nat /\ q.slot \in Nat
      BY <1>3 DEF PacerInv, TypeOK
    <3>2. (r.slot - x) - (q.slot - x) < interval_nanos /\ (q.slot - x) - (r.slot - x) < interval_nanos
      BY <1>1, <1>5, <3>1, DifferentIntervals
    <3> QED
      BY <1>1, <3>1, <3>2
  <2>2. r.slot = q.slot
    <3>1. r.slot \in slots /\ q.slot \in slots /\ slots \subseteq Nat
      BY <1>3 DEF PacerInv, TypeOK
    <3>2. \A a, b \in slots : a - b < interval_nanos /\ b - a < interval_nanos => a = b
      BY <1>1 DEF PacerInv, TypeOK, SlotsAreSpaced
    <3> QED
      BY <2>1, <3>1, <3>2
  <2> QED
    BY <2>2 DEF PassedInv
<1>6. f \in Injection(S, 0 .. last)
  <2> HIDE DEF last
  <2>1. f \in [S -> 0 .. last]
    BY <1>4
  <2> HIDE DEF f, S
  <2> QED
    BY <1>5, <2>1 DEF Injection, IsInjective
<1>7. IsFiniteSet(0 .. last) /\ Cardinality(0 .. last) = last + 1
  BY <1>2, FS_Interval
<1>8. Cardinality(S) <= Cardinality(0 .. last)
  <2> HIDE DEF S, f, last
  <2> QED
    BY <1>6, <1>7, FS_Injection
<1> QED
  BY <1>7, <1>8

\* For any number of threads, however their calls interleave and however long
\* the pacer was idle, in no stretch of time more calls pass than it has
\* intervals, and one.
THEOREM RateStaysBounded == Spec => []RateIsBounded
<1>1. PacerInv /\ PassedInv => RateIsBounded
  BY PassedIsBounded
<1> QED
  BY <1>1, InitPacerInv, NextPacerInv, InitPassedInv, NextPassedInv, PTL DEF Spec

=============================================================================
