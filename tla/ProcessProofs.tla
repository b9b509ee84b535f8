---------------------------- MODULE ProcessProofs ----------------------------
(***************************************************************************)
(* Proofs about the receiver as a process: line 1 of the display is never  *)
(* stale between two packets, whatever arrives and whatever fails; the     *)
(* worker takes every datagram for the packet it was made from; and the    *)
(* process does what module Receiver says.                                 *)
(***************************************************************************)
EXTENDS Process, SequenceTheorems, WellFoundedInduction, TLAPS

\* The transfer in progress has a path, or NoPath; and line 1 is fresh.
LineInv == "file_path" \in DOMAIN state /\ LineOneFresh

\* What line 1 is made of is left alone.
SameLine ==
  /\ "file_path" \in DOMAIN state'
  /\ state'.file_path = state.file_path
  /\ stats' = stats

\* Flipping to a later batch, finalizing this one on the way, and giving up
\* there, are all inside the transfer.
LEMMA EnterSameFile ==
  ASSUME NEW s, "file_path" \in DOMAIN s, NEW batch, NEW io
  PROVE  LET e == R!EnterBatch(s, batch, io)
         IN "file_path" \in DOMAIN e /\ e.file_path = s.file_path
<1> DEFINE c == R!clear_batch(s)
<1>1. "file_path" \in DOMAIN c /\ c.file_path = s.file_path
  BY DEF R!clear_batch
<1> HIDE DEF c
<1>2. LET e == R!advance_to_batch(s, batch, io)
      IN "file_path" \in DOMAIN e /\ e.file_path = s.file_path
  BY <1>1 DEF R!advance_to_batch, c
<1> QED
  BY <1>2 DEF R!EnterBatch

\* A DATA packet neither opens nor ends a transfer, not even if it makes one
\* fail: a failed transfer is reported at its END.
LEMMA DataSameLine ==
  ASSUME "file_path" \in DOMAIN state, NEW packet, NEW io, R!HandleData(packet, io)
  PROVE  SameLine
<1> DEFINE batch == R!batch_for_data(packet.count)
           s == R!EnterBatch(state, batch, io)
<1>1. "file_path" \in DOMAIN s /\ s.file_path = state.file_path
  BY EnterSameFile
<1> HIDE DEF batch
<1>2. stats' = stats /\ (state' = R!buffer_data(s, packet) \/ state' = s)
  BY DEF R!HandleData, batch
<1> HIDE DEF s
<1> QED
  BY <1>1, <1>2 DEF R!buffer_data, SameLine

\* Neither does a PARITY packet.
LEMMA ParitySameLine ==
  ASSUME "file_path" \in DOMAIN state, NEW packet, NEW io, R!HandleParity(packet, io)
  PROVE  SameLine
<1> DEFINE batch == R!batch_for_parity(packet.count)
           idx_in_batch == packet.count % BATCH_PARITY_CHUNKS
           s == R!EnterBatch(state, batch, io)
<1>1. "file_path" \in DOMAIN s /\ s.file_path = state.file_path
  BY EnterSameFile
<1> HIDE DEF batch, idx_in_batch
<1>2. stats' = stats /\ (state' = R!buffer_parity(s, packet, idx_in_batch) \/ state' = s)
  BY DEF R!HandleParity, batch, idx_in_batch
<1> HIDE DEF s
<1> QED
  BY <1>1, <1>2 DEF R!buffer_parity, SameLine

\* Every other packet that is handled leaves a state with a path in it.
LEMMA HandleKeepsField ==
  ASSUME "file_path" \in DOMAIN state, NEW packet, R!Handle(packet)
  PROVE  "file_path" \in DOMAIN state'
<1>1. \/ \E io \in R!Io : \/ R!HandleData(packet, io) \/ R!HandleParity(packet, io)
                          \/ R!EndStored(packet, io) \/ R!EndFailed(packet, io)
      \/ R!StartAgain(packet) \/ R!StartRejected(packet) \/ R!StartNotOpened(packet)
      \/ R!StartOpened(packet) \/ R!Ignore(packet)
  BY DEF R!Handle
<1>2. "file_path" \in DOMAIN R!NewState
  BY DEF R!NewState
<1>3. "file_path" \in DOMAIN R!AfterAbort
  BY <1>2 DEF R!AfterAbort, R!reset_transfer
<1>4. CASE \E io \in R!Io : R!HandleData(packet, io) \/ R!HandleParity(packet, io)
  BY <1>4, DataSameLine, ParitySameLine DEF SameLine
<1>5. CASE R!StartAgain(packet) \/ R!Ignore(packet)
  BY <1>5 DEF R!StartAgain, R!Ignore, R!vars
<1>6. CASE \/ R!StartRejected(packet)
           \/ \E io \in R!Io : R!EndStored(packet, io) \/ R!EndFailed(packet, io)
  BY <1>2, <1>6 DEF R!StartRejected, R!EndStored, R!EndFailed, R!reset_transfer
<1>7. CASE R!StartNotOpened(packet) \/ R!StartOpened(packet)
  BY <1>3, <1>7 DEF R!StartNotOpened, R!StartOpened
<1> QED
  BY <1>1, <1>4, <1>5, <1>6, <1>7

\* A datagram that does not force the display is no START and no END, so it
\* leaves line 1 as it was.
LEMMA UnforcedSameLine ==
  ASSUME "file_path" \in DOMAIN state, NEW f, ~Forced(f),
         f.pkg_type \in {PKG_TYPE[t] : t \in DOMAIN PKG_TYPE}, R!Handle(Understood(f))
  PROVE  SameLine
<1>1. f.pkg_type = PKG_TYPE.DATA \/ f.pkg_type = PKG_TYPE.PARITY
  <2>1. PICK t \in DOMAIN PKG_TYPE : f.pkg_type = PKG_TYPE[t]
    OBVIOUS
  <2>2. t \in {"START", "DATA", "END", "PARITY"}
    BY DEF PKG_TYPE
  <2> QED
    BY <2>1, <2>2 DEF Forced
<1>2. f.pkg_type # PKG_TYPE.START /\ f.pkg_type # PKG_TYPE.END
  BY <1>1 DEF PKG_TYPE
<1>3. Understood(f).type \in {"DATA", "PARITY"}
  BY <1>1, <1>2 DEF Understood
<1> DEFINE packet == Understood(f)
<1> HIDE DEF packet
<1>4. packet.type \in {"DATA", "PARITY"} /\ R!Handle(packet)
  BY <1>3 DEF packet
<1>5. \/ \E io \in R!Io : R!HandleData(packet, io) \/ R!HandleParity(packet, io)
      \/ R!Ignore(packet)
  BY <1>4 DEF R!Handle, R!StartAgain, R!StartRejected, R!StartNotOpened, R!StartOpened, R!NewStart,
              R!EndStored, R!EndFailed
<1>6. CASE R!Ignore(packet)
  BY <1>6 DEF R!Ignore, R!vars, SameLine
<1> QED
  BY <1>5, <1>6, DataSameLine, ParitySameLine

\* Taking a datagram off the channel keeps line 1 fresh.
LEMMA WorkInv ==
  ASSUME LineInv, Work
  PROVE  LineInv'
<1> DEFINE f == decode_packet(Head(queue))
<1>1. process = "up" /\ worker = "running" /\ shown = LineOne /\ "file_path" \in DOMAIN state
  BY DEF Work, LineInv, LineOneFresh
<1>2. IF f = NoPacket THEN UNCHANGED <<receiverVars, shown>>
      ELSE /\ IF f.pkg_type \in {PKG_TYPE[t] : t \in DOMAIN PKG_TYPE}
              THEN R!Handle(Understood(f)) ELSE UNCHANGED receiverVars
           /\ IF Offered(f) THEN Refresh(f) ELSE UNCHANGED shown
  BY DEF Work
<1> HIDE DEF f
<1>3. ASSUME SameLine
      PROVE  LineOne' = LineOne
  BY <1>3 DEF SameLine, LineOne
<1>4. ASSUME UNCHANGED receiverVars
      PROVE  SameLine
  BY <1>1, <1>4 DEF receiverVars, SameLine
<1>5. CASE f = NoPacket
  <2>1. SameLine /\ shown' = shown
    BY <1>2, <1>4, <1>5
  <2> QED
    BY <1>1, <1>3, <2>1 DEF LineInv, LineOneFresh, SameLine
<1>6. CASE f # NoPacket
  <2>1. "file_path" \in DOMAIN state'
    BY <1>1, <1>2, <1>4, <1>6, HandleKeepsField DEF SameLine
  <2>2. CASE Forced(f)
    BY <1>2, <1>6, <2>1, <2>2 DEF Offered, Refresh, LineInv, LineOneFresh
  <2>3. CASE ~Forced(f)
    <3>1. SameLine
      BY <1>1, <1>2, <1>4, <1>6, <2>3, UnforcedSameLine
    <3>2. shown' = LineOne' \/ shown' = shown
      BY <1>2, <1>6 DEF Refresh
    <3> QED
      BY <1>1, <1>3, <2>1, <3>1, <3>2 DEF LineInv, LineOneFresh
  <2> QED
    BY <2>2, <2>3
<1> QED
  BY <1>5, <1>6

\* Initially, and after every start of the process, main shows line 1.
LEMMA InitLineInv == Init => LineInv
BY DEF Init, R!Init, R!NewState, LineInv, LineOneFresh

\* Every step keeps line 1 fresh, or ends the worker or the process.
LEMMA NextLineInv == LineInv /\ [Next]_vars => LineInv'
<1> SUFFICES ASSUME LineInv, [Next]_vars
             PROVE  LineInv'
  OBVIOUS
<1>1. ASSUME UNCHANGED receiverVars, UNCHANGED shown,
             process' = "up" /\ worker' = "running" => process = "up" /\ worker = "running"
      PROVE  LineInv'
  BY <1>1 DEF receiverVars, LineInv, LineOneFresh, LineOne
<1>2. ASSUME NEW raw \in Datagrams, Listen(raw)
      PROVE  LineInv'
  BY <1>1, <1>2 DEF Listen
<1>3. CASE Panic \/ MainReturns \/ Killed \/ BootFails
  BY <1>1, <1>3 DEF Panic, MainReturns, Killed, BootFails
<1>4. CASE Respawn \/ Operator
  BY <1>4 DEF Respawn, Operator, Boot, R!Restart, R!NewState, LineInv, LineOneFresh
<1>5. CASE UNCHANGED vars
  BY <1>1, <1>5 DEF vars, receiverVars
<1> QED
  BY <1>2, <1>3, <1>4, <1>5, WorkInv DEF Next

\* For any files, datagrams, chunk and batch sizes, and any order of arrival,
\* panics, kills and restarts: while the worker runs, line 1 of the display
\* says between two packets what is the case.
THEOREM LineOneStaysFresh == Spec => []LineOneFresh
<1>1. LineInv => LineOneFresh
  BY DEF LineInv
<1> QED
  BY <1>1, InitLineInv, NextLineInv, PTL DEF Spec

-----------------------------------------------------------------------------
(* Induction, without a theorem that takes a predicate: the numbers that   *)
(* have the property are a set, and WFMin gives the least one outside it.   *)

\* Below is an order on Nat without infinite descent.
LEMMA NatIsWellFounded == IsWellFoundedOn({p \in Nat \X Nat : p[1] < p[2]}, Nat)
<1>1. OpToRel(<, Nat) = {p \in Nat \X Nat : p[1] < p[2]}
  BY DEF OpToRel
<1> QED
  BY <1>1, NatLessThanWellFounded

\* Induction: the numbers that have a property, as a set.
LEMMA NatInductionSet ==
  ASSUME NEW S, 0 \in S, \A n \in Nat : n \in S => n + 1 \in S
  PROVE  Nat \subseteq S
<1> DEFINE Below == {p \in Nat \X Nat : p[1] < p[2]}
           T == Nat \ S
<1>1. SUFFICES ASSUME T # {} PROVE FALSE
  OBVIOUS
<1>2. PICK x \in T : \A y \in T : <<y, x>> \notin Below
  <2>1. T \subseteq Nat
    OBVIOUS
  <2>2. IsWellFoundedOn(Below, Nat)
    BY NatIsWellFounded
  <2> HIDE DEF T, Below
  <2> QED
    BY <1>1, <2>1, <2>2, WFMin
<1>3. x \in Nat /\ x # 0 /\ x - 1 \in Nat
  OBVIOUS
<1>4. <<x - 1, x>> \in Below
  BY <1>3
<1>5. x - 1 \in S
  BY <1>2, <1>3, <1>4
<1>6. x - 1 + 1 = x
  BY <1>3
<1> QED
  BY <1>3, <1>5, <1>6

-----------------------------------------------------------------------------
(* Powers of ten                                                           *)

\* The powers up to the n-th.
Powers(f, n) ==
  /\ f \in [0 .. n -> Nat \ {0}]
  /\ f[0] = 1
  /\ \A k \in 0 .. n : k < n => f[k + 1] = 10 * f[k]

\* They exist, for every n.
LEMMA PowersExist == \A n \in Nat : \E f : Powers(f, n)
<1> DEFINE S == {n \in Nat : \E f : Powers(f, n)}
<1>1. 0 \in S
  <2> DEFINE f == [k \in 0 .. 0 |-> 1]
  <2>1. Powers(f, 0)
    BY DEF Powers
  <2> QED
    BY <2>1
<1>2. ASSUME NEW n \in Nat, n \in S PROVE n + 1 \in S
  <2>1. PICK f : Powers(f, n)
    BY <1>2
  <2>2. PICK m \in Nat : m = n + 1
    OBVIOUS
  <2> DEFINE g == [k \in 0 .. m |-> IF k = m THEN 10 * f[n] ELSE f[k]]
  <2>3. \A k \in 0 .. n : f[k] \in Nat \ {0}
    BY <2>1 DEF Powers
  <2>4. n \in 0 .. n /\ 10 * f[n] \in Nat \ {0}
    BY <2>3
  <2>5. \A k \in 0 .. m : k = m \/ k \in 0 .. n
    BY <2>2
  <2>6. g \in [0 .. m -> Nat \ {0}]
    BY <2>3, <2>4, <2>5
  <2>7. g[0] = 1
    BY <2>1, <2>2 DEF Powers
  <2>8. ASSUME NEW k \in 0 .. m, k < m PROVE g[k + 1] = 10 * g[k]
    <3>1. k \in 0 .. n /\ g[k] = f[k] /\ k + 1 \in 0 .. m
      BY <2>2, <2>8
    <3>2. CASE k = n
      BY <2>2, <3>1, <3>2
    <3>3. CASE k # n
      <4>1. k < n /\ k + 1 # m
        BY <2>2, <3>1, <3>3
      <4> QED
        BY <2>1, <3>1, <4>1 DEF Powers
    <3> QED
      BY <3>2, <3>3
  <2>9. Powers(g, m)
    BY <2>6, <2>7, <2>8 DEF Powers
  <2> QED
    BY <2>2, <2>9
<1>3. Nat \subseteq S
  <2> HIDE DEF S
  <2> QED
    BY <1>1, <1>2, NatInductionSet
<1> QED
  BY <1>3

\* And they are the same, however far they are computed.
LEMMA PowersAgree ==
  ASSUME NEW f, NEW g, NEW m \in Nat, NEW n \in Nat, Powers(f, m), Powers(g, n)
  PROVE  \A k \in Nat : k <= m /\ k <= n => f[k] = g[k]
<1> DEFINE S == {k \in Nat : k <= m /\ k <= n => f[k] = g[k]}
<1>1. 0 \in S
  BY DEF Powers
<1>2. ASSUME NEW k \in Nat, k \in S PROVE k + 1 \in S
  <2> SUFFICES ASSUME k + 1 <= m, k + 1 <= n PROVE f[k + 1] = g[k + 1]
    OBVIOUS
  <2>1. k \in 0 .. m /\ k < m /\ k \in 0 .. n /\ k < n /\ k <= m /\ k <= n
    OBVIOUS
  <2>2. f[k + 1] = 10 * f[k] /\ g[k + 1] = 10 * g[k]
    BY <2>1 DEF Powers
  <2> QED
    BY <1>2, <2>1, <2>2
<1>3. Nat \subseteq S
  <2> HIDE DEF S
  <2> QED
    BY <1>1, <1>2, NatInductionSet
<1> QED
  BY <1>3

\* So there is a function Pow10, and it is what its definition says.
LEMMA Pow10Is ==
  /\ \A n \in Nat : Pow10[n] \in Nat \ {0} /\ Pow10[n + 1] = 10 * Pow10[n]
  /\ Pow10[0] = 1
<1> DEFINE upto == [n \in Nat |-> CHOOSE f : Powers(f, n)]
           pow == [n \in Nat |-> upto[n][n]]
           Is(p) == p = [n \in Nat |-> IF n = 0 THEN 1 ELSE 10 * p[n - 1]]
<1>1. \A n \in Nat : Powers(upto[n], n)
  BY PowersExist
<1> HIDE DEF upto
<1>2. ASSUME NEW n \in Nat PROVE pow[n] \in Nat \ {0}
  BY <1>1 DEF Powers
<1>3. pow[0] = 1
  BY <1>1 DEF Powers
<1>4. ASSUME NEW n \in Nat PROVE pow[n + 1] = 10 * pow[n]
  <2>1. PICK m \in Nat : m = n + 1
    OBVIOUS
  <2>2. n <= m /\ n <= n /\ n \in 0 .. m /\ n < m
    BY <2>1
  <2>3. upto[m][n] = upto[n][n]
    BY <1>1, <2>2, PowersAgree
  <2>4. upto[m][n + 1] = 10 * upto[m][n]
    BY <1>1, <2>2 DEF Powers
  <2> QED
    BY <2>1, <2>3, <2>4
<1>5. Is(pow)
  <2>1. ASSUME NEW n \in Nat PROVE pow[n] = IF n = 0 THEN 1 ELSE 10 * pow[n - 1]
    <3>1. CASE n = 0
      BY <1>3, <3>1
    <3>2. CASE n # 0
      <4>1. PICK k \in Nat : k = n - 1 /\ n = k + 1
        BY <3>2
      <4> HIDE DEF pow
      <4> QED
        BY <1>4, <3>2, <4>1
    <3> QED
      BY <3>1, <3>2
  <2>2. pow = [n \in Nat |-> pow[n]]
    OBVIOUS
  <2> HIDE DEF pow
  <2> QED
    BY <2>1, <2>2
<1>6. Is(Pow10)
  <2>1. Pow10 = CHOOSE p : Is(p)
    BY DEF Pow10
  <2> HIDE DEF Is
  <2> QED
    BY <1>5, <2>1
\* Two functions of that kind agree everywhere.
<1> DEFINE S == {n \in Nat : Pow10[n] = pow[n]}
<1> HIDE DEF pow
<1>7. 0 \in S
  BY <1>3, <1>6
<1>8. ASSUME NEW n \in Nat, n \in S PROVE n + 1 \in S
  <2>1. PICK m \in Nat : m = n + 1 /\ m # 0 /\ m - 1 = n
    OBVIOUS
  <2>2. Pow10[m] = 10 * Pow10[m - 1]
    BY <1>6, <2>1
  <2>3. pow[m] = 10 * pow[n]
    BY <1>4, <2>1
  <2>4. m \in S
    BY <1>8, <2>1, <2>2, <2>3
  <2> QED
    BY <2>1, <2>4
<1>9. \A n \in Nat : Pow10[n] = pow[n]
  <2>1. Nat \subseteq S
    <3> HIDE DEF S
    <3> QED
      BY <1>7, <1>8, NatInductionSet
  <2> QED
    BY <2>1
<1> QED
  BY <1>2, <1>3, <1>4, <1>9

-----------------------------------------------------------------------------
(* Digits                                                                  *)

\* More digits, more numbers.
LEMMA Pow10Grows ==
  ASSUME NEW m \in Nat
  PROVE  \A n \in Nat : m <= n => Pow10[m] <= Pow10[n]
<1> DEFINE S == {n \in Nat : m <= n => Pow10[m] <= Pow10[n]}
<1>1. 0 \in S
  BY Pow10Is
<1>2. ASSUME NEW n \in Nat, n \in S PROVE n + 1 \in S
  <2>1. PICK less \in Nat, more \in Nat, ours \in Nat :
          less = Pow10[n] /\ more = Pow10[n + 1] /\ ours = Pow10[m]
    <3>1. n + 1 \in Nat
      OBVIOUS
    <3> QED
      BY <3>1, Pow10Is
  <2>2. more = 10 * less
    BY <2>1, Pow10Is
  <2>3. ASSUME m <= n PROVE Pow10[m] <= Pow10[n + 1]
    BY <1>2, <2>1, <2>2, <2>3
  <2>4. ASSUME ~(m <= n), m <= n + 1 PROVE Pow10[m] <= Pow10[n + 1]
    <3>1. m = n + 1
      BY <2>4
    <3> QED
      BY <2>1, <3>1
  <2>5. m <= n + 1 => Pow10[m] <= Pow10[n + 1]
    BY <2>3, <2>4
  <2> QED
    BY <2>5
<1>3. Nat \subseteq S
  <2> HIDE DEF S
  <2> QED
    BY <1>1, <1>2, NatInductionSet
<1> QED
  BY <1>3

\* Dividing by the next power drops one more digit.
LEMMA DropDigit ==
  ASSUME NEW n \in Nat, NEW a \in Nat \ {0}
  PROVE  /\ n \div a \in Nat
         /\ (n \div a) % 10 \in 0 .. 9
         /\ n \div a = 10 * (n \div (10 * a)) + ((n \div a) % 10)
<1>1. PICK q \in Nat, r \in Nat : q = n \div a /\ n = q * a + r /\ r < a
  <2>1. n \div a \in Nat /\ n % a \in Nat /\ n % a < a /\ n = (n \div a) * a + (n % a)
    BY Z3
  <2> QED
    BY <2>1
<1>2. PICK b \in Nat, d \in 0 .. 9 : q = 10 * b + d /\ d = q % 10
  <2>1. q \div 10 \in Nat /\ q % 10 \in 0 .. 9 /\ q = 10 * (q \div 10) + (q % 10)
    OBVIOUS
  <2> QED
    BY <2>1
<1>3. PICK p \in Nat : p = d * a + r /\ p < 10 * a
  <2>1. d * a \in Nat /\ d * a + r \in Nat
    OBVIOUS
  <2>2. d * a <= 9 * a
    BY <2>1
  <2> QED
    BY <1>1, <2>1, <2>2
<1>4. n = b * (10 * a) + p
  <2>1. q * a = (10 * b) * a + d * a
    BY <1>2
  <2>2. (10 * b) * a = b * (10 * a)
    BY Z3
  <2> QED
    BY <1>1, <1>3, <2>1, <2>2
<1>5. n \div (10 * a) = b
  <2>1. PICK c \in Nat \ {0} : c = 10 * a
    OBVIOUS
  <2>2. n = b * c + p /\ p < c
    BY <1>3, <1>4, <2>1
  <2>3. n \div c = b
    BY <2>2, Z3
  <2> QED
    BY <2>1, <2>3
<1> QED
  BY <1>1, <1>2, <1>5

\* A number that fits the width gets as many digits as the width says.
LEMMA PaddedIs ==
  ASSUME NEW n \in Nat, NEW width \in Nat, n < Pow10[width]
  PROVE  Padded(n, width) = [i \in 1 .. width |-> (n \div Pow10[width - i]) % 10]
<1> DEFINE Fits(k) == n < Pow10[k] /\ (k = width \/ n >= Pow10[k - 1])
<1>1. width \in width .. width + n /\ Fits(width)
  OBVIOUS
<1>2. ASSUME NEW k \in width .. width + n, Fits(k) PROVE k = width
  <2> SUFFICES ASSUME k # width PROVE FALSE
    OBVIOUS
  <2>1. PICK j \in Nat : j = k - 1 /\ width <= j
    OBVIOUS
  <2>2. Pow10[width] <= Pow10[j] /\ Pow10[width] \in Nat /\ Pow10[j] \in Nat
    BY <2>1, Pow10Grows, Pow10Is
  <2>3. n >= Pow10[j]
    BY <1>2, <2>1
  <2> QED
    BY <2>2, <2>3
<1>3. (CHOOSE k \in width .. width + n : Fits(k)) = width
  <2> HIDE DEF Fits
  <2> QED
    BY <1>1, <1>2
<1>4. PICK d : d = CHOOSE k \in width .. width + n : Fits(k)
  OBVIOUS
<1>5. Padded(n, width) = [i \in 1 .. d |-> (n \div Pow10[d - i]) % 10]
  BY <1>4 DEF Padded
<1> HIDE DEF Fits
<1> QED
  BY <1>3, <1>4, <1>5

\* Its digits are digits, and read back they are the number.
LEMMA PaddedReads ==
  ASSUME NEW n \in Nat, NEW width \in Nat, n < Pow10[width]
  PROVE  /\ Padded(n, width) \in Seq(Nat) /\ Len(Padded(n, width)) = width
         /\ \A i \in 1 .. width : Padded(n, width)[i] < 10
         /\ Value(Padded(n, width)) = n
<1>1. PICK s : s = Padded(n, width)
  OBVIOUS
<1>2. s = [i \in 1 .. width |-> (n \div Pow10[width - i]) % 10]
  BY <1>1, PaddedIs
<1> DEFINE head == [i \in 0 .. width |-> n \div Pow10[width - i]]
<1>3. ASSUME NEW i \in 1 .. width
      PROVE  /\ s[i] \in 0 .. 9 /\ head[i] \in Nat
             /\ head[i] = 10 * head[i - 1] + s[i]
  <2>1. PICK k \in Nat : k = width - i /\ k + 1 = width - (i - 1) /\ i - 1 \in 0 .. width
    OBVIOUS
  <2>2. PICK a \in Nat \ {0} : a = Pow10[k] /\ Pow10[k + 1] = 10 * a
    BY Pow10Is
  <2>3. s[i] = (n \div a) % 10 /\ head[i] = n \div a /\ head[i - 1] = n \div (10 * a)
    BY <1>2, <2>1, <2>2
  <2> QED
    BY <2>3, DropDigit
<1>4. s \in Seq(Nat) /\ Len(s) = width
  <2>0. ASSUME NEW i \in 1 .. width PROVE s[i] \in Nat
    <3>1. s[i] \in 0 .. 9
      BY <1>3
    <3> QED
      BY <3>1
  <2>1. s \in [1 .. width -> Nat]
    BY <1>2, <2>0
  <2> QED
    BY <2>1
<1>5. head[0] = 0
  <2>1. Pow10[width] \in Nat \ {0} /\ width - 0 = width
    BY Pow10Is
  <2>2. n \div Pow10[width] = 0
    <3>1. PICK a \in Nat \ {0} : a = Pow10[width] /\ n < a
      BY <2>1
    <3>2. n \div a = 0
      BY <3>1, Z3
    <3> QED
      BY <3>1, <3>2
  <2> QED
    BY <2>1, <2>2
<1>6. head[width] = n
  BY Pow10Is
<1> DEFINE Reads(f) == f = [i \in 0 .. Len(s) |-> IF i = 0 THEN 0 ELSE 10 * f[i - 1] + s[i]]
           read == CHOOSE f : Reads(f)
<1>7. Reads(head)
  <2>1. ASSUME NEW i \in 0 .. width
        PROVE  head[i] = IF i = 0 THEN 0 ELSE 10 * head[i - 1] + s[i]
    <3> HIDE DEF head
    <3> QED
      BY <1>3, <1>5
  <2>2. head = [i \in 0 .. width |-> head[i]]
    OBVIOUS
  <2> HIDE DEF head
  <2> QED
    BY <1>4, <2>1, <2>2
<1>8. Reads(read)
  <2> HIDE DEF Reads, head
  <2> QED
    BY <1>7
<1> HIDE DEF read, head
<1> DEFINE S == {i \in Nat : i <= width => read[i] = head[i]}
<1>9. 0 \in S
  BY <1>4, <1>5, <1>8
<1>10. ASSUME NEW i \in Nat, i \in S PROVE i + 1 \in S
  <2> SUFFICES ASSUME i + 1 <= width PROVE read[i + 1] = head[i + 1]
    OBVIOUS
  <2>1. PICK j \in 1 .. width : j = i + 1 /\ j - 1 = i /\ j \in 0 .. width /\ j # 0
    OBVIOUS
  <2>2. read[j] = 10 * read[i] + s[j]
    BY <1>4, <1>8, <2>1
  <2>3. head[j] = 10 * head[i] + s[j]
    BY <1>3, <2>1
  <2> QED
    BY <1>10, <2>1, <2>2, <2>3
<1>11. Nat \subseteq S
  <2> HIDE DEF S
  <2> QED
    BY <1>9, <1>10, NatInductionSet
<1>12. Value(s) = n
  <2>1. Value(s) = read[Len(s)]
    BY DEF Value, read
  <2> QED
    BY <1>4, <1>6, <1>11, <2>1
<1>13. \A i \in 1 .. width : s[i] < 10
  BY <1>3
<1> QED
  BY <1>1, <1>4, <1>12, <1>13

-----------------------------------------------------------------------------
(* Datagrams                                                               *)

\* Cutting out the characters that stand behind the first from ones.
LEMMA FieldIs ==
  ASSUME NEW raw \in Seq(Nat), NEW s \in Seq(Nat), NEW from \in Nat,
         \A i \in 1 .. Len(s) : raw[from + i] = s[i]
  PROVE  SubSeq(raw, from + 1, from + Len(s)) = s
<1>1. PICK m \in Nat, len \in Nat, n \in Nat : m = from + 1 /\ len = Len(s) /\ n = from + len
  OBVIOUS
<1>2. \A i \in m .. n : raw[i] \in Nat
  <2> SUFFICES ASSUME NEW i \in m .. n PROVE raw[i] \in Nat
    OBVIOUS
  <2>1. PICK k \in 1 .. len : k = i - from /\ i = from + k
    BY <1>1
  <2>2. raw[i] = s[k] /\ s[k] \in Nat
    BY <1>1, <2>1, ElementOfSeq
  <2> QED
    BY <2>2
<1>3. PICK t : t = SubSeq(raw, m, n)
  OBVIOUS
<1>4. /\ t \in Seq(Nat)
      /\ Len(t) = IF m <= n THEN n - m + 1 ELSE 0
      /\ \A i \in 1 .. n - m + 1 : t[i] = raw[m + i - 1]
  BY <1>1, <1>2, <1>3, SubSeqProperties
<1>5. Len(t) = len /\ n - m + 1 = len
  BY <1>1, <1>4
<1>6. ASSUME NEW i \in 1 .. len PROVE t[i] = s[i]
  <2>1. m + i - 1 = from + i
    BY <1>1
  <2> QED
    BY <1>1, <1>4, <1>5, <2>1
<1>7. t = s
  BY <1>1, <1>4, <1>5, <1>6, SeqEqual
<1> QED
  BY <1>1, <1>3, <1>7

\* What stands in s stays where it is, and u comes behind it.
Joins(su, s, u) ==
  /\ su \in Seq(Nat) /\ Len(su) = Len(s) + Len(u)
  /\ \A i \in 1 .. Len(s) : su[i] = s[i]
  /\ \A i \in 1 .. Len(u) : su[Len(s) + i] = u[i]

\* That is s \o u.
LEMMA JoinIs ==
  ASSUME NEW s \in Seq(Nat), NEW u \in Seq(Nat)
  PROVE  Joins(s \o u, s, u)
<1>1. PICK ls \in Nat, lu \in Nat : ls = Len(s) /\ lu = Len(u)
  OBVIOUS
<1> DEFINE su == s \o u
<1>2. /\ su \in Seq(Nat) /\ Len(su) = ls + lu
      /\ \A i \in 1 .. ls + lu : su[i] = IF i <= ls THEN s[i] ELSE u[i - ls]
  BY <1>1, ConcatProperties
<1> HIDE DEF su
<1>3. \A i \in 1 .. ls : su[i] = s[i]
  BY <1>2
<1>4. ASSUME NEW i \in 1 .. lu PROVE su[ls + i] = u[i]
  <2>1. PICK k \in Nat : k = ls + i
    OBVIOUS
  <2>2. k \in 1 .. ls + lu /\ ~(k <= ls) /\ k - ls = i
    BY <2>1
  <2> QED
    BY <1>2, <2>1, <2>2
<1> QED
  BY <1>1, <1>2, <1>3, <1>4 DEF Joins, su

\* The fields of a datagram and their places.
Fields(raw, t, digits, path_hash, data_hash, data) ==
  /\ raw \in Seq(Nat) /\ Len(raw) = HEADER_SIZE + Len(data) /\ raw[1] = t
  /\ SubSeq(raw, 1 + 1, 1 + COUNT_DIGITS) = digits
  /\ SubSeq(raw, 1 + COUNT_DIGITS + 1, 1 + COUNT_DIGITS + HASH_LEN) = path_hash
  /\ SubSeq(raw, 1 + COUNT_DIGITS + HASH_LEN + 1,
            1 + COUNT_DIGITS + HASH_LEN + HASH_LEN) = data_hash
  /\ SubSeq(raw, HEADER_SIZE + 1, HEADER_SIZE + Len(data)) = data

\* The sender puts them there.
LEMMA EncodedIs ==
  ASSUME NEW t \in Nat, NEW n \in Nat, n < Pow10[COUNT_DIGITS],
         NEW path_hash \in Seq(Nat), Len(path_hash) = HASH_LEN,
         NEW data_hash \in Seq(Nat), Len(data_hash) = HASH_LEN,
         NEW data \in Seq(Nat)
  PROVE  Fields(encode_packet_into(t, n, path_hash, data_hash, data),
                t, Padded(n, COUNT_DIGITS), path_hash, data_hash, data)
<1>1. PICK raw, digits, a, b, c :
        /\ raw = encode_packet_into(t, n, path_hash, data_hash, data)
        /\ digits = Padded(n, COUNT_DIGITS) /\ a = <<t>> \o digits /\ b = a \o path_hash
        /\ c = b \o data_hash
  OBVIOUS
<1>2. raw = c \o data
  BY <1>1 DEF encode_packet_into
<1>3. COUNT_DIGITS \in Nat /\ HASH_LEN \in Nat
  BY WireAssumption
<1>4. digits \in Seq(Nat) /\ Len(digits) = COUNT_DIGITS
  BY <1>1, <1>3, PaddedReads
<1>5. <<t>> \in Seq(Nat) /\ Len(<<t>>) = 1 /\ <<t>>[1] = t
  OBVIOUS
<1>6. PICK la \in Nat, lb \in Nat, lc \in Nat, ld \in Nat :
        /\ la = 1 + COUNT_DIGITS /\ lb = la + HASH_LEN /\ lc = lb + HASH_LEN /\ ld = Len(data)
        /\ lc = HEADER_SIZE
  <2>1. PICK la \in Nat : la = 1 + COUNT_DIGITS
    BY <1>3
  <2>2. PICK lb \in Nat : lb = la + HASH_LEN
    BY <1>3
  <2>3. PICK lc \in Nat : lc = lb + HASH_LEN
    BY <1>3
  <2>4. lc = HEADER_SIZE
    BY <1>3, <2>1, <2>2, <2>3 DEF HEADER_SIZE
  <2>5. Len(data) \in Nat
    OBVIOUS
  <2> QED
    BY <2>1, <2>2, <2>3, <2>4, <2>5
<1>7. /\ a \in Seq(Nat) /\ Len(a) = la
      /\ a[1] = t /\ \A i \in 1 .. COUNT_DIGITS : a[1 + i] = digits[i]
  <2>1. /\ a \in Seq(Nat) /\ Len(a) = 1 + COUNT_DIGITS
        /\ \A i \in 1 .. 1 + COUNT_DIGITS : a[i] = IF i <= 1 THEN <<t>>[i] ELSE digits[i - 1]
    BY <1>1, <1>4, <1>5, ConcatProperties
  <2>2. a[1] = t
    BY <1>3, <1>5, <2>1
  <2>3. ASSUME NEW i \in 1 .. COUNT_DIGITS PROVE a[1 + i] = digits[i]
    <3>1. PICK k \in 1 .. 1 + COUNT_DIGITS : k = 1 + i /\ ~(k <= 1) /\ k - 1 = i
      BY <1>3
    <3> QED
      BY <2>1, <3>1
  <2> QED
    BY <1>6, <2>1, <2>2, <2>3
<1>8. /\ b \in Seq(Nat) /\ Len(b) = lb
      /\ \A i \in 1 .. la : b[i] = a[i]
      /\ \A i \in 1 .. HASH_LEN : b[la + i] = path_hash[i]
  <2>1. Joins(b, a, path_hash)
    BY <1>1, <1>7, JoinIs
  <2> QED
    BY <1>6, <1>7, <2>1 DEF Joins
<1>9. /\ c \in Seq(Nat) /\ Len(c) = lc
      /\ \A i \in 1 .. lb : c[i] = b[i]
      /\ \A i \in 1 .. HASH_LEN : c[lb + i] = data_hash[i]
  <2>1. Joins(c, b, data_hash)
    BY <1>1, <1>8, JoinIs
  <2> QED
    BY <1>6, <1>8, <2>1 DEF Joins
<1>10. /\ raw \in Seq(Nat) /\ Len(raw) = lc + ld
       /\ \A i \in 1 .. lc : raw[i] = c[i]
       /\ \A i \in 1 .. ld : raw[lc + i] = data[i]
  <2>1. Joins(raw, c, data)
    BY <1>2, <1>9, JoinIs
  <2> QED
    BY <1>6, <1>9, <2>1 DEF Joins
<1>11. raw[1] = t /\ \A i \in 1 .. COUNT_DIGITS : raw[1 + i] = digits[i]
  <2>1. \A i \in 1 .. la : i \in 1 .. lb /\ i \in 1 .. lc
    BY <1>3, <1>6
  <2>2. \A i \in 1 .. la : raw[i] = a[i]
    BY <1>8, <1>9, <1>10, <2>1
  <2>3. 1 \in 1 .. la /\ \A i \in 1 .. COUNT_DIGITS : 1 + i \in 1 .. la
    BY <1>3, <1>6
  <2> QED
    BY <1>7, <2>2, <2>3
<1>12. \A i \in 1 .. HASH_LEN : raw[la + i] = path_hash[i]
  <2>1. \A i \in 1 .. HASH_LEN : la + i \in 1 .. lb /\ la + i \in 1 .. lc
    BY <1>3, <1>6
  <2> QED
    BY <1>8, <1>9, <1>10, <2>1
<1>13. \A i \in 1 .. HASH_LEN : raw[lb + i] = data_hash[i]
  <2>1. \A i \in 1 .. HASH_LEN : lb + i \in 1 .. lc
    BY <1>3, <1>6
  <2> QED
    BY <1>9, <1>10, <2>1
<1>14. SubSeq(raw, 1 + 1, 1 + COUNT_DIGITS) = digits
  BY <1>4, <1>10, <1>11, FieldIs
<1>15. SubSeq(raw, la + 1, la + HASH_LEN) = path_hash
  BY <1>10, <1>12, FieldIs
<1>16. SubSeq(raw, lb + 1, lb + HASH_LEN) = data_hash
  BY <1>10, <1>13, FieldIs
<1>17. SubSeq(raw, lc + 1, lc + ld) = data
  BY <1>6, <1>10, FieldIs
<1> QED
  BY <1>1, <1>6, <1>10, <1>11, <1>14, <1>15, <1>16, <1>17 DEF Fields

\* The packet decode_packet makes of these fields.
Header(t, n, path_hash, data_hash, data) ==
  [pkg_type |-> t, count |-> n, path_hash |-> path_hash, data_hash |-> data_hash, data |-> data]

\* It consists of them, and is not None.
LEMMA HeaderIs ==
  ASSUME NEW t \in Nat, NEW n \in Nat, NEW path_hash \in Seq(Nat), NEW data_hash \in Seq(Nat),
         NEW data \in Seq(Nat), NEW f, f = Header(t, n, path_hash, data_hash, data)
  PROVE  /\ f.pkg_type = t /\ f.count = n /\ f.path_hash = path_hash
         /\ f.data_hash = data_hash /\ f.data = data
         /\ f # NoPacket
<1>1. NoPacket \notin [pkg_type: Nat, count: Nat, path_hash: Seq(Nat), data_hash: Seq(Nat),
                      data: Seq(Nat)]
  BY WireAssumption
<1> QED
  BY <1>1 DEF Header

\* decode_packet gets back what encode_packet_into was given, if the number
\* fits its field.
LEMMA DecodeIs ==
  ASSUME NEW t \in 0 .. 9, NEW n \in Nat, n < Pow10[COUNT_DIGITS],
         NEW path_hash \in Seq(Nat), Len(path_hash) = HASH_LEN,
         NEW data_hash \in Seq(Nat), Len(data_hash) = HASH_LEN,
         NEW data \in Seq(Nat)
  PROVE  decode_packet(encode_packet_into(t, n, path_hash, data_hash, data)) =
           Header(t, n, path_hash, data_hash, data)
<1>1. PICK raw, digits : /\ raw = encode_packet_into(t, n, path_hash, data_hash, data)
                         /\ digits = Padded(n, COUNT_DIGITS)
  OBVIOUS
<1>2. Fields(raw, t, digits, path_hash, data_hash, data)
  <2>1. t \in Nat
    OBVIOUS
  <2> QED
    BY <1>1, <2>1, EncodedIs
<1>3. Value(digits) = n /\ Parses(digits)
  <2>1. /\ digits \in Seq(Nat) /\ Len(digits) = COUNT_DIGITS
        /\ \A i \in 1 .. COUNT_DIGITS : digits[i] < 10
        /\ Value(digits) = n
    BY <1>1, PaddedReads, WireAssumption
  <2>2. n <= MAX_U64
    <3>1. PICK most \in Nat : most = Pow10[COUNT_DIGITS] /\ most <= MAX_U64 + 1
      BY WireAssumption, Pow10Is
    <3> QED
      BY <3>1, WireAssumption
  <2>3. DOMAIN digits = 1 .. COUNT_DIGITS
    BY <2>1
  <2> QED
    BY <2>1, <2>2, <2>3 DEF Parses
<1>4. ~(Len(raw) < HEADER_SIZE) /\ ~(raw[1] > 9) /\ Len(raw) - HEADER_SIZE = Len(data)
  <2>1. HEADER_SIZE \in Nat /\ Len(data) \in Nat
    BY WireAssumption DEF HEADER_SIZE
  <2> QED
    BY <1>2, <2>1 DEF Fields
<1>5. decode_packet(raw) = Header(t, n, path_hash, data_hash, data)
  BY <1>2, <1>3, <1>4 DEF decode_packet, Fields, Header
<1> QED
  BY <1>1, <1>5

\* What is the image or the digest of one path is that of no other, and the
\* same for payloads.
LEMMA NamesAreUnique ==
  /\ \A p \in AllPaths : Named(Image[p]) = {p} /\ Digested(Digest[p]) = {p}
  /\ \A x \in Payloads : Carried(Image[x]) = {x}
  /\ \A x, none : OneOf({x}, none) = x
  /\ \A S \in {AllPaths, Payloads} : \A x \in S :
       Image[x] \in Seq(Nat) /\ Digest[x] \in Seq(Nat) /\ Len(Digest[x]) = HASH_LEN
<1>1. \A S \in {AllPaths, Payloads} : \A x, y \in S :
        /\ Image[x] \in Seq(Nat)
        /\ Digest[x] \in Seq(Nat) /\ Len(Digest[x]) = HASH_LEN
        /\ x # y => Image[x] # Image[y] /\ Digest[x] # Digest[y]
  BY WireAssumption
<1>2. \A x, none : OneOf({x}, none) = x
  BY DEF OneOf
<1>3. ASSUME NEW p \in AllPaths PROVE Named(Image[p]) = {p} /\ Digested(Digest[p]) = {p}
  BY <1>1 DEF Named, Digested
<1>4. ASSUME NEW x \in Payloads PROVE Carried(Image[x]) = {x}
  BY <1>1 DEF Carried
<1> QED
  BY <1>1, <1>2, <1>3, <1>4

\* The four types are four numbers.
LEMMA TypesAre ==
  PKG_TYPE.START = 0 /\ PKG_TYPE.DATA = 1 /\ PKG_TYPE.END = 2 /\ PKG_TYPE.PARITY = 3
BY DEF PKG_TYPE

\* The worker takes every datagram of a sender for the packet it was made from.
LEMMA SentIsDecoded ==
  ASSUME NEW packet \in Sent, FitsField(packet)
  PROVE  LET f == decode_packet(Encoded(packet)) IN f # NoPacket /\ Understood(f) = packet
<1>1. packet.count < Pow10[COUNT_DIGITS]
  BY DEF FitsField
<1>2. EMPTY_HASH \in Seq(Nat) /\ Len(EMPTY_HASH) = HASH_LEN
  <2>1. HASH_LEN \in Nat
    BY WireAssumption
  <2>2. Pow10[HASH_LEN] \in Nat \ {0}
    BY <2>1, Pow10Is
  <2>3. 0 \in Nat /\ 0 < Pow10[HASH_LEN]
    BY <2>2
  <2> QED
    BY <2>1, <2>3, PaddedReads DEF EMPTY_HASH
<1>3. CASE /\ packet \in [type: {"START"}, path: AllPaths, path_hash: AllPaths, count: Nat,
                          parity: 0 .. MAX_U64]
           /\ packet.path_hash = packet.path
  <2>1. PICK p \in AllPaths, n \in Nat, q \in 0 .. MAX_U64 :
          packet = [type |-> "START", path |-> p, path_hash |-> p, count |-> n, parity |-> q]
    BY <1>3
  <2>2. PICK parity : parity = encode_parity_field(q)
    OBVIOUS
  <2>3. parity \in Seq(Nat) /\ Len(parity) = HASH_LEN /\ decode_parity_field(parity) = q
    <3>1. HASH_LEN \in Nat /\ q < Pow10[HASH_LEN] /\ q \in Nat /\ q <= MAX_U64
      <4>1. PICK most \in Nat : most = Pow10[HASH_LEN] /\ MAX_U64 < most
        BY WireAssumption, Pow10Is
      <4> QED
        BY <4>1, WireAssumption
    <3>2. /\ parity \in Seq(Nat) /\ Len(parity) = HASH_LEN /\ Value(parity) = q
          /\ \A i \in 1 .. HASH_LEN : parity[i] < 10
      BY <2>2, <3>1, PaddedReads DEF encode_parity_field
    <3>3. DOMAIN parity = 1 .. HASH_LEN
      BY <3>2
    <3> QED
      BY <3>1, <3>2, <3>3 DEF decode_parity_field, Parses
  <2>4. PICK t \in Nat : t = PKG_TYPE.START /\ t = 0
    BY TypesAre
  <2>0. PICK f : f = Header(t, n, Digest[p], parity, Image[p])
    OBVIOUS
  <2>5. /\ parity \in Seq(Nat)
        /\ Digest[p] \in Seq(Nat) /\ Len(Digest[p]) = HASH_LEN /\ Image[p] \in Seq(Nat)
    BY <2>3, NamesAreUnique
  <2>6. /\ f.pkg_type = t /\ f.count = n /\ f.path_hash = Digest[p] /\ f.data_hash = parity
        /\ f.data = Image[p] /\ f # NoPacket
    <3>1. PICK a \in Seq(Nat), b \in Seq(Nat), c \in Seq(Nat) :
            a = Digest[p] /\ b = parity /\ c = Image[p]
      BY <2>5
    <3>2. f = Header(t, n, a, b, c)
      BY <2>0, <3>1
    <3>3. f.pkg_type = t /\ f.count = n /\ f.path_hash = a /\ f.data_hash = b /\ f.data = c
      BY <3>2 DEF Header
    <3>4. f # NoPacket
      BY <3>2, HeaderIs
    <3> QED
      BY <3>1, <3>3, <3>4
  <2>7. decode_packet(Encoded(packet)) = f
    <3>1. Encoded(packet) = encode_packet_into(t, n, Digest[p], parity, Image[p])
      BY <2>1, <2>2, <2>4, TypesAre DEF Encoded
    <3>2. t \in 0 .. 9 /\ n < Pow10[COUNT_DIGITS]
      BY <1>1, <2>1, <2>4
    <3> QED
      BY <2>0, <2>3, <2>4, <2>5, <3>1, <3>2, DecodeIs
  <2>8. Understood(f) = packet
    <3>1. f.pkg_type = PKG_TYPE.START
      BY <2>4, <2>6
    <3>2. OneOf(Digested(f.path_hash), NoPath) = p /\ OneOf(Named(f.data), NoPath) = p
      BY <2>6, NamesAreUnique
    <3>3. f.pkg_type # PKG_TYPE.END /\ f.pkg_type \notin {PKG_TYPE.DATA, PKG_TYPE.PARITY}
      BY <2>4, <2>6, TypesAre
    <3> QED
      BY <2>1, <2>3, <2>6, <3>1, <3>2, <3>3 DEF Understood
  <2> QED
    BY <2>6, <2>7, <2>8
<1>4. CASE packet \in [type: {"DATA", "PARITY"}, path_hash: Paths, count: Nat, data: Payloads,
                       hash_ok: {TRUE}]
  <2>1. PICK kind \in {"DATA", "PARITY"}, p \in AllPaths, n \in Nat, x \in Payloads :
          packet = [type |-> kind, path_hash |-> p, count |-> n, data |-> x, hash_ok |-> TRUE]
    BY <1>4 DEF AllPaths
  <2>2. PICK t \in {1, 3} : t = PKG_TYPE[kind] /\ kind = IF t = 1 THEN "DATA" ELSE "PARITY"
    BY DEF PKG_TYPE
  <2>3. PICK f : f = Header(t, n, Digest[p], Digest[x], Image[x])
    OBVIOUS
  <2>4. /\ t \in Nat
        /\ Digest[p] \in Seq(Nat) /\ Len(Digest[p]) = HASH_LEN
        /\ Digest[x] \in Seq(Nat) /\ Len(Digest[x]) = HASH_LEN /\ Image[x] \in Seq(Nat)
    <3>1. t \in Nat
      BY <2>2
    <3> QED
      BY <3>1, NamesAreUnique
  <2>5. /\ f.pkg_type = t /\ f.count = n /\ f.path_hash = Digest[p] /\ f.data_hash = Digest[x]
        /\ f.data = Image[x] /\ f # NoPacket
    <3>1. PICK a \in Seq(Nat), b \in Seq(Nat), c \in Seq(Nat) :
            a = Digest[p] /\ b = Digest[x] /\ c = Image[x]
      BY <2>4
    <3>2. f = Header(t, n, a, b, c)
      BY <2>3, <3>1
    <3>3. f.pkg_type = t /\ f.count = n /\ f.path_hash = a /\ f.data_hash = b /\ f.data = c
      BY <3>2 DEF Header
    <3>4. f # NoPacket
      <4>1. t \in Nat
        BY <2>4
      <4> QED
        BY <3>2, <4>1, HeaderIs
    <3> QED
      BY <3>1, <3>3, <3>4
  <2>6. decode_packet(Encoded(packet)) = f
    <3>1. Encoded(packet) = encode_packet_into(t, n, Digest[p], Digest[x], Image[x])
      BY <2>1, <2>2 DEF Encoded
    <3>2. t \in 0 .. 9 /\ n < Pow10[COUNT_DIGITS]
      BY <1>1, <2>1, <2>2
    <3> QED
      BY <2>3, <2>4, <3>1, <3>2, DecodeIs
  <2>7. Understood(f) = packet
    <3>1. /\ f.pkg_type = t /\ f.count = n
          /\ OneOf(Digested(f.path_hash), NoPath) = p
          /\ OneOf(Carried(f.data), [len |-> Len(f.data)]) = x
          /\ x \in Payloads /\ Digest[x] = f.data_hash
      BY <2>5, NamesAreUnique
    <3>2. /\ t # PKG_TYPE.START /\ t # PKG_TYPE.END /\ t \in {PKG_TYPE.DATA, PKG_TYPE.PARITY}
          /\ kind = IF t = PKG_TYPE.DATA THEN "DATA" ELSE "PARITY"
      BY <2>2, TypesAre
    <3> QED
      BY <2>1, <3>1, <3>2 DEF Understood
  <2> QED
    BY <2>5, <2>6, <2>7
<1>5. CASE packet \in [type: {"END"}, path: Paths, count: Nat]
  <2>1. PICK p \in AllPaths, n \in Nat : packet = [type |-> "END", path |-> p, count |-> n]
    BY <1>5 DEF AllPaths
  <2>2. PICK f : f = Header(2, n, EMPTY_HASH, EMPTY_HASH, Image[p])
    OBVIOUS
  <2>3. 2 \in Nat /\ Image[p] \in Seq(Nat)
    BY NamesAreUnique
  <2>4. /\ f.pkg_type = 2 /\ f.count = n /\ f.data = Image[p] /\ f # NoPacket
    <3>1. PICK a \in Seq(Nat), c \in Seq(Nat) : a = EMPTY_HASH /\ c = Image[p]
      BY <1>2, <2>3
    <3>2. f = Header(2, n, a, a, c)
      BY <2>2, <3>1
    <3>3. f.pkg_type = 2 /\ f.count = n /\ f.data = c
      BY <3>2 DEF Header
    <3>4. f # NoPacket
      <4>1. PICK t \in Nat : t = 2
        BY <2>3
      <4>2. f = Header(t, n, a, a, c)
        BY <3>2, <4>1
      <4> QED
        BY <4>2, HeaderIs
    <3> QED
      BY <3>1, <3>3, <3>4
  <2>5. decode_packet(Encoded(packet)) = f
    <3>1. Encoded(packet) = encode_packet_into(2, n, EMPTY_HASH, EMPTY_HASH, Image[p])
      BY <2>1, TypesAre DEF Encoded
    <3>2. 2 \in 0 .. 9 /\ n < Pow10[COUNT_DIGITS]
      BY <1>1, <2>1
    <3> QED
      BY <1>2, <2>2, <2>3, <3>1, <3>2, DecodeIs
  <2>6. Understood(f) = packet
    <3>1. f.pkg_type = PKG_TYPE.END /\ f.count = n
      BY <2>4, TypesAre
    <3>2. f.pkg_type # PKG_TYPE.START /\ f.pkg_type \notin {PKG_TYPE.DATA, PKG_TYPE.PARITY}
      BY <2>4, TypesAre
    <3>3. OneOf(Named(f.data), NoPath) = p
      BY <2>4, NamesAreUnique
    <3> QED
      BY <2>1, <3>1, <3>2, <3>3 DEF Understood, MkEnd
  <2> QED
    BY <2>4, <2>5, <2>6
<1> QED
  BY <1>3, <1>4, <1>5, ProcessAssumption

\* For any encoding of paths, payloads and digests that tells them apart, any
\* parity widths the assumptions allow, and any stream of datagrams, genuine or
\* not: whenever the worker is about to handle the datagram of a packet whose
\* number fits its parity, it makes that very packet of it.
THEOREM DecodedAlwaysAsSent == Spec => []DecodedAsSent
<1>1. DecodedAsSent
  BY SentIsDecoded DEF DecodedAsSent
<1> QED
  BY <1>1, PTL

-----------------------------------------------------------------------------
(* The receiver inside the process                                         *)

\* The datagrams the worker skips: they do not decode, or are of another type.
Skipped(raw) ==
  \/ decode_packet(raw) = NoPacket
  \/ decode_packet(raw).pkg_type \notin {PKG_TYPE[t] : t \in DOMAIN PKG_TYPE}

\* Nothing but what senders emit, or what the worker skips, arrives.
Genuine ==
  \A raw \in Datagrams :
    Skipped(raw) \/ \E packet \in Sent : raw = Encoded(packet) /\ FitsField(packet)

\* The channel holds datagrams.
QueueInv == queue \in Seq(Datagrams)

\* Initially, and after every step.
LEMMA QueueInvHolds == (Init => QueueInv) /\ (QueueInv /\ [Next]_vars => QueueInv')
<1>1. ASSUME Init PROVE QueueInv
  BY <1>1 DEF Init, QueueInv
<1>2. ASSUME QueueInv, NEW raw \in Datagrams, Listen(raw) PROVE QueueInv'
  <2>1. queue' = Append(queue, raw) \/ queue' = queue
    BY <1>2 DEF Listen
  <2> QED
    BY <1>2, <2>1 DEF QueueInv
<1>3. ASSUME QueueInv, Work PROVE QueueInv'
  <2>1. queue # <<>> /\ queue' = Tail(queue)
    BY <1>3 DEF Work
  <2> QED
    BY <1>3, <2>1 DEF QueueInv
<1>4. ASSUME QueueInv, Panic \/ Respawn \/ Operator PROVE QueueInv'
  <2>1. queue' = <<>>
    BY <1>4 DEF Panic, Respawn, Operator, Boot
  <2> QED
    BY <2>1 DEF QueueInv
<1>5. ASSUME QueueInv, MainReturns \/ Killed \/ BootFails \/ UNCHANGED vars PROVE QueueInv'
  <2>1. queue' = queue
    BY <1>5 DEF MainReturns, Killed, BootFails, vars
  <2> QED
    BY <1>5, <2>1 DEF QueueInv
<1> QED
  BY <1>1, <1>2, <1>3, <1>4, <1>5 DEF Next

\* What the worker makes of a genuine datagram is what was sent.
LEMMA WorkHandlesSent ==
  ASSUME Genuine, QueueInv, Work
  PROVE  R!Next \/ UNCHANGED receiverVars
<1>1. PICK raw : raw = Head(queue)
  OBVIOUS
<1>2. raw \in Datagrams
  BY <1>1 DEF Work, QueueInv
<1>3. IF decode_packet(raw) = NoPacket THEN UNCHANGED receiverVars
      ELSE IF decode_packet(raw).pkg_type \in {PKG_TYPE[t] : t \in DOMAIN PKG_TYPE}
           THEN R!Handle(Understood(decode_packet(raw))) ELSE UNCHANGED receiverVars
  BY <1>1 DEF Work
<1>4. CASE Skipped(raw)
  BY <1>3, <1>4 DEF Skipped
<1>5. CASE ~Skipped(raw)
  <2>1. PICK packet \in Sent : raw = Encoded(packet) /\ FitsField(packet)
    BY <1>2, <1>5 DEF Genuine
  <2>2. Understood(decode_packet(raw)) = packet
    BY <2>1, SentIsDecoded
  <2>3. R!Handle(packet)
    BY <1>3, <1>5, <2>2 DEF Skipped
  <2> QED
    BY <2>3 DEF R!Next
<1> QED
  BY <1>4, <1>5

\* If nothing but what senders emit arrives, with numbers that fit their
\* fields, and datagrams that the worker skips, the process does to its state,
\* its counters and the output directory what module Receiver says for those
\* packets: whatever holds for any sequence of packets there, holds with the
\* wire, the channel, panics, kills and starts of the process in between.
THEOREM ReceiverInside == ASSUME Genuine PROVE Spec => R!Spec
<1>1. Init => R!Init
  BY DEF Init
<1>2. ASSUME QueueInv, [Next]_vars PROVE [R!Next]_(R!vars)
  <2>1. ASSUME Respawn \/ Operator PROVE R!Next
    BY <2>1 DEF Respawn, Operator, Boot, R!Next
  <2>2. ASSUME NEW raw \in Datagrams, Listen(raw) PROVE UNCHANGED R!vars
    BY <2>2 DEF Listen, R!vars, receiverVars
  <2>3. ASSUME Panic \/ MainReturns \/ Killed \/ BootFails PROVE UNCHANGED R!vars
    BY <2>3 DEF Panic, MainReturns, Killed, BootFails, R!vars, receiverVars
  <2>4. ASSUME UNCHANGED vars PROVE UNCHANGED R!vars
    BY <2>4 DEF vars, R!vars
  <2>5. ASSUME Work PROVE R!Next \/ UNCHANGED R!vars
    BY <1>2, <2>5, WorkHandlesSent DEF R!vars, receiverVars
  <2> QED
    BY <1>2, <2>1, <2>2, <2>3, <2>4, <2>5 DEF Next
<1> QED
  BY <1>1, <1>2, QueueInvHolds, PTL DEF Spec, R!Spec

=============================================================================
