---------------------------- MODULE EvPollProofs ----------------------------
(***************************************************************************)
(* The time that evpoll sleeps, for every set of timers, every scale of    *)
(* milliseconds and seconds and every delay.                               *)
(*                                                                         *)
(* First the arithmetic: a timeval made of a number of units, added to     *)
(* with carry, compared and turned back is that number.  So what evpoll    *)
(* gives to select is the delay of the nearest timer or glib's timeout     *)
(* rounded up to a millisecond, whichever is less.  PollInv then says of   *)
(* the sleep that nothing is due before its end, and that something is due *)
(* at its end; the two keep each other while time passes.                  *)
(***************************************************************************)
EXTENDS EvPoll, LeastNumber

-----------------------------------------------------------------------------
(* Division, and timevals.                                                 *)

\* Quotient and remainder of a division by a positive number.
LEMMA DivMod ==
    ASSUME NEW a \in Int, NEW b \in Int, b > 0
    PROVE  /\ a \div b \in Int
           /\ a % b \in 0 .. b - 1
           /\ a = b * (a \div b) + (a % b)
<1>1. a \div b \in Int
    OBVIOUS
<1>2. a % b \in 0 .. b - 1
    OBVIOUS
<1>3. a = b * (a \div b) + (a % b)
    BY SMTT(30)
<1>4. QED BY <1>1, <1>2, <1>3

\* The units of time are positive.
LEMMA Scale == UsPerMs \in Nat \ {0} /\ MsPerSec \in Nat \ {0} /\ UsPerSec \in Nat \ {0}
<1>1. UsPerMs \in Nat \ {0} /\ MsPerSec \in Nat \ {0}
    BY ScaleAssumption
<1>2. UsPerMs * MsPerSec \in Nat /\ UsPerMs * MsPerSec # 0
    BY <1>1
<1>3. QED BY <1>1, <1>2 DEF UsPerSec

\* A time survives its conversion to a timeval.
LEMMA TimevalExact ==
    ASSUME NEW us \in Nat
    PROVE  /\ Us(timeval(us)) = us
           /\ timeval(us).sec \in Int
           /\ timeval(us).usec \in 0 .. UsPerSec - 1
<1>1. timeval(us).sec = us \div UsPerSec /\ timeval(us).usec = us % UsPerSec
    BY DEF timeval
<1>2. us \div UsPerSec \in Int /\ us % UsPerSec \in 0 .. UsPerSec - 1
    BY Scale, DivMod
<1>3. us = UsPerSec * (us \div UsPerSec) + (us % UsPerSec)
    BY Scale, DivMod
<1>4. QED BY <1>1, <1>2, <1>3, Scale DEF Us

\* Comparing timevals with microseconds in range is comparing times.
LEMMA EarlierExact ==
    ASSUME NEW a, NEW b,
           a.sec \in Int, a.usec \in 0 .. UsPerSec - 1,
           b.sec \in Int, b.usec \in 0 .. UsPerSec - 1
    PROVE  Earlier(a, b) <=> Us(a) < Us(b)
<1> DEFINE x == a.sec  y == b.sec  u == a.usec  v == b.usec  N == UsPerSec
<1>1. x \in Int /\ y \in Int /\ u \in Int /\ v \in Int /\ N \in Int
    BY Scale
<1>2. 0 <= u /\ u < N /\ 0 <= v /\ v < N
    BY Scale
<1>3. x * N \in Int /\ y * N \in Int
    BY <1>1
<1>4. CASE x = y
    BY <1>1, <1>2, <1>3, <1>4 DEF Earlier, Us
<1>5. CASE x < y
    <2>1. x * N + N <= y * N
        <3> HIDE DEF x, y, N
        <3>1. (x + 1) * N <= y * N
            BY <1>1, <1>2, <1>5
        <3>2. (x + 1) * N = x * N + N
            BY <1>1
        <3>3. QED BY <3>1, <3>2
    <2>2. QED BY <1>1, <1>2, <1>3, <1>5, <2>1 DEF Earlier, Us
<1>6. CASE y < x
    <2>1. y * N + N <= x * N
        <3> HIDE DEF x, y, N
        <3>1. (y + 1) * N <= x * N
            BY <1>1, <1>2, <1>6
        <3>2. (y + 1) * N = y * N + N
            BY <1>1
        <3>3. QED BY <3>1, <3>2
    <2>2. QED BY <1>1, <1>2, <1>3, <1>6, <2>1 DEF Earlier, Us
<1>7. QED BY <1>1, <1>4, <1>5, <1>6

\* The carry from microseconds to seconds: evpoll's timeval for a timeout is the timeout.
LEMMA CarryExact ==
    ASSUME NEW timeout \in Nat, NEW tv,
           tv = [sec |-> timeout \div MsPerSec, usec |-> (timeout % MsPerSec) * UsPerMs]
    PROVE  /\ tv.sec \in Int
           /\ tv.usec \in 0 .. UsPerSec - 1
           /\ Us(tv) = timeout * UsPerMs
<1> DEFINE q == timeout \div MsPerSec  r == timeout % MsPerSec
           M == MsPerSec  P == UsPerMs
<1>1. q \in Int /\ r \in 0 .. M - 1 /\ timeout = M * q + r
    BY Scale, DivMod
<1>2. tv.sec = q /\ tv.usec = r * P /\ UsPerSec = P * M
    BY DEF UsPerSec
<1>3. M \in Int /\ P \in Int /\ 0 < M /\ 0 < P
    BY Scale
<1>4. r \in Int /\ 0 <= r /\ r <= M - 1
    BY <1>1, <1>3
<1> HIDE DEF q, r, M, P
<1>5. r * P \in Int /\ 0 <= r * P /\ r * P <= (M - 1) * P
    BY <1>3, <1>4
<1>6. (M - 1) * P = P * M - P
    BY <1>3
<1>7. P * M \in Int
    BY <1>3
<1>8. r * P \in 0 .. UsPerSec - 1
    BY <1>2, <1>3, <1>5, <1>6, <1>7
<1>9. q * (P * M) + r * P = (M * q + r) * P
    BY <1>1, <1>3, <1>4
<1>10. QED BY <1>1, <1>2, <1>8, <1>9 DEF Us, P

-----------------------------------------------------------------------------
(* What evpoll hands to select.                                            *)

PollTypeOK ==
    /\ pc \in {"glib", "select", "done"}
    /\ sleep \in {Off} \cup Nat
    /\ timers \in [Timer -> Delay]
    /\ source \in Delay

\* There is something to wake up for after d at the latest.
Reason(d) == \/ \E t \in Timer : timers[t] # Off /\ timers[t] <= d
             \/ source # Off /\ source <= d

\* select times out with a reason.
WakesForReason == pc = "select" /\ sleep # Off => Reason(sleep)

PollInv == PollTypeOK /\ NeverOversleeps /\ WakesForReason

\* A delay is a number of microseconds or Off.
LEMMA DelayType == /\ Off = -1
                   /\ \A d \in Delay : d \in Int /\ -1 <= d /\ (d # Off => d \in Nat)
BY ScaleAssumption DEF Delay, Off

\* glib rounds up to milliseconds, by less than one.
LEMMA TimeoutRounds ==
    ASSUME source \in Delay, source # Off
    PROVE  /\ GlibTimeout \in Nat
           /\ source <= GlibTimeout * UsPerMs
           /\ GlibTimeout * UsPerMs <= source + UsPerMs - 1
<1> DEFINE P == UsPerMs  s == source  q == (s + P - 1) \div P  r == (s + P - 1) % P
<1>1. s \in Int /\ 0 <= s /\ P \in Int /\ 0 < P
    BY Scale, DelayType
<1>2. GlibTimeout = q
    BY DEF GlibTimeout
<1>3. q \in Int /\ r \in 0 .. P - 1 /\ s + P - 1 = P * q + r
    BY <1>1, DivMod
<1> HIDE DEF q, r, P, s
<1>4. r \in Int /\ 0 <= r /\ r <= P - 1
    BY <1>1, <1>3
<1>5. P * q \in Int /\ P * q = q * P
    BY <1>1, <1>3
<1>6. s <= q * P /\ q * P <= s + P - 1
    BY <1>1, <1>3, <1>4, <1>5
<1>7. 0 <= q
    <2>1. SUFFICES ASSUME q <= -1 PROVE FALSE
        BY <1>3
    <2>2. q * P <= (-1) * P
        BY <1>1, <1>3, <2>1
    <2>3. QED BY <1>1, <1>5, <1>6, <2>2
<1>8. QED BY <1>2, <1>3, <1>6, <1>7 DEF P, s

\* osmo_timers_nearest is the timer that expires first.
LEMMA NearestExact ==
    ASSUME timers \in [Timer -> Delay], Scheduled # {}
    PROVE  /\ Us(Nearest) \in Nat
           /\ Nearest.sec \in Int
           /\ Nearest.usec \in 0 .. UsPerSec - 1
           /\ \A t \in Scheduled : Us(Nearest) <= timers[t]
           /\ \E t \in Scheduled : Us(Nearest) = timers[t]
<1> DEFINE S == {timers[t] : t \in Scheduled}
<1>1. S \subseteq Nat /\ S # {}
    BY DelayType DEF Scheduled
<1>2. \E m \in S : \A n \in S : m <= n
    BY <1>1, LeastElement
<1>3. Min(S) \in S /\ \A n \in S : Min(S) <= n
    BY <1>2 DEF Min
<1>4. Nearest = timeval(Min(S)) /\ Min(S) \in Nat
    BY <1>1, <1>3 DEF Nearest
<1> HIDE DEF S
<1>5. /\ Us(Nearest) = Min(S)
      /\ Nearest.sec \in Int
      /\ Nearest.usec \in 0 .. UsPerSec - 1
    BY <1>4, TimevalExact
<1>6. QED BY <1>3, <1>4, <1>5 DEF S

\* The time for select is over no later than any timer of either library, and when it is
\* over one of them is due.
LEMMA SelectTimeExact ==
    ASSUME timers \in [Timer -> Delay], source \in Delay, NEW d, d = SelectTime(GlibTimeout)
    PROVE  /\ d \in {Off} \cup Nat
           /\ \A w \in Waits : d # Off /\ d <= w
           /\ d # Off => Reason(d)
<1> DEFINE T == GlibTimeout
           tv == [sec |-> T \div MsPerSec, usec |-> (T % MsPerSec) * UsPerMs]
<1>1. d = IF T = 0 THEN 0 ELSE
          IF T = -1 THEN IF Scheduled = {} THEN Off ELSE Us(Nearest) ELSE
          IF Scheduled = {} \/ Earlier(tv, Nearest) THEN Us(tv) ELSE Us(Nearest)
    BY DEF SelectTime
<1>2. /\ Off = -1
      /\ \A t \in Scheduled : timers[t] \in Nat /\ timers[t] # Off
      /\ Scheduled \subseteq Timer
    BY DelayType DEF Scheduled
<1>3. CASE source = Off
    <2>1. T = -1
        BY <1>3 DEF GlibTimeout
    <2>2. Waits = {timers[t] : t \in Scheduled}
        BY <1>3 DEF Waits
    <2>3. CASE Scheduled = {}
        BY <1>1, <2>1, <2>2, <2>3
    <2>4. CASE Scheduled # {}
        <3>1. d = Us(Nearest)
            BY <1>1, <2>1, <2>4
        <3> HIDE DEF T
        <3>2. QED BY <1>2, <2>2, <2>4, <3>1, NearestExact DEF Reason
    <2>5. QED BY <2>3, <2>4
<1>4. CASE source # Off
    <2>1. T \in Nat /\ source <= T * UsPerMs /\ T * UsPerMs <= source + UsPerMs - 1
        BY <1>4, TimeoutRounds
    <2>2. source \in Nat /\ UsPerMs \in Nat /\ UsPerMs > 0
        BY <1>4, DelayType, Scale
    <2>3. Waits = {timers[t] : t \in Scheduled} \cup {source + UsPerMs - 1}
        BY <1>4 DEF Waits
    <2> HIDE DEF T
    <2>4. /\ tv.sec \in Int
          /\ tv.usec \in 0 .. UsPerSec - 1
          /\ Us(tv) = T * UsPerMs
        BY <2>1, CarryExact
    <2>5. T * UsPerMs \in Nat
        BY <2>1, <2>2
    <2> HIDE DEF tv
    <2>6. CASE T = 0
        <3>1. source = 0 /\ d = 0
            BY <1>1, <2>1, <2>2, <2>6
        <3>2. QED BY <1>2, <1>4, <2>2, <2>3, <3>1 DEF Reason
    <2>7. CASE T # 0 /\ Scheduled = {}
        <3>1. d = T * UsPerMs
            BY <1>1, <2>1, <2>4, <2>7
        <3>2. QED BY <1>2, <1>4, <2>1, <2>2, <2>3, <2>5, <2>7, <3>1 DEF Reason
    <2>8. CASE T # 0 /\ Scheduled # {}
        <3>1. /\ Us(Nearest) \in Nat
              /\ \A t \in Scheduled : Us(Nearest) <= timers[t]
              /\ \E t \in Scheduled : Us(Nearest) = timers[t]
            BY <2>8, NearestExact
        <3>2. Earlier(tv, Nearest) <=> Us(tv) < Us(Nearest)
            BY <2>4, <2>8, NearestExact, EarlierExact
        <3>3. CASE Earlier(tv, Nearest)
            <4>1. d = T * UsPerMs
                BY <1>1, <2>1, <2>4, <2>8, <3>3
            <4>2. T * UsPerMs < Us(Nearest)
                BY <2>4, <3>2, <3>3
            <4>3. QED
                BY <1>2, <1>4, <2>1, <2>2, <2>3, <2>5, <3>1, <4>1, <4>2 DEF Reason
        <3>4. CASE ~ Earlier(tv, Nearest)
            <4>1. d = Us(Nearest)
                BY <1>1, <2>1, <2>8, <3>4
            <4>2. Us(Nearest) <= T * UsPerMs
                BY <2>4, <2>5, <3>1, <3>2, <3>4
            <4>3. QED
                BY <1>2, <1>4, <2>1, <2>2, <2>3, <2>5, <3>1, <4>1, <4>2 DEF Reason
        <3>5. QED BY <3>3, <3>4
    <2>9. QED BY <2>6, <2>7, <2>8
<1>5. QED BY <1>3, <1>4

-----------------------------------------------------------------------------
(* Every step keeps it so.                                                 *)

\* PollInv holds before the first poll.
LEMMA PollInit == Init => PollInv
<1> SUFFICES ASSUME Init PROVE PollInv
    OBVIOUS
<1>1. PollTypeOK
    BY ScaleAssumption DEF Init, PollTypeOK, Delay, Off
<1>2. QED BY <1>1 DEF Init, PollInv, NeverOversleeps, WakesForReason

\* evpoll on its way into select: the sleep is that of the nearest timer, if the source
\* is not nearer.
LEMMA EnterGood == PollInv /\ EnterSelect => PollInv'
<1> SUFFICES ASSUME PollInv, EnterSelect PROVE PollInv'
    OBVIOUS
<1>1. /\ pc' = "select" /\ sleep' = SelectTime(GlibTimeout)
      /\ timers' = timers /\ source' = source
    BY DEF EnterSelect
<1>2. timers \in [Timer -> Delay] /\ source \in Delay
    BY DEF PollInv, PollTypeOK
<1>3. /\ sleep' \in {Off} \cup Nat
      /\ \A w \in Waits : sleep' # Off /\ sleep' <= w
      /\ sleep' # Off => Reason(sleep')
    BY <1>1, <1>2, SelectTimeExact
<1>4. Waits' = Waits
    BY <1>1 DEF Waits, Scheduled
<1>5. PollTypeOK'
    BY <1>1, <1>2, <1>3 DEF PollTypeOK
<1>6. NeverOversleeps'
    BY <1>3, <1>4 DEF NeverOversleeps
<1>7. WakesForReason'
    BY <1>1, <1>3 DEF WakesForReason, Reason
<1>8. QED BY <1>5, <1>6, <1>7 DEF PollInv

\* Outside select PollInv asks for types only.
LEMMA LeaveGood ==
    ASSUME PollInv, pc' \in {"glib", "done"}, sleep' \in {sleep, Off},
           timers' \in [Timer -> Delay], source' \in Delay
    PROVE  PollInv'
BY DEF PollInv, PollTypeOK, NeverOversleeps, WakesForReason

\* evpoll returns and glib dispatches.
LEMMA ReturnGood ==
    PollInv /\ (SelectInterrupted \/ SelectReturns \/ GlibDispatch) => PollInv'
<1> SUFFICES ASSUME PollInv, SelectInterrupted \/ SelectReturns \/ GlibDispatch
             PROVE  PollInv'
    OBVIOUS
<1>1. timers \in [Timer -> Delay] /\ source \in Delay /\ 0 \in Delay
    BY ScaleAssumption DEF PollInv, PollTypeOK, Delay
<1>2. CASE SelectInterrupted
    BY <1>1, <1>2, LeaveGood DEF SelectInterrupted
<1>3. CASE SelectReturns
    <2>1. timers' \in [Timer -> Delay] /\ source' \in Delay
        BY <1>1, <1>3 DEF SelectReturns, TimersAfter
    <2>2. QED BY <1>3, <2>1, LeaveGood DEF SelectReturns
<1>4. CASE GlibDispatch
    <2>1. timers' \in [Timer -> Delay] /\ source' \in Delay
        BY <1>1, <1>4 DEF GlibDispatch, TimersAfter
    <2>2. QED BY <1>4, <2>1, LeaveGood DEF GlibDispatch
<1>5. QED BY <1>2, <1>3, <1>4

\* A delay that runs by one unit stops at zero.
LEMMA LessDelay ==
    ASSUME NEW d \in Delay
    PROVE  /\ Less(d) \in Delay
           /\ Less(d) = Off <=> d = Off
           /\ d # Off => d \in Nat /\ Less(d) \in Nat
           /\ d # Off => Less(d) = IF d = 0 THEN 0 ELSE d - 1
BY ScaleAssumption DEF Delay, Off, Less

\* Time passes in select: the sleep and what it is for shrink together.
LEMMA TickGood == PollInv /\ Tick => PollInv'
<1> SUFFICES ASSUME PollInv, Tick PROVE PollInv'
    OBVIOUS
<1>1. /\ timers \in [Timer -> Delay] /\ source \in Delay
      /\ sleep \in {Off} \cup Nat /\ Off = -1
    BY DEF PollInv, PollTypeOK, Off
<1>2. /\ pc' = pc /\ sleep' = Less(sleep) /\ source' = Less(source)
      /\ timers' = [t \in Timer |-> Less(timers[t])]
    BY DEF Tick
<1>3. /\ \A t \in Timer : timers[t] \in Delay /\ timers'[t] = Less(timers[t])
      /\ UsPerMs \in Nat /\ UsPerMs > 0
    BY <1>1, <1>2, Scale
<1>4. /\ sleep' \in {Off} \cup Nat
      /\ sleep' = Off <=> sleep = Off
      /\ sleep # Off => sleep' = IF sleep = 0 THEN 0 ELSE sleep - 1
    BY <1>1, <1>2 DEF Less
<1>5. PollTypeOK'
    BY <1>1, <1>2, <1>3, <1>4, LessDelay DEF PollInv, PollTypeOK
<1>6. Scheduled' = Scheduled
    BY <1>3, LessDelay DEF Scheduled
<1>7. NeverOversleeps'
    <2> SUFFICES ASSUME pc = "select", NEW w \in Waits' PROVE sleep' # Off /\ sleep' <= w
        BY <1>2 DEF NeverOversleeps
    <2>1. \A v \in Waits : sleep # Off /\ sleep <= v
        BY DEF PollInv, NeverOversleeps
    <2>2. CASE \E t \in Scheduled : w = timers'[t]
        <3>1. PICK t \in Scheduled : w = timers'[t]
            BY <2>2
        <3>2. t \in Timer /\ timers[t] # Off /\ timers[t] \in Waits
            BY DEF Scheduled, Waits
        <3>3. sleep # Off /\ sleep <= timers[t] /\ timers[t] \in Nat
            BY <1>3, <2>1, <3>2, LessDelay
        <3>4. w = IF timers[t] = 0 THEN 0 ELSE timers[t] - 1
            BY <1>3, <3>1, <3>2, LessDelay
        <3>5. QED BY <1>1, <1>4, <3>3, <3>4
    <2>3. CASE source' # Off /\ w = source' + UsPerMs - 1
        <3>1. source # Off /\ source \in Nat /\ source' = IF source = 0 THEN 0 ELSE source - 1
            BY <1>1, <1>2, <2>3, LessDelay
        <3>2. sleep # Off /\ sleep <= source + UsPerMs - 1
            BY <2>1, <3>1 DEF Waits
        <3>3. QED BY <1>1, <1>3, <1>4, <2>3, <3>1, <3>2
    <2>4. QED BY <1>6, <2>2, <2>3 DEF Waits
<1>8. WakesForReason'
    <2> SUFFICES ASSUME pc = "select", sleep # Off PROVE Reason(sleep)'
        BY <1>2, <1>4 DEF WakesForReason
    <2>1. Reason(sleep)
        BY DEF PollInv, WakesForReason
    <2>2. ASSUME NEW t \in Timer, timers[t] # Off, timers[t] <= sleep
          PROVE  timers'[t] # Off /\ timers'[t] <= sleep'
        <3>1. /\ timers[t] \in Nat /\ timers'[t] # Off
              /\ timers'[t] = IF timers[t] = 0 THEN 0 ELSE timers[t] - 1
            BY <1>3, <2>2, LessDelay
        <3>2. QED BY <1>1, <1>4, <2>2, <3>1
    <2>3. ASSUME source # Off, source <= sleep
          PROVE  source' # Off /\ source' <= sleep'
        <3>1. /\ source \in Nat /\ source' # Off
              /\ source' = IF source = 0 THEN 0 ELSE source - 1
            BY <1>1, <1>2, <2>3, LessDelay
        <3>2. QED BY <1>1, <1>4, <2>3, <3>1
    <2>4. QED BY <2>1, <2>2, <2>3 DEF Reason
<1>9. QED BY <1>5, <1>7, <1>8 DEF PollInv

\* Every step keeps PollInv.
LEMMA PollStep == PollInv /\ [Next]_vars => PollInv'
<1> SUFFICES ASSUME PollInv, [Next]_vars PROVE PollInv'
    OBVIOUS
<1>1. ASSUME UNCHANGED <<pc, sleep, timers, source>> PROVE PollInv'
    BY <1>1 DEF PollInv, PollTypeOK, NeverOversleeps, WakesForReason, Reason, Waits, Scheduled
<1>2. CASE OsmoReady \/ GlibReady \/ UNCHANGED vars
    BY <1>1, <1>2 DEF OsmoReady, GlibReady, vars
<1>3. QED BY <1>2, EnterGood, ReturnGood, TickGood DEF Next

-----------------------------------------------------------------------------
\* The loop of glib and evpoll keeps the relation of the sleep to both libraries' timers.
THEOREM PollInvariance == Spec => []PollInv
BY PollInit, PollStep, PTL DEF Spec

\* evpoll never has select sleep past a timer of libosmocore or, to the millisecond it is
\* rounded up to, a source of glib.
THEOREM EvPollNeverOversleeps == Spec => []NeverOversleeps
<1>1. PollInv => NeverOversleeps
    BY DEF PollInv
<1>2. QED BY <1>1, PollInvariance, PTL

\* When select times out a timer of libosmocore or a source of glib is due.
THEOREM EvPollNeverSpins == Spec => []NeverSpins
<1>1. PollInv => NeverSpins
    <2> SUFFICES ASSUME PollInv, pc = "select", sleep = 0 PROVE Due # {} \/ source = 0
        BY DEF NeverSpins
    <2>1. timers \in [Timer -> Delay] /\ source \in Delay /\ Reason(0)
        BY DelayType DEF PollInv, PollTypeOK, WakesForReason
    <2>2. \A e \in Delay : e # Off /\ e <= 0 => e = 0
        BY DelayType
    <2>3. QED BY <2>1, <2>2 DEF Reason, Due
<1>2. QED BY <1>1, PollInvariance, PTL

=============================================================================
