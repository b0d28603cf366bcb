-------------------------- MODULE CronSchedulerProofs --------------------------
(***************************************************************************)
(* Proofs about CronScheduler, for any number of entries, any periods and  *)
(* any window: how often an occurrence is pushed at most, and under which  *)
(* lags and periods none is missed.                                        *)
(***************************************************************************)
EXTENDS CronScheduler, TLAPS

-----------------------------------------------------------------------------
(* Occurrences *)

\* Quotient and remainder.
LEMMA Divided ==
    ASSUME NEW p \in Nat, p > 0, NEW x \in Nat
    PROVE  /\ x \div p \in Nat /\ x % p \in Nat /\ x % p < p
           /\ x = p * (x \div p) + (x % p)
<1>1. x \div p \in Nat
      OBVIOUS
<1>2. x % p \in Nat /\ x % p < p
      OBVIOUS
<1>3. x = p * (x \div p) + (x % p)
      OBVIOUS
<1>4. QED BY <1>1, <1>2, <1>3

\* A multiple leaves no remainder.
LEMMA Multiple == ASSUME NEW p \in Nat, p > 0, NEW k \in Nat PROVE (p * k) % p = 0
<1> DEFINE x == p * k
           q == x \div p
           d == q - k
           m == x % p
<1>1. x \in Nat
      OBVIOUS
<1>2. q \in Nat /\ m \in Nat /\ m < p /\ x = p * q + m
      BY <1>1, Divided
<1>3. d \in Int /\ p * d = p * q - x
  <2> HIDE DEF q
  <2>1. QED BY <1>2
<1> HIDE DEF d, m, x
<1>4. p * d = - m
  <2> HIDE DEF q
  <2> DEFINE y == p * q
  <2>1. y \in Nat /\ x = y + m /\ p * d = y - x
        BY <1>2, <1>3
  <2> HIDE DEF y
  <2>2. QED BY <1>1, <1>2, <2>1
<1>5. d >= 1 => p * d >= p
      BY <1>3
<1>6. d <= -1 => p * d <= - p
      BY <1>3
<1>7. m = 0
      BY <1>2, <1>3, <1>4, <1>5, <1>6
<1>8. QED BY <1>7 DEF m, x

\* Two numbers without a remainder are a divisor apart.
LEMMA Apart ==
    ASSUME NEW p \in Nat, p > 0, NEW x \in Nat, NEW y \in Nat, x % p = 0, y % p = 0, x < y
    PROVE  x + p <= y
<1> DEFINE a == x \div p
           b == y \div p
           d == b - a
<1>1. a \in Nat /\ x = p * a
      BY Divided
<1>2. b \in Nat /\ y = p * b
      BY Divided
<1> HIDE DEF a, b
<1>3. d \in Int /\ p * d = p * b - p * a
      BY <1>1, <1>2
<1>4. p * d = y - x
      BY <1>1, <1>2, <1>3
<1> HIDE DEF d
<1>5. d <= 0 => p * d <= 0
      BY <1>3
<1>6. d >= 1 => p * d >= p
      BY <1>3
<1>7. QED BY <1>3, <1>4, <1>5, <1>6

\* Occurrences of an entry are a period apart.
LEMMA Occurrences ==
    ASSUME NEW e \in 1 .. Entries, NEW t \in Times(e), NEW u \in Times(e), t < u
    PROVE  t + Period <= u
<1> DEFINE x == t - Offset[e]
           y == u - Offset[e]
<1>1. /\ Period \in Nat /\ Period > 0 /\ Offset[e] \in Nat /\ t \in Nat /\ u \in Nat
      /\ x \in Nat /\ y \in Nat /\ x % Period = 0 /\ y % Period = 0
  <2>1. Period \in Nat /\ Period > 0 /\ Offset[e] \in Nat /\ Horizon \in Nat
        BY CronAssumption
  <2>2. t \in Nat /\ t >= Offset[e] /\ x % Period = 0
        BY <2>1 DEF Times
  <2>3. u \in Nat /\ u >= Offset[e] /\ y % Period = 0
        BY <2>1 DEF Times
  <2>4. x \in Nat /\ y \in Nat
        BY <2>1, <2>2, <2>3
  <2> HIDE DEF x, y
  <2>5. QED BY <2>1, <2>2, <2>3, <2>4
<1>2. x < y
      BY <1>1
<1>3. x + Period <= y
  <2> HIDE DEF x, y
  <2>1. QED BY <1>1, <1>2, Apart
<1>4. QED BY <1>1, <1>3

\* The first multiple above a number.
LEMMA Above ==
    ASSUME NEW p \in Nat, p > 0, NEW a \in Nat
    PROVE  \E x \in Nat : x % p = 0 /\ x > a /\ x <= a + p
<1> DEFINE q == a \div p
           k == q + 1
           x == p * k
<1>1. q \in Nat /\ a % p \in Nat /\ a % p < p /\ a = p * q + (a % p)
      BY Divided
<1>2. k \in Nat /\ p * k = p * q + p
  <2> HIDE DEF q
  <2>1. QED BY <1>1
<1>3. x \in Nat /\ x > a /\ x <= a + p
  <2> DEFINE m == a % p
             y == p * q
  <2>1. m \in Nat /\ m < p /\ y \in Int /\ a = y + m /\ x = y + p
        BY <1>1, <1>2
  <2> HIDE DEF k, q, m, y, x
  <2>2. QED BY <2>1
<1>4. x % p = 0
      BY <1>2, Multiple
<1>5. QED BY <1>3, <1>4

\* The first occurrence after the clock, as long as the run looks at one.
LEMMA UpcomingIs ==
    ASSUME NEW e \in 1 .. Entries, Times(e) # {}, clock \in Nat, clock < Horizon
    PROVE  /\ Upcoming(e) \in Times(e) /\ Upcoming(e) > clock
           /\ \A u \in Times(e) : u > clock => Upcoming(e) <= u
<1> DEFINE o == Offset[e]
<1>1. Period \in Nat /\ Period > 0 /\ o \in Nat /\ Horizon \in Nat
      BY CronAssumption
<1>2. o <= Horizon + Period
      BY <1>1 DEF Times
<1>3. \E t \in Times(e) : t > clock /\ \A u \in Times(e) : u > clock => t <= u
  <2>1. CASE o > clock
    <3>1. o - o = 0 /\ 0 % Period = 0
          BY <1>1
    <3>2. o \in Times(e)
          BY <1>1, <1>2, <3>1 DEF Times
    <3>3. \A u \in Times(e) : o <= u
          BY DEF Times
    <3>4. QED BY <2>1, <3>2, <3>3
  <2>2. CASE ~(o > clock)
    <3> DEFINE a == clock - o
    <3>1. a \in Nat
          BY <1>1, <2>2
    <3>2. PICK x \in Nat : x % Period = 0 /\ x > a /\ x <= a + Period
          BY <1>1, <3>1, Above
    <3> DEFINE t == o + x
    <3>3. t \in Nat /\ t > clock /\ t <= clock + Period /\ t - o = x /\ t >= o
          BY <1>1, <3>2
    <3> HIDE DEF t
    <3>4. t \in Times(e)
          BY <1>1, <3>2, <3>3 DEF Times
    <3>5. ASSUME NEW u \in Times(e), u > clock PROVE t <= u
      <4>1. u \in Nat
            BY DEF Times
      <4>2. u < t => u + Period <= t
            BY <3>4, Occurrences
      <4>3. QED BY <1>1, <3>3, <3>5, <4>1, <4>2
    <3>6. QED BY <3>3, <3>4, <3>5
  <2>3. QED BY <2>1, <2>2
<1>4. QED BY <1>3 DEF Upcoming

\* What the window lets through, without the division.
LEMMA WholeSeconds ==
    ASSUME NEW x \in Int PROVE (x \div Second <= Window) <=> x < Window * Second + Second
<1>1. Second \in Nat \ {0} /\ Window \in Nat
      BY CronAssumption
<1>2. (x \div Second <= Window) <=> x < (Window + 1) * Second
      BY <1>1
<1>3. (Window + 1) * Second = Window * Second + Second
      BY <1>1
<1>4. QED BY <1>2, <1>3

\* The window in ticks is a second or more.
LEMMA Ticks ==
    /\ Second \in Nat \ {0} /\ Window * Second \in Nat /\ Window * Second >= Second
<1>1. Second \in Nat \ {0} /\ Window \in Nat /\ Window >= 1
      BY CronAssumption
<1>2. QED BY <1>1

\* A window that ends later.
LEMMA Later ==
    ASSUME NEW t \in Nat, NEW n \in Nat, NEW m \in Nat, NEW w \in Nat, NEW s \in Nat,
           m >= n + w, t < n + w + s
    PROVE  t < m + s /\ t < m + w + s
OBVIOUS

-----------------------------------------------------------------------------
(* Pushed at most twice *)

\* The clock never runs back, and the next turn is a window or more after this one.
ClockInv ==
    /\ clock \in Nat /\ now \in Nat /\ now <= clock /\ since \in Nat /\ since <= now
    /\ entry \in -1 .. Entries /\ sleepEnd \in Nat
    /\ entry = 0 => sleepEnd >= now + Window * Second

\* This turn has looked at the entry.
Evaluated(e) == entry <= 0 \/ e < entry

\* An occurrence that was pushed lies in the window of the turn that pushed it; when
\* two turns did, it lies in both windows, and when this turn has still to look at it,
\* these are the windows of earlier ones.
FiredAt(t, n, count, evaluated) ==
    /\ count <= 2
    /\ count >= 1 => t < n + Window * Second + Second
    /\ (count = 2 \/ (count >= 1 /\ ~evaluated)) => t < n + Second
    /\ (count = 2 /\ ~evaluated) => t < n

FiredInv ==
    /\ fired = [e \in 1 .. Entries |-> fired[e]]
    /\ \A e \in 1 .. Entries :
        /\ fired[e] \in [Times(e) -> Nat]
        /\ \A t \in Times(e) : FiredAt(t, now, fired[e][t], Evaluated(e))

TwiceInv == ClockInv /\ FiredInv

\* The clock and the entry move on.
LEMMA ClockKept == ASSUME ClockInv, [Next]_vars PROVE ClockInv'
<1>1. Window * Second \in Nat /\ Entries \in Nat \ {0} /\ Lags \subseteq Nat
      BY Ticks, CronAssumption
<1>2. CASE UNCHANGED vars
      BY <1>2 DEF ClockInv, vars
<1>3. ASSUME entry > 0, UNCHANGED <<now, since>>, clock' \in Nat, clock' >= clock, Proceed
      PROVE  ClockInv'
  <2> DEFINE ws == Window * Second
  <2>1. /\ ws \in Nat
        /\ IF entry < Entries THEN entry' = entry + 1 /\ UNCHANGED sleepEnd
           ELSE entry' = 0 /\ sleepEnd' = clock' + ws
        BY <1>1, <1>3 DEF Proceed
  <2> HIDE DEF ws
  <2>2. /\ now' \in Nat /\ now' <= clock' /\ since' \in Nat /\ since' <= now'
        /\ entry' \in -1 .. Entries /\ sleepEnd' \in Nat
        /\ entry' = 0 => sleepEnd' >= now' + ws
        BY <1>1, <1>3, <2>1 DEF ClockInv
  <2>3. QED BY <1>3, <2>2 DEF ClockInv, ws
<1>4. CASE Push
  <2>1. PICK lag \in Lags : clock' = clock + lag
        BY <1>4 DEF Push
  <2>2. clock' \in Nat /\ clock' >= clock
        BY <1>1, <2>1 DEF ClockInv
  <2>3. QED BY <1>3, <1>4, <2>2 DEF Push
<1>5. CASE Pass
  <2>1. clock' \in Nat /\ clock' >= clock
        BY <1>5 DEF Pass, ClockInv
  <2>2. QED BY <1>3, <1>5, <2>1 DEF Pass
<1>6. CASE Turn
  <2>1. PICK lag \in Lags : clock' = sleepEnd + lag
        BY <1>6 DEF Turn
  <2>2. entry = 0 /\ now' = clock' /\ entry' = 1 /\ UNCHANGED <<sleepEnd, since>>
        BY <1>6 DEF Turn
  <2> DEFINE ws == Window * Second
  <2>3. ws \in Nat /\ sleepEnd >= now + ws
        BY <1>1, <2>2 DEF ClockInv
  <2> HIDE DEF ws
  <2>4. /\ clock' \in Nat /\ now' \in Nat /\ since' \in Nat /\ since' <= now' /\ now' <= clock'
        /\ entry' \in -1 .. Entries /\ sleepEnd' \in Nat /\ entry' # 0
        BY <1>1, <2>1, <2>2, <2>3 DEF ClockInv
  <2>5. QED BY <2>4 DEF ClockInv
<1>7. CASE Stop
      BY <1>1, <1>7 DEF Stop, ClockInv
<1>8. QED BY <1>2, <1>4, <1>5, <1>6, <1>7 DEF Next

\* The entry a turn looked at is the only one it has then looked at and had not before.
LEMMA Proceeds ==
    ASSUME ClockInv, entry > 0, Proceed, NEW e \in 1 .. Entries
    PROVE  /\ e = entry => ~Evaluated(e) /\ Evaluated(e)'
           /\ e # entry => (Evaluated(e)' <=> Evaluated(e))
BY CronAssumption DEF ClockInv, Proceed, Evaluated

\* Push(): the occurrence is ahead of the clock, so it was pushed once at most.
LEMMA FiredPush == ASSUME TwiceInv, Push PROVE FiredInv'
<1> DEFINE u == Upcoming(entry)
           ws == Window * Second
<1>1. /\ clock \in Nat /\ now \in Nat /\ now <= clock /\ entry > 0 /\ entry \in 1 .. Entries
      /\ clock < Horizon /\ ClockInv /\ FiredInv
      BY CronAssumption DEF TwiceInv, ClockInv, Push
<1>2. /\ Imminent(entry) /\ fired' = [fired EXCEPT ![entry][u] = @ + 1] /\ Proceed /\ now' = now
      BY DEF Push
<1>3. Second \in Nat \ {0} /\ ws \in Nat /\ ws >= Second
      BY Ticks
<1>4. Times(entry) # {} => u \in Times(entry) /\ u > clock /\ u \in Nat /\ u - now < ws + Second
  <2>1. Times(entry) # {} => u \in Times(entry) /\ u > clock
        BY <1>1, UpcomingIs
  <2>2. \A t \in Times(entry) : t \in Nat
        BY DEF Times
  <2> HIDE DEF u
  <2>3. u \in Nat => ((u - now) \div Second <= Window <=> u - now < ws + Second)
        BY <1>1, WholeSeconds
  <2>4. (u - now) \div Second <= Window
        BY <1>2 DEF Imminent, u
  <2>5. QED BY <2>1, <2>2, <2>3, <2>4
<1>5. ASSUME NEW e \in 1 .. Entries
      PROVE  /\ fired'[e] \in [Times(e) -> Nat]
             /\ \A t \in Times(e) : FiredAt(t, now', fired'[e][t], Evaluated(e)')
  <2>1. fired[e] \in [Times(e) -> Nat] /\ \A t \in Times(e) : FiredAt(t, now, fired[e][t], Evaluated(e))
        BY <1>1 DEF FiredInv
  <2>2. \A t \in Times(e) : t \in Nat /\ fired[e][t] \in Nat
        BY <2>1 DEF Times
  <2>3. CASE e # entry
    <3>1. fired'[e] = fired[e]
          BY <1>1, <1>2, <2>3 DEF FiredInv
    <3>2. Evaluated(e)' <=> Evaluated(e)
          BY <1>1, <1>2, <2>3, Proceeds
    <3>3. QED BY <1>2, <2>1, <3>1, <3>2 DEF FiredAt
  <2>4. CASE e = entry
    <3> HIDE DEF u
    <3>1. fired'[e] = [fired[e] EXCEPT ![u] = @ + 1]
          BY <1>1, <1>2, <2>4 DEF FiredInv
    <3>2. Evaluated(e)' /\ ~Evaluated(e)
          BY <1>1, <1>2, <2>4, Proceeds
    <3>3. fired'[e] \in [Times(e) -> Nat]
      <4> DEFINE f == fired[e]
      <4>1. f \in [Times(e) -> Nat] /\ fired'[e] = [f EXCEPT ![u] = f[u] + 1]
            BY <2>1, <3>1
      <4>2. u \in Times(e) => f[u] + 1 \in Nat
            BY <2>1
      <4> HIDE DEF f
      <4>3. QED BY <4>1, <4>2
    <3>4. ASSUME NEW t \in Times(e) PROVE FiredAt(t, now', fired'[e][t], Evaluated(e)')
      <4> DEFINE c == fired[e][t]
                 d == fired'[e][t]
      <4>1. /\ t \in Nat /\ c \in Nat /\ c <= 2
            /\ c >= 1 => t < now + Second
            /\ c = 2 => t < now
            BY <1>3, <2>1, <2>2, <3>2 DEF FiredAt
      <4>2. /\ t # u => d = c
            /\ t = u => d = c + 1
            BY <2>1, <3>1
      <4>3. t = u => t > clock /\ t < now + ws + Second
            BY <1>1, <1>3, <1>4, <2>4, <4>1
      <4> HIDE DEF c, d, ws
      <4>4. /\ d <= 2
            /\ d >= 1 => t < now + ws + Second
            /\ d = 2 => t < now + Second
            BY <1>1, <1>3, <4>1, <4>2, <4>3
      <4>5. QED BY <1>2, <3>2, <4>4 DEF FiredAt, d, ws
    <3>5. QED BY <3>3, <3>4
  <2>5. QED BY <2>3, <2>4
<1>6. fired' = [e \in 1 .. Entries |-> fired'[e]]
  <2> HIDE DEF u
  <2>1. QED BY <1>1, <1>2 DEF FiredInv
<1>7. QED BY <1>5, <1>6 DEF FiredInv

\* The windows of a turn and of the next but one do not meet.
LEMMA FiredKept == ASSUME TwiceInv, [Next]_vars PROVE FiredInv'
<1> DEFINE ws == Window * Second
<1>1. ClockInv /\ FiredInv /\ now \in Nat /\ Second \in Nat \ {0} /\ ws \in Nat /\ ws >= Second
      BY Ticks DEF TwiceInv, ClockInv
<1>2. CASE Push
      BY <1>2, FiredPush
<1>3. CASE UNCHANGED vars
      BY <1>1, <1>3 DEF vars, FiredInv, FiredAt, Evaluated
<1>4. CASE Pass
  <2>1. entry > 0 /\ Proceed /\ UNCHANGED <<now, fired>>
        BY <1>4 DEF Pass
  <2>2. ASSUME NEW e \in 1 .. Entries, NEW t \in Times(e)
        PROVE  FiredAt(t, now, fired[e][t], Evaluated(e)')
    <3>1. Evaluated(e) => Evaluated(e)'
          BY <1>1, <2>1, Proceeds
    <3>2. FiredAt(t, now, fired[e][t], Evaluated(e))
          BY <1>1 DEF FiredInv
    <3>3. QED BY <3>1, <3>2 DEF FiredAt
  <2>3. QED BY <1>1, <2>1, <2>2 DEF FiredInv
<1>5. CASE Turn
  <2>1. /\ entry = 0 /\ entry' = 1 /\ UNCHANGED fired /\ sleepEnd >= now + ws
        /\ now' \in Nat /\ now' >= sleepEnd /\ sleepEnd \in Nat
    <3>1. PICK lag \in Lags : clock' = sleepEnd + lag
          BY <1>5 DEF Turn
    <3>2. lag \in Nat
          BY CronAssumption
    <3>3. QED BY <1>1, <1>5, <3>1, <3>2 DEF Turn, ClockInv
  <2>2. ASSUME NEW e \in 1 .. Entries, NEW t \in Times(e)
        PROVE  FiredAt(t, now', fired[e][t], Evaluated(e)')
    <3> DEFINE c == fired[e][t]
    <3>1. t \in Nat /\ c \in Nat /\ Second \in Nat /\ ws \in Nat /\ now \in Nat
      <4>1. fired[e] \in [Times(e) -> Nat]
            BY <1>1 DEF FiredInv
      <4>2. t \in Nat
            BY DEF Times
      <4>3. QED BY <1>1, <4>1, <4>2
    <3>2. FiredAt(t, now, c, Evaluated(e))
          BY <1>1 DEF FiredInv
    <3>3. c <= 2 /\ (c >= 1 => t < now + ws + Second) /\ (c = 2 => t < now + Second)
          BY <3>2 DEF FiredAt
    <3>4. now' \in Nat /\ now' >= now + ws
          BY <1>1, <2>1
    <3> HIDE DEF c, ws
    <3>5. c >= 1 => t < now' + Second
      <4>1. c >= 1 => t < now + ws + Second
            BY <3>3
      <4>2. QED BY <3>1, <3>4, <4>1, Later
    <3>6. c = 2 => t < now'
          BY <1>1, <3>1, <3>3, <3>4
    <3>7. c >= 1 => t < now' + ws + Second
          BY <3>1, <3>3, <3>4, Later
    <3>8. QED BY <3>1, <3>3, <3>5, <3>6, <3>7 DEF FiredAt, c, ws
  <2>3. QED BY <1>1, <2>1, <2>2 DEF FiredInv
<1>6. CASE Stop
      BY <1>1, <1>6 DEF Stop, FiredInv, FiredAt, Evaluated
<1>7. QED BY <1>2, <1>3, <1>4, <1>5, <1>6 DEF Next

\* The start.
LEMMA TwiceInit == Init => TwiceInv
<1> SUFFICES ASSUME Init PROVE TwiceInv
    OBVIOUS
<1>1. ClockInv
      BY CronAssumption DEF Init, ClockInv
<1>2. FiredInv
  <2>1. \A e \in 1 .. Entries : fired[e] = [t \in Times(e) |-> 0]
        BY DEF Init
  <2>2. QED BY <2>1, Ticks, <1>1 DEF Init, FiredInv, FiredAt, ClockInv
<1>3. QED BY <1>1, <1>2 DEF TwiceInv

\* Whatever the entries, their periods, the window and the lags: no occurrence is
\* pushed more than twice, because the windows of a turn and of the next but one do not
\* meet (CronScheduler::run, num_seconds() <= 60 and a sleep of 60 s).
THEOREM Twice == Spec => []AtMostTwice
<1>1. TwiceInv /\ [Next]_vars => TwiceInv'
      BY ClockKept, FiredKept DEF TwiceInv
<1>2. TwiceInv => AtMostTwice
  <2> SUFFICES ASSUME TwiceInv PROVE AtMostTwice
      OBVIOUS
  <2>1. TypeOK
        BY DEF TwiceInv, ClockInv, FiredInv, TypeOK
  <2>2. \A e \in 1 .. Entries : \A t \in Times(e) : fired[e][t] <= 2
        BY DEF TwiceInv, FiredInv, FiredAt
  <2>3. QED BY <2>1, <2>2 DEF AtMostTwice
<1>3. QED BY <1>1, <1>2, TwiceInit, PTL DEF Spec

-----------------------------------------------------------------------------
(* None missed *)

\* No push and no timer is late by more than lag, the pushes and timers of two turns
\* by less than a second, and an entry occurs once at most while a window is open.
Timely(lag) ==
    /\ lag \in Nat /\ \A l \in Lags : l <= lag
    /\ 2 * (Entries * lag) < Second
    /\ Window * Second + Second <= Period

\* How far a turn has drifted from its start.
DriftInv(lag) ==
    /\ entry > 0 => clock <= now + (entry - 1) * lag
    /\ entry = 0 => clock <= now + Entries * lag /\ sleepEnd <= clock + Window * Second

\* A turn leaves nothing open in its window, and one that has not looked yet finds
\* nothing left open behind it.
CoveredAt(lag, t, n, start, count, evaluated) ==
    start + Second <= t =>
        /\ evaluated /\ t < n + Window * Second + Second => count > 0
        /\ t + (Entries * lag + lag) < n + Second => count > 0

CoveredInv(lag) ==
    \A e \in 1 .. Entries : \A t \in Times(e) :
        CoveredAt(lag, t, now, since, fired[e][t], Evaluated(e))

MissInv(lag) == TwiceInv /\ DriftInv(lag) /\ CoveredInv(lag)

\* One more lag per entry.
LEMMA Lag ==
    ASSUME NEW lag \in Nat, NEW k \in Nat, k > 0, k <= Entries
    PROVE  /\ (k - 1) * lag \in Nat /\ Entries * lag \in Nat /\ k * lag = (k - 1) * lag + lag
           /\ (k - 1) * lag + lag <= Entries * lag
<1>1. Entries \in Nat
      BY CronAssumption
<1>2. (k - 1) * lag \in Nat /\ Entries * lag \in Nat /\ k * lag = (k - 1) * lag + lag
      BY <1>1
<1>3. k * lag <= Entries * lag
      BY <1>1
<1>4. QED BY <1>2, <1>3

\* A drift that grows.
LEMMA Further ==
    ASSUME NEW a \in Nat, NEW b \in Nat, NEW n \in Nat, NEW d \in Nat, NEW l \in Nat,
           a <= b + l, b <= n + d
    PROVE  a <= n + (d + l)
OBVIOUS

\* The drift of a turn.
LEMMA DriftKept ==
    ASSUME NEW lag, Timely(lag), MissInv(lag), [Next]_vars PROVE DriftInv(lag)'
<1> DEFINE ws == Window * Second
           el == Entries * lag
<1>1. /\ lag \in Nat /\ Entries \in Nat /\ Entries > 0 /\ Lags \subseteq Nat /\ ws \in Nat /\ ClockInv
      /\ DriftInv(lag) /\ now \in Nat /\ clock \in Nat /\ entry \in -1 .. Entries
      BY CronAssumption, Ticks DEF Timely, MissInv, TwiceInv, ClockInv
<1>2. ASSUME entry > 0, now' = now, clock' \in Nat, clock' <= clock + lag, Proceed
      PROVE  DriftInv(lag)'
  <2> DEFINE d == (entry - 1) * lag
  <2>1. /\ d \in Nat /\ el \in Nat /\ entry * lag = d + lag /\ d + lag <= el
        /\ (entry + 1) - 1 = entry
        BY <1>1, <1>2, Lag
  <2>2. clock <= now + d
        BY <1>1, <1>2 DEF DriftInv
  <2>3. CASE entry < Entries
    <3>1. entry' = entry + 1 /\ entry' > 0 /\ entry' # 0 /\ entry' - 1 = entry
          BY <1>1, <1>2, <2>3 DEF Proceed
    <3>2. (entry' - 1) * lag = d + lag
          BY <2>1, <3>1
    <3>3. d \in Nat
          BY <2>1
    <3> HIDE DEF d
    <3>4. clock' <= now + (d + lag)
          BY <1>1, <1>2, <2>2, <3>3, Further
    <3>5. QED BY <1>2, <3>1, <3>2, <3>4 DEF DriftInv
  <2>4. CASE ~(entry < Entries)
    <3>1. entry' = 0 /\ sleepEnd' = clock' + ws
          BY <1>2, <2>4 DEF Proceed
    <3>2. d \in Nat /\ el \in Nat /\ d + lag <= el
          BY <2>1
    <3> HIDE DEF d, el, ws
    <3>3. clock' <= now + (d + lag)
          BY <1>1, <1>2, <2>2, <3>2, Further
    <3>4. clock' <= now + el
      <4>1. now + (d + lag) <= now + el
            BY <1>1, <3>2
      <4>2. clock' \in Nat
            BY <1>2
      <4>3. QED BY <1>1, <3>2, <3>3, <4>1, <4>2
    <3>5. \A a \in Nat, w \in Nat : a + w <= a + w
          OBVIOUS
    <3>6. sleepEnd' <= clock' + ws
          BY <1>1, <1>2, <3>1, <3>5
    <3>7. QED BY <1>2, <3>1, <3>4, <3>6 DEF DriftInv, el, ws
  <2>5. QED BY <2>3, <2>4
<1>3. CASE Push
  <2>1. PICK l \in Lags : clock' = clock + l
        BY <1>3 DEF Push
  <2>2. l \in Nat /\ l <= lag
        BY <1>1 DEF Timely
  <2>3. clock' \in Nat /\ clock' <= clock + lag
        BY <1>1, <2>1, <2>2
  <2>4. QED BY <1>2, <1>3, <2>3 DEF Push
<1>4. CASE Pass
  <2>1. clock' \in Nat /\ clock' <= clock + lag
        BY <1>1, <1>4 DEF Pass
  <2>2. QED BY <1>2, <1>4, <2>1 DEF Pass
<1>5. CASE Turn
  <2>1. entry' = 1 /\ now' = clock' /\ clock' \in Nat /\ (entry' - 1) * lag = 0
    <3>1. PICK l \in Lags : clock' = sleepEnd + l
          BY <1>5 DEF Turn
    <3>2. QED BY <1>1, <1>5, <3>1 DEF Turn, ClockInv
  <2>2. QED BY <2>1 DEF DriftInv
<1>6. CASE Stop
      BY <1>6 DEF Stop, DriftInv
<1>7. CASE UNCHANGED vars
      BY <1>1, <1>7 DEF vars, DriftInv
<1>8. QED BY <1>3, <1>4, <1>5, <1>6, <1>7 DEF Next

\* A turn that looks at an entry leaves nothing of it open in its window: what lies
\* behind the clock was not open before, and of what lies ahead only the next one is in
\* the window.
LEMMA Looked ==
    ASSUME NEW lag, Timely(lag), MissInv(lag), entry > 0, clock < Horizon,
           NEW t \in Times(entry), since + Second <= t, t < now + Window * Second + Second
    PROVE  fired[entry][t] > 0 \/ (t = Upcoming(entry) /\ Imminent(entry))
<1> DEFINE ws == Window * Second
           el == Entries * lag
           d == (entry - 1) * lag
           u == Upcoming(entry)
<1>1. /\ lag \in Nat /\ ws \in Nat /\ Second \in Nat \ {0} /\ now \in Nat /\ clock \in Nat
      /\ now <= clock /\ entry \in 1 .. Entries /\ entry \in Nat /\ Period \in Nat /\ Entries \in Nat
      BY CronAssumption, Ticks DEF Timely, MissInv, TwiceInv, ClockInv
<1>2. d \in Nat /\ el \in Nat /\ d + lag <= el
      BY <1>1, Lag
<1>3. clock <= now + d
      BY DEF MissInv, DriftInv
<1>4. 2 * el < Second /\ ws + Second <= Period
      BY DEF Timely
<1>5. t \in Nat
      BY DEF Times
<1>6. CASE t <= clock
  <2>1. t + (el + lag) < now + Second
    <3> HIDE DEF d, el
    <3>1. QED BY <1>1, <1>2, <1>3, <1>4, <1>5, <1>6
  <2>2. CoveredAt(lag, t, now, since, fired[entry][t], Evaluated(entry))
        BY <1>1 DEF MissInv, CoveredInv
  <2>3. QED BY <2>1, <2>2 DEF CoveredAt
<1>7. CASE t > clock
  <2>1. u \in Times(entry) /\ u > clock /\ u <= t
        BY <1>1, <1>7, UpcomingIs
  <2>2. u < t => u + Period <= t
        BY <1>1, <2>1, Occurrences
  <2>3. u \in Nat
        BY <2>1 DEF Times
  <2> HIDE DEF ws, u, el
  <2>4. t < now + ws + Second
        BY DEF ws
  <2>5. u = t
        BY <1>1, <1>4, <1>5, <2>1, <2>2, <2>3, <2>4
  <2>6. u - now < ws + Second
        BY <1>1, <1>5, <2>4, <2>5
  <2>7. (u - now) \div Second <= Window
        BY <1>1, <2>3, <2>6, WholeSeconds DEF ws
  <2>8. QED BY <2>5, <2>7 DEF Imminent, u
<1>8. QED BY <1>1, <1>5, <1>6, <1>7

\* Nothing is left open.
LEMMA CoveredKept ==
    ASSUME NEW lag, Timely(lag), MissInv(lag), [Next]_vars PROVE CoveredInv(lag)'
<1> DEFINE ws == Window * Second
           el == Entries * lag
<1>1. /\ lag \in Nat /\ ws \in Nat /\ el \in Nat /\ Second \in Nat /\ now \in Nat /\ clock \in Nat
      /\ ClockInv /\ FiredInv /\ DriftInv(lag) /\ CoveredInv(lag) /\ entry \in -1 .. Entries
      /\ Entries \in Nat
      BY CronAssumption, Ticks DEF Timely, MissInv, TwiceInv, ClockInv
<1>2. ASSUME NEW e \in 1 .. Entries, NEW t \in Times(e)
      PROVE  /\ CoveredAt(lag, t, now, since, fired[e][t], Evaluated(e))
             /\ t \in Nat /\ fired[e][t] \in Nat
  <2>1. fired[e] \in [Times(e) -> Nat]
        BY <1>1 DEF FiredInv
  <2>2. t \in Nat
        BY DEF Times
  <2>3. QED BY <1>1, <2>1, <2>2 DEF CoveredInv
<1>3. CASE Push \/ Pass
  <2>1. entry > 0 /\ entry \in 1 .. Entries /\ clock < Horizon /\ Proceed /\ UNCHANGED <<now, since>>
        BY <1>1, <1>3 DEF Push, Pass
  <2>2. ASSUME NEW e \in 1 .. Entries, NEW t \in Times(e)
        PROVE  /\ fired[e][t] > 0 => fired'[e][t] > 0
               /\ e = entry /\ t = Upcoming(e) /\ Imminent(e) => fired'[e][t] > 0
    <3>1. CASE Pass
          BY <1>2, <2>1, <3>1 DEF Pass
    <3>2. CASE Push
      <4> DEFINE u == Upcoming(entry)
      <4>1. fired' = [fired EXCEPT ![entry][u] = @ + 1]
            BY <3>2 DEF Push
      <4> HIDE DEF u
      <4>2. fired[e] \in [Times(e) -> Nat] /\ fired = [x \in 1 .. Entries |-> fired[x]]
            BY <1>1 DEF FiredInv
      <4>3. fired'[e][t] = fired[e][t] \/ (fired'[e][t] = fired[e][t] + 1 /\ e = entry /\ t = u)
            BY <4>1, <4>2
      <4>4. e = entry /\ t = u => fired'[e][t] = fired[e][t] + 1
            BY <4>1, <4>2
      <4>5. QED BY <1>2, <4>3, <4>4 DEF u
    <3>3. QED BY <1>3, <3>1, <3>2
  <2>3. ASSUME NEW e \in 1 .. Entries, NEW t \in Times(e)
        PROVE  CoveredAt(lag, t, now, since, fired'[e][t], Evaluated(e)')
    <3>1. CoveredAt(lag, t, now, since, fired[e][t], Evaluated(e))
          BY <1>2
    <3>2. CASE e # entry
      <4>1. Evaluated(e)' <=> Evaluated(e)
            BY <1>1, <2>1, <3>2, Proceeds
      <4>2. QED BY <2>2, <3>1, <4>1 DEF CoveredAt
    <3>3. CASE e = entry
      <4>1. since + Second <= t /\ t < now + Window * Second + Second
                => fired[e][t] > 0 \/ (t = Upcoming(e) /\ Imminent(e))
            BY <2>1, <3>3, Looked
      <4>2. QED BY <2>2, <3>1, <3>3, <4>1 DEF CoveredAt
    <3>4. QED BY <3>2, <3>3
  <2>4. QED BY <2>1, <2>3 DEF CoveredInv
<1>4. CASE Turn
  <2>1. PICK l \in Lags : clock' = sleepEnd + l
        BY <1>4 DEF Turn
  <2>2. entry = 0 /\ entry' = 1 /\ now' = clock' /\ UNCHANGED <<since, fired>>
        BY <1>4 DEF Turn
  <2>3. l \in Nat /\ l <= lag /\ sleepEnd \in Nat
        BY <1>1, CronAssumption DEF Timely, ClockInv
  <2>4. clock <= now + el /\ sleepEnd <= clock + ws
        BY <1>1, <2>2 DEF DriftInv
  <2>5. now' \in Nat /\ now' <= now + ws + (el + lag)
    <3> HIDE DEF ws, el
    <3>1. QED BY <1>1, <2>1, <2>2, <2>3, <2>4
  <2>6. ASSUME NEW e \in 1 .. Entries, NEW t \in Times(e)
        PROVE  CoveredAt(lag, t, now', since, fired[e][t], Evaluated(e)')
    <3>1. /\ CoveredAt(lag, t, now, since, fired[e][t], Evaluated(e)) /\ Evaluated(e) /\ t \in Nat
          /\ ~Evaluated(e)'
          BY <1>2, <2>2 DEF Evaluated
    <3>2. t + (el + lag) < now' + Second => t < now + ws + Second
      <4> HIDE DEF ws, el
      <4>1. QED BY <1>1, <2>5, <3>1
    <3>3. QED BY <3>1, <3>2 DEF CoveredAt
  <2>7. QED BY <2>2, <2>6 DEF CoveredInv
<1>5. CASE Stop
      BY <1>1, <1>5 DEF Stop, CoveredInv, CoveredAt, Evaluated
<1>6. CASE UNCHANGED vars
      BY <1>1, <1>6 DEF vars, CoveredInv, CoveredAt, Evaluated
<1>7. QED BY <1>3, <1>4, <1>5, <1>6 DEF Next

\* For any number of entries, any phase of each and any window: while the lags of two
\* turns stay below a second and an entry's period is longer than the window, every
\* occurrence from a second after the start on is pushed.  The sleep of Window seconds
\* and the lags alone would leave gaps; the second that num_seconds() cuts off fills
\* them (CronScheduler::run).
THEOREM Misses == ASSUME NEW lag, Timely(lag) PROVE Spec => []NeverMissed
<1>1. Init => MissInv(lag)
  <2> SUFFICES ASSUME Init PROVE MissInv(lag)
      OBVIOUS
  <2>1. TwiceInv
        BY TwiceInit
  <2>2. clock \in Nat /\ now = clock /\ since = now /\ entry = 1 /\ lag \in Nat /\ Second \in Nat
        /\ Entries * lag \in Nat
        BY CronAssumption DEF Init, Timely
  <2>3. DriftInv(lag)
        BY <2>2 DEF DriftInv
  <2>4. ASSUME NEW e \in 1 .. Entries, NEW t \in Times(e)
        PROVE  CoveredAt(lag, t, now, since, fired[e][t], Evaluated(e))
    <3>1. t \in Nat /\ ~Evaluated(e)
          BY <2>2 DEF Times, Evaluated
    <3> DEFINE el == Entries * lag
    <3>2. since + Second <= t => ~(t + (el + lag) < now + Second)
      <4>1. el \in Nat
            BY <2>2
      <4> HIDE DEF el
      <4>2. QED BY <2>2, <3>1, <4>1
    <3>3. QED BY <3>1, <3>2 DEF CoveredAt
  <2>5. QED BY <2>1, <2>3, <2>4 DEF MissInv, CoveredInv
<1>2. MissInv(lag) /\ [Next]_vars => MissInv(lag)'
  <2> SUFFICES ASSUME MissInv(lag), [Next]_vars PROVE MissInv(lag)'
      OBVIOUS
  <2>1. TwiceInv'
        BY ClockKept, FiredKept DEF MissInv, TwiceInv
  <2>2. DriftInv(lag)' /\ CoveredInv(lag)'
        BY DriftKept, CoveredKept
  <2>3. QED BY <2>1, <2>2 DEF MissInv
<1>3. MissInv(lag) => NeverMissed
  <2> SUFFICES ASSUME MissInv(lag), entry = 0, NEW e \in 1 .. Entries, NEW t \in Times(e),
                      since + Second <= t, t <= clock
               PROVE  fired[e][t] > 0
      BY DEF NeverMissed
  <2> DEFINE ws == Window * Second
             el == Entries * lag
  <2>1. /\ clock <= now + el /\ 2 * el < Second /\ ws \in Nat /\ el \in Nat /\ clock \in Nat
        /\ now \in Nat /\ Second \in Nat /\ t \in Nat
        BY CronAssumption, Ticks DEF MissInv, DriftInv, Timely, TwiceInv, ClockInv, Times
  <2>2. t < now + ws + Second
    <3> HIDE DEF ws, el
    <3>1. QED BY <2>1
  <2>3. CoveredAt(lag, t, now, since, fired[e][t], Evaluated(e)) /\ Evaluated(e)
        BY DEF MissInv, CoveredInv, Evaluated
  <2>4. QED BY <2>2, <2>3 DEF CoveredAt
<1>4. QED BY <1>1, <1>2, <1>3, PTL DEF Spec
=============================================================================
