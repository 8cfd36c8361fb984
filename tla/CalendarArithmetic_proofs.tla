----------------------- MODULE CalendarArithmetic_proofs -----------------------
(***************************************************************************)
(* The arithmetic of the calendar agrees with its reference definitions    *)
(* for every zone that ArithmeticConstants allows.                         *)
(*                                                                         *)
(* Local times: the clock of a season is seen by one of thirteen samples   *)
(* six hours apart, as no season is shorter (OffsetIsSampled). Dates: two  *)
(* instants enclose a crossing from the dates before to the date wanted    *)
(* (Encloses), and a crossing is the only one where dates are in order.    *)
(* Drops: an instant is passed by a local time once unless the clock is    *)
(* put back there (PassedOnce, PutBackShowsTwice). Lanes: an occurrence    *)
(* opens a lane when all others are taken by occurrences under way (Busy). *)
(***************************************************************************)
EXTENDS CalendarArithmetic, FiniteSetTheorems, FunctionTheorems,
        SequenceTheorems, TLAPS

-------------------------------------------------------------------------------
\* A finite set of integers that is not empty has a least element.
LEMMA LeastOf ==
  ASSUME NEW T \in SUBSET Int, IsFiniteSet(T), T # {}
  PROVE  \E x \in T : \A y \in T : x <= y
<1> DEFINE UpTo(x) == {y \in T : y <= x}
           C == {UpTo(x) : x \in T}
<1>1. IsWellFoundedOn(StrictSubsetOrdering(T), SUBSET T)
  BY FS_StrictSubsetOrderingWellFounded, FS_FiniteSubsetsOfFinite
<1>2. C \subseteq SUBSET T /\ C # {}
  OBVIOUS
<1>3. PICK U \in C : \A V \in C : <<V, U>> \notin StrictSubsetOrdering(T)
  <2> HIDE DEF C
  <2> QED  BY <1>1, <1>2, WFMin
<1>4. PICK x \in T : U = UpTo(x)
  BY <1>3
<1>5. ASSUME NEW y \in T, y < x  PROVE  FALSE
  <2>1. x \in Int /\ y \in Int /\ \A z \in T : z \in Int /\ (z <= y => z <= x)
    BY <1>5
  <2>2. UpTo(y) \subseteq UpTo(x)
    BY <2>1
  <2>3. x \in UpTo(x) /\ x \notin UpTo(y)
    BY <1>5, <2>1
  <2>4. <<UpTo(y), U>> \in StrictSubsetOrdering(T)
    BY <1>4, <2>2, <2>3 DEF StrictSubsetOrdering
  <2> QED  BY <1>3, <2>4
<1> QED  BY <1>5

\* A set of numbers that holds 0 and, with each number, the next one holds
\* every number.
LEMMA SetInduction ==
  ASSUME NEW P \in SUBSET Nat, 0 \in P, \A n \in P : n + 1 \in P
  PROVE  P = Nat
<1>1. SUFFICES ASSUME NEW n \in Nat, n \notin P  PROVE  FALSE
  OBVIOUS
<1> DEFINE T == {k \in 0 .. n : k \notin P}
<1>2. IsFiniteSet(T) /\ T \in SUBSET Int /\ T # {}
  <2>1. IsFiniteSet(0 .. n)
    BY FS_Interval
  <2> QED  BY <2>1, <1>1, FS_Subset
<1>3. PICK x \in T : \A y \in T : x <= y
  <2> HIDE DEF T
  <2> QED  BY <1>2, LeastOf
<1>4. x # 0
  OBVIOUS
<1>5. x - 1 \in 0 .. n
  BY <1>4
<1>6. x - 1 \in P
  BY <1>3, <1>5
<1>7. (x - 1) + 1 \in P
  BY <1>6
<1> QED  BY <1>3, <1>7

\* A step can be taken from a first value any number of times in a row.
IsRun(f, S, first, N, step) ==
  /\ f \in [0 .. N -> S] /\ f[0] = first
  /\ \A n \in 0 .. N - 1 : f[n + 1] = step[<<n, f[n]>>]

LEMMA Iterates ==
  ASSUME NEW S, NEW first \in S, NEW N \in Nat, NEW step \in [(0 .. N - 1) \X S -> S]
  PROVE  \E f : IsRun(f, S, first, N, step)
<1> DEFINE Run(k, f) == /\ f \in [0 .. k -> S]
                        /\ f[0] = first
                        /\ \A n \in 0 .. k - 1 : f[n + 1] = step[<<n, f[n]>>]
           P == {k \in Nat : k <= N => \E f : Run(k, f)}
<1>1. 0 \in P
  <2>1. Run(0, [i \in 0 .. 0 |-> first])
    OBVIOUS
  <2> QED  BY <2>1
<1>2. ASSUME NEW k \in P  PROVE  k + 1 \in P
  <2>1. SUFFICES ASSUME k + 1 <= N  PROVE  \E f : Run(k + 1, f)
    OBVIOUS
  <2>2. k \in 0 .. N - 1 /\ k <= N
    BY <2>1
  <2>3. PICK f : Run(k, f)
    BY <2>2
  <2> DEFINE next == step[<<k, f[k]>>]
             g == [i \in 0 .. k + 1 |-> IF i <= k THEN f[i] ELSE next]
  <2>4. next \in S
    <3>1. f[k] \in S
      BY <2>3, <2>2
    <3> QED  BY <3>1, <2>2
  <2>5. g \in [0 .. k + 1 -> S]
    <3>1. ASSUME NEW i \in 0 .. k + 1  PROVE  (IF i <= k THEN f[i] ELSE next) \in S
      <4> HIDE DEF next
      <4> QED  BY <2>3, <2>4
    <3> HIDE DEF next
    <3> QED  BY <3>1
  <2>6. g[0] = first
    BY <2>3
  <2>7. ASSUME NEW n \in 0 .. k  PROVE  g[n + 1] = step[<<n, g[n]>>]
    <3>1. CASE n = k
      <4>1. k \in 0 .. k + 1 /\ k <= k /\ k + 1 \in 0 .. k + 1 /\ ~(k + 1 <= k)
        OBVIOUS
      <4>2. g[k] = f[k] /\ g[k + 1] = next
        <5> HIDE DEF next
        <5> QED  BY <4>1
      <4> QED  BY <4>2, <3>1
    <3>2. CASE n # k
      <4>1. n \in 0 .. k - 1 /\ n + 1 \in 0 .. k /\ n + 1 <= k /\ n <= k
        BY <3>2
      <4>2. g[n + 1] = f[n + 1] /\ g[n] = f[n]
        BY <4>1
      <4> HIDE DEF g
      <4> QED  BY <2>3, <4>1, <4>2
    <3> QED  BY <3>1, <3>2
  <2>8. 0 .. (k + 1) - 1 = 0 .. k
    OBVIOUS
  <2> HIDE DEF g
  <2> QED  BY <2>5, <2>6, <2>7, <2>8
<1>3. P = Nat
  <2>1. P \in SUBSET Nat
    OBVIOUS
  <2> HIDE DEF P
  <2> QED  BY <1>1, <1>2, <2>1, SetInduction
<1>4. N \in P
  BY <1>3
<1> QED  BY <1>4 DEF IsRun

-------------------------------------------------------------------------------
\* The date and the minute of a time of day.
LEMMA Division ==
  ASSUME NEW D \in Nat \ {0}, NEW x \in Int
  PROVE  /\ x \div D \in Int /\ (x % D) \in 0 .. D - 1
         /\ x = (x \div D) * D + (x % D)
         /\ \A d \in Int : (x \div D < d) <=> (x < d * D)
OBVIOUS

LEMMA OneQuotient ==
  ASSUME NEW D \in Nat \ {0}, NEW d \in Int, NEW m \in 0 .. D - 1
  PROVE  (d * D + m) \div D = d /\ (d * D + m) % D = m
OBVIOUS

LEMMA DayLength ==
  /\ Day \in Nat \ {0} /\ Step \in Nat \ {0} /\ Day = 4 * Step
  /\ LastChange \in Nat /\ Never \in Nat /\ Never >= LastChange + Day
BY ArithmeticConstants DEF Day, Step, Never

\* A zone has at most one season, which is six hours long at least, and no
\* offset longer than a day.
ZoneFacts(z) ==
  /\ z.standard \in Int /\ z.saving \in Int /\ z.from \in Nat /\ z.until \in Nat
  /\ z.from + Step <= z.until
  /\ -Step <= z.saving /\ z.saving <= Step
  /\ -Day <= z.standard /\ z.standard <= Day
  /\ -Day <= z.standard + z.saving /\ z.standard + z.saving <= Day

LEMMA ZonesAreSound ==
  ASSUME NEW z \in Zones
  PROVE  ZoneFacts(z) /\ z # NoZone
<1>1. /\ z.standard \in Standards /\ z.saving \in Savings \cup {-s : s \in Savings} \cup {0}
      /\ z.from \in 0 .. LastChange /\ z.until \in 0 .. LastChange \cup {Never}
      /\ z.from + Step <= z.until
  BY DEF Zones
<1>2. z.from \in Nat /\ z.until \in Nat /\ z.standard \in Int
  <2>1. z.from \in Nat /\ z.until \in Nat
    BY <1>1, DayLength
  <2>2. Standards \subseteq Int
    BY ArithmeticConstants
  <2> QED  BY <1>1, <2>1, <2>2
<1>3. z # NoZone
  BY <1>1, <1>2, DayLength DEF NoZone
<1>4. PICK s \in Savings \cup {0} : z.saving = s \/ z.saving = -s
  BY <1>1
<1>5. s \in 0 .. Step
  BY ArithmeticConstants, DayLength
<1>6. z.standard - s >= -Day /\ z.standard + s <= Day
  BY <1>1, ArithmeticConstants
<1>7. z.saving \in Int /\ -Step <= z.saving /\ z.saving <= Step
  BY <1>4, <1>5, DayLength
<1>8. /\ -Day <= z.standard /\ z.standard <= Day
      /\ -Day <= z.standard + z.saving /\ z.standard + z.saving <= Day
  BY <1>2, <1>4, <1>5, <1>6, DayLength
<1> QED  BY <1>1, <1>2, <1>3, <1>7, <1>8 DEF ZoneFacts

\* A local time is an instant and the offset that holds then.
LEMMA LocalTime ==
  ASSUME ZoneFacts(zone), NEW t \in Int
  PROVE  /\ Offset(t) \in Int /\ -Day <= Offset(t) /\ Offset(t) <= Day
         /\ utcToLocalDateTime(t) \in Int /\ utcToLocalDateTime(t) = t + Offset(t)
         /\ dateInZone(t) \in Int /\ minuteInZone(t) \in 0 .. Day - 1
         /\ utcToLocalDateTime(t) = dateInZone(t) * Day + minuteInZone(t)
         /\ \A d \in Int : dateInZone(t) < d <=> utcToLocalDateTime(t) < d * Day
<1>1. /\ Offset(t) \in Int /\ -Day <= Offset(t) /\ Offset(t) <= Day
  BY DayLength DEF ZoneFacts, Offset
<1>2. utcToLocalDateTime(t) \in Int /\ utcToLocalDateTime(t) = t + Offset(t)
  BY <1>1 DEF utcToLocalDateTime
<1> QED  BY <1>1, <1>2, DayLength, Division DEF dateInZone, minuteInZone

\* An instant has its offset at one of the samples around its local time: it
\* lies between two that are no further apart than a season is long.
LEMMA OffsetIsSampled ==
  ASSUME ZoneFacts(zone), NEW t \in Int
  PROVE  Offset(t) \in Offsets(utcToLocalDateTime(t))
<1> DEFINE l == utcToLocalDateTime(t)
           sample(i) == l + 6 * Step - i * Step
<1>1. l \in Int /\ -Day <= l - t /\ l - t <= Day
  BY LocalTime, DayLength
<1>2. \E i \in 1 .. 11 : sample(i) <= t /\ t < sample(i - 1)
  <2> HIDE DEF l
  <2>1. /\ sample(11) <= t /\ t < sample(0)
    BY <1>1, DayLength
  <2> QED  BY <1>1, <2>1, DayLength
<1>3. PICK i \in 1 .. 11 : sample(i) <= t /\ t < sample(i - 1)
  BY <1>2
<1>4. sample(i) \in Int /\ sample(i - 1) = sample(i) + Step
  <2> HIDE DEF l
  <2> QED  BY <1>1, DayLength
<1>5. Offset(t) = Offset(sample(i)) \/ Offset(t) = Offset(sample(i - 1))
  <2>1. t < sample(i) + Step /\ sample(i) <= t
    BY <1>3, <1>4
  <2>2. SUFFICES \/ (zone.from <= t /\ t < zone.until)
                      <=> (zone.from <= sample(i) /\ sample(i) < zone.until)
                 \/ (zone.from <= t /\ t < zone.until)
                      <=> (zone.from <= sample(i - 1) /\ sample(i - 1) < zone.until)
    BY DEF Offset
  <2> HIDE DEF sample
  <2> QED  BY <1>4, <2>1, DayLength DEF ZoneFacts
<1>6. Offset(sample(i)) \in Offsets(l) /\ Offset(sample(i - 1)) \in Offsets(l)
  <2>1. i \in 0 .. 12 /\ i - 1 \in 0 .. 12
    OBVIOUS
  <2> HIDE DEF l
  <2> QED  BY <2>1 DEF Offsets
<1> QED  BY <1>5, <1>6

\* So a local time is resolved to exactly the instants that have it.
LEMMA ExactInstants ==
  ASSUME ZoneFacts(zone), NEW l \in Int
  PROVE  /\ localDateTimeToUtc(l) = {t \in Int : utcToLocalDateTime(t) = l}
         /\ IsFiniteSet(localDateTimeToUtc(l))
<1>1. ASSUME NEW t \in localDateTimeToUtc(l)
      PROVE  t \in Int /\ utcToLocalDateTime(t) = l
  <2>1. PICK i \in 0 .. 12 : t = l - Offset(l + 6 * Step - i * Step)
    BY DEF localDateTimeToUtc, Offsets
  <2>2. l + 6 * Step - i * Step \in Int
    BY DayLength
  <2>3. t \in Int
    BY <2>1, <2>2, LocalTime
  <2> QED  BY <2>3 DEF localDateTimeToUtc
<1>2. ASSUME NEW t \in Int, utcToLocalDateTime(t) = l
      PROVE  t \in localDateTimeToUtc(l)
  <2>1. Offset(t) \in Offsets(l)
    BY <1>2, OffsetIsSampled
  <2>2. t = l - Offset(t)
    BY <1>2, LocalTime
  <2> QED  BY <1>2, <2>1, <2>2 DEF localDateTimeToUtc
<1>3. IsFiniteSet(localDateTimeToUtc(l))
  <2>1. localDateTimeToUtc(l) \subseteq l - Day .. l + Day
    <3> SUFFICES ASSUME NEW t \in localDateTimeToUtc(l)  PROVE  t \in l - Day .. l + Day
      OBVIOUS
    <3>1. t \in Int /\ l = t + Offset(t) /\ Offset(t) \in Int /\ -Day <= Offset(t) /\ Offset(t) <= Day
      BY <1>1, LocalTime
    <3> QED  BY <3>1, DayLength
  <2>2. IsFiniteSet(l - Day .. l + Day)
    BY DayLength, FS_Interval
  <2> QED  BY <2>1, <2>2, FS_Subset
<1> QED  BY <1>1, <1>2, <1>3

\* The part of ArithmeticIsExact on local times.
LEMMA LocalTimesHold ==
  ASSUME ZoneFacts(zone)
  PROVE  LocalTimesAreTrue
<1>1. SUFFICES ASSUME NEW l \in Around
               PROVE  localDateTimeToUtc(l) = {t \in -2 * Day .. LastChange + 2 * Day :
                                                 utcToLocalDateTime(t) = l}
  BY DEF LocalTimesAreTrue
<1>2. l \in Int /\ -Day <= l /\ l <= LastChange + Day
  BY DayLength DEF Around
<1>3. ASSUME NEW t \in Int, utcToLocalDateTime(t) = l
      PROVE  t \in -2 * Day .. LastChange + 2 * Day
  <2>1. l = t + Offset(t) /\ Offset(t) \in Int /\ -Day <= Offset(t) /\ Offset(t) <= Day
    BY <1>3, LocalTime
  <2> QED  BY <1>2, <2>1, DayLength
<1>4. ASSUME NEW t \in -2 * Day .. LastChange + 2 * Day
      PROVE  t \in Int
  BY DayLength
<1> QED  BY <1>2, <1>3, <1>4, ExactInstants

-------------------------------------------------------------------------------
\* One turn of the bisection.
Turned(now, date) ==
  LET middle == (now.lower + now.upper) \div 2
  IN  CASE now.upper - now.lower <= 1 -> now
        [] now.upper - now.lower > 1 /\ dateInZone(middle) < date
             -> [now EXCEPT !.lower = middle]
        [] OTHER -> [now EXCEPT !.upper = middle]

Intervals == [lower : Int, upper : Int]
Start(date) == [lower |-> date * Day - 2 * Day, upper |-> date * Day + 2 * Day]

LEMMA TurnedIsAnInterval ==
  ASSUME NEW now \in Intervals, NEW date \in Int
  PROVE  Turned(now, date) \in Intervals
<1>1. now.lower \in Int /\ now.upper \in Int /\ (now.lower + now.upper) \div 2 \in Int
  BY DEF Intervals
<1> DEFINE middle == (now.lower + now.upper) \div 2
<1>2. [now EXCEPT !.lower = middle] \in Intervals /\ [now EXCEPT !.upper = middle] \in Intervals
  <2>1. middle \in Int
    BY <1>1
  <2> HIDE DEF middle
  <2>2. /\ [now EXCEPT !.lower = middle] = [lower |-> middle, upper |-> now.upper]
        /\ [now EXCEPT !.upper = middle] = [lower |-> now.lower, upper |-> middle]
    BY DEF Intervals
  <2> QED  BY <1>1, <2>1, <2>2 DEF Intervals
<1> QED  BY <1>1, <1>2 DEF Turned

\* The intervals of the bisection follow one another.
LEMMA BisectionTurns ==
  ASSUME NEW date \in Int
  PROVE  LET f == Bisection(date) IN
         /\ f \in [0 .. 4 * Day -> Intervals]
         /\ f[0] = Start(date)
         /\ \A n \in 0 .. 4 * Day - 1 : f[n + 1] = Turned(f[n], date)
<1> DEFINE step == [p \in (0 .. 4 * Day - 1) \X Intervals |-> Turned(p[2], date)]
           Eqn(f) == f = [n \in 0 .. 4 * Day |-> IF n = 0 THEN Start(date) ELSE Turned(f[n - 1], date)]
<1>1. Start(date) \in Intervals /\ 4 * Day \in Nat
  BY DayLength DEF Start, Intervals
<1>2. step \in [(0 .. 4 * Day - 1) \X Intervals -> Intervals]
  BY TurnedIsAnInterval
<1>3. PICK f \in [0 .. 4 * Day -> Intervals] :
           /\ f[0] = Start(date)
           /\ \A n \in 0 .. 4 * Day - 1 : f[n + 1] = step[<<n, f[n]>>]
  <2> HIDE DEF step
  <2>1. \E f : IsRun(f, Intervals, Start(date), 4 * Day, step)
    BY <1>1, <1>2, Iterates
  <2> QED  BY <2>1 DEF IsRun
<1>4. \A n \in 0 .. 4 * Day - 1 : f[n + 1] = Turned(f[n], date)
  <2>1. ASSUME NEW n \in 0 .. 4 * Day - 1  PROVE  step[<<n, f[n]>>] = Turned(f[n], date)
    <3>1. f[n] \in Intervals
      BY <1>1
    <3> QED  BY <3>1
  <2> QED  BY <1>3, <2>1
<1>5. Eqn(f)
  <2>1. ASSUME NEW n \in 0 .. 4 * Day
        PROVE  f[n] = IF n = 0 THEN Start(date) ELSE Turned(f[n - 1], date)
    <3>1. CASE n = 0
      BY <3>1, <1>3
    <3>2. CASE n # 0
      <4>1. n - 1 \in 0 .. 4 * Day - 1 /\ (n - 1) + 1 = n
        BY <1>1, <3>2
      <4> QED  BY <1>4, <3>2, <4>1
    <3> QED  BY <3>1, <3>2
  <2> QED  BY <1>3, <2>1
<1>6. Eqn(Bisection(date))
  <2>1. Bisection(date) = CHOOSE g : Eqn(g)
    BY DEF Bisection, Turned, Start
  <2> HIDE DEF Eqn
  <2> QED  BY <1>5, <2>1
<1> DEFINE g == Bisection(date)
<1>7. \A n \in 0 .. 4 * Day : g[n] = IF n = 0 THEN Start(date) ELSE Turned(g[n - 1], date)
  <2> HIDE DEF g
  <2> QED  BY <1>6 DEF g
<1>8. g[0] = Start(date) /\ \A n \in 0 .. 4 * Day - 1 : g[n + 1] = Turned(g[n], date)
  <2> HIDE DEF g
  <2>1. 0 \in 0 .. 4 * Day
    BY <1>1
  <2>2. ASSUME NEW n \in 0 .. 4 * Day - 1  PROVE  g[n + 1] = Turned(g[n], date)
    <3>1. n + 1 \in 0 .. 4 * Day /\ n + 1 # 0 /\ (n + 1) - 1 = n
      BY <1>1
    <3> QED  BY <1>7, <3>1
  <2> QED  BY <1>7, <2>1, <2>2
<1>9. \A n \in 0 .. 4 * Day : g[n] \in Intervals
  <2> HIDE DEF g
  <2> DEFINE P == {n \in Nat : n <= 4 * Day => g[n] \in Intervals}
  <2>1. 0 \in P
    BY <1>1, <1>8
  <2>2. ASSUME NEW n \in P  PROVE  n + 1 \in P
    <3> SUFFICES ASSUME n + 1 <= 4 * Day  PROVE  g[n + 1] \in Intervals
      OBVIOUS
    <3>1. n \in 0 .. 4 * Day - 1 /\ n <= 4 * Day
      BY <1>1
    <3>2. g[n] \in Intervals
      BY <3>1
    <3> QED  BY <1>8, <3>1, <3>2, TurnedIsAnInterval
  <2>3. P = Nat
    <3>1. P \in SUBSET Nat
      OBVIOUS
    <3> HIDE DEF P
    <3> QED  BY <2>1, <2>2, <3>1, SetInduction
  <2>4. ASSUME NEW n \in 0 .. 4 * Day  PROVE  n \in P /\ n <= 4 * Day
    BY <1>1, <2>3
  <2> QED  BY <2>4
<1>10. g \in [0 .. 4 * Day -> Intervals]
  <2>1. DOMAIN g = 0 .. 4 * Day /\ g = [n \in 0 .. 4 * Day |-> g[n]]
    <3> HIDE DEF g
    <3> QED  BY <1>6 DEF g
  <2> HIDE DEF g
  <2> QED  BY <1>9, <2>1
<1> QED  BY <1>8, <1>10

\* What encloses the first instant of a date: it is later there than before.
Encloses(now, date) ==
  /\ date * Day - 2 * Day <= now.lower /\ now.lower < now.upper
  /\ now.upper <= date * Day + 2 * Day
  /\ dateInZone(now.lower) < date /\ ~(dateInZone(now.upper) < date)

LEMMA TurnEncloses ==
  ASSUME ZoneFacts(zone), NEW now \in Intervals, NEW date \in Int, Encloses(now, date)
  PROVE  LET then == Turned(now, date) IN
         /\ Encloses(then, date)
         /\ \/ then.upper - then.lower = 1
            \/ then.upper - then.lower < now.upper - now.lower
<1> DEFINE middle == (now.lower + now.upper) \div 2
<1>1. now.lower \in Int /\ now.upper \in Int /\ middle \in Int /\ dateInZone(middle) \in Int
  <2>1. now.lower \in Int /\ now.upper \in Int /\ middle \in Int
    BY DEF Intervals
  <2> QED  BY <2>1, LocalTime
<1>2. CASE now.upper - now.lower <= 1
  <2>1. Turned(now, date) = now /\ now.upper - now.lower = 1
    BY <1>1, <1>2 DEF Turned, Encloses
  <2> QED  BY <2>1
<1>3. CASE now.upper - now.lower > 1
  <2>1. now.lower < middle /\ middle < now.upper
    BY <1>1, <1>3
  <2>2. CASE dateInZone(middle) < date
    <3>1. Turned(now, date) = [lower |-> middle, upper |-> now.upper]
      BY <1>1, <1>3, <2>2 DEF Turned, Intervals
    <3> HIDE DEF middle
    <3> QED  BY <1>1, <2>1, <2>2, <3>1, DayLength DEF Encloses
  <2>3. CASE ~(dateInZone(middle) < date)
    <3>1. Turned(now, date) = [lower |-> now.lower, upper |-> middle]
      BY <1>1, <1>3, <2>3 DEF Turned, Intervals
    <3> HIDE DEF middle
    <3> QED  BY <1>1, <2>1, <2>3, <3>1, DayLength DEF Encloses
  <2> QED  BY <2>2, <2>3
<1> QED  BY <1>1, <1>2, <1>3

\* The boundary of a date is an instant with that date or a later one, after
\* one with an earlier date.
LEMMA BoundaryCrosses ==
  ASSUME ZoneFacts(zone), NEW date \in Int
  PROVE  LET b == civilDateBoundary(date) IN
         /\ b \in Int /\ date * Day - 2 * Day <= b /\ b <= date * Day + 2 * Day
         /\ utcToLocalDateTime(b - 1) < date * Day
         /\ utcToLocalDateTime(b) >= date * Day
<1> DEFINE f == Bisection(date)
           P == {n \in Nat : n <= 4 * Day =>
                   /\ Encloses(f[n], date)
                   /\ \/ f[n].upper - f[n].lower = 1
                      \/ f[n].upper - f[n].lower <= 4 * Day - n}
<1>1. /\ f \in [0 .. 4 * Day -> Intervals] /\ f[0] = Start(date)
      /\ \A n \in 0 .. 4 * Day - 1 : f[n + 1] = Turned(f[n], date)
  BY BisectionTurns
<1> HIDE DEF f
<1>2. 0 \in P
  <2>1. Start(date).lower \in Int /\ Start(date).upper \in Int /\ Start(date).upper - Start(date).lower = 4 * Day
    BY DayLength DEF Start
  <2>2. Encloses(Start(date), date)
    <3> DEFINE lo == date * Day - 2 * Day
               up == date * Day + 2 * Day
    <3>1. lo \in Int /\ up \in Int /\ date * Day \in Int /\ lo = date * Day - 2 * Day /\ up = date * Day + 2 * Day
      BY DayLength
    <3>2. Start(date) = [lower |-> lo, upper |-> up]
      BY DEF Start
    <3> HIDE DEF lo, up
    <3>3. dateInZone(lo) < date <=> utcToLocalDateTime(lo) < date * Day
      BY <3>1, LocalTime
    <3>4. dateInZone(up) < date <=> utcToLocalDateTime(up) < date * Day
      BY <3>1, LocalTime
    <3>5. utcToLocalDateTime(lo) < date * Day /\ ~(utcToLocalDateTime(up) < date * Day)
      <4>1. /\ Offset(lo) \in Int /\ Offset(lo) <= Day /\ utcToLocalDateTime(lo) = lo + Offset(lo)
            /\ Offset(up) \in Int /\ -Day <= Offset(up) /\ utcToLocalDateTime(up) = up + Offset(up)
        BY <3>1, LocalTime
      <4> QED  BY <3>1, <4>1, DayLength
    <3> QED  BY <3>1, <3>2, <3>3, <3>4, <3>5, DayLength DEF Encloses
  <2> QED  BY <1>1, <2>1, <2>2
<1>3. ASSUME NEW n \in P  PROVE  n + 1 \in P
  <2> SUFFICES ASSUME n + 1 <= 4 * Day
               PROVE  /\ Encloses(f[n + 1], date)
                      /\ \/ f[n + 1].upper - f[n + 1].lower = 1
                         \/ f[n + 1].upper - f[n + 1].lower <= 4 * Day - (n + 1)
    OBVIOUS
  <2>1. n \in 0 .. 4 * Day - 1 /\ n <= 4 * Day /\ n \in 0 .. 4 * Day /\ n + 1 \in 0 .. 4 * Day
    BY DayLength
  <2>2. f[n] \in Intervals /\ f[n + 1] \in Intervals /\ f[n + 1] = Turned(f[n], date)
    BY <1>1, <2>1
  <2>3. Encloses(f[n], date) /\ (f[n].upper - f[n].lower = 1 \/ f[n].upper - f[n].lower <= 4 * Day - n)
    BY <2>1
  <2>4. /\ Encloses(f[n + 1], date)
        /\ \/ f[n + 1].upper - f[n + 1].lower = 1
           \/ f[n + 1].upper - f[n + 1].lower < f[n].upper - f[n].lower
    BY <2>2, <2>3, TurnEncloses
  <2>5. /\ f[n].upper \in Int /\ f[n].lower \in Int /\ f[n + 1].upper \in Int /\ f[n + 1].lower \in Int
        /\ f[n + 1].lower < f[n + 1].upper
    BY <2>2, <2>4 DEF Intervals, Encloses
  <2> QED  BY <2>1, <2>3, <2>4, <2>5, DayLength
<1>4. 4 * Day \in P /\ 4 * Day \in 0 .. 4 * Day
  <2>1. P \in SUBSET Nat
    OBVIOUS
  <2>2. P = Nat
    <3> HIDE DEF P
    <3> QED  BY <1>2, <1>3, <2>1, SetInduction
  <2> QED  BY <2>2, DayLength
<1> DEFINE last == f[4 * Day]
<1>5. last \in Intervals /\ civilDateBoundary(date) = last.upper
  BY <1>1, <1>4 DEF civilDateBoundary, f
<1>6. last.lower \in Int /\ last.upper \in Int
  BY <1>5 DEF Intervals
<1>7. Encloses(last, date) /\ (last.upper - last.lower = 1 \/ last.upper - last.lower <= 4 * Day - 4 * Day)
  <2>1. 4 * Day <= 4 * Day
    BY DayLength
  <2> QED  BY <1>4, <2>1
<1> HIDE DEF last
<1>8. last.lower = last.upper - 1
  BY <1>6, <1>7, DayLength DEF Encloses
<1>9. /\ dateInZone(last.lower) < date <=> utcToLocalDateTime(last.lower) < date * Day
      /\ dateInZone(last.upper) < date <=> utcToLocalDateTime(last.upper) < date * Day
      /\ utcToLocalDateTime(last.upper) \in Int /\ date * Day \in Int
  <2>1. date * Day \in Int
    BY DayLength
  <2> QED  BY <1>6, <2>1, LocalTime
<1> QED  BY <1>5, <1>6, <1>7, <1>8, <1>9, DayLength DEF Encloses

\* The clock moves on by a minute at each instant, but where it is changed.
LEMMA ClockTicks ==
  ASSUME ZoneFacts(zone), NEW a \in Int, NEW b \in Int
  PROVE  LET la == utcToLocalDateTime(a)  lb == utcToLocalDateTime(b)
         IN  la \in Int /\ lb \in Int /\ -Step <= (lb - la) - (b - a) /\ (lb - la) - (b - a) <= Step
<1>1. /\ utcToLocalDateTime(a) = a + Offset(a) /\ utcToLocalDateTime(b) = b + Offset(b)
  BY LocalTime
<1>2. /\ Offset(a) \in {zone.standard, zone.standard + zone.saving}
      /\ Offset(b) \in {zone.standard, zone.standard + zone.saving}
  BY DEF Offset, ZoneFacts
<1> QED  BY <1>1, <1>2, DayLength DEF ZoneFacts

\* No date is skipped: the boundary of a date has that date.
LEMMA DatesExist ==
  ASSUME ZoneFacts(zone), NEW date \in Int
  PROVE  isCivilDate(date)
<1> DEFINE b == civilDateBoundary(date)
<1>1. /\ b \in Int /\ utcToLocalDateTime(b - 1) < date * Day /\ utcToLocalDateTime(b) >= date * Day
  BY BoundaryCrosses
<1> HIDE DEF b
<1>2. b - 1 \in Int /\ date * Day \in Int /\ (date + 1) * Day \in Int /\ (date + 1) * Day = date * Day + Day
  BY <1>1, DayLength
<1>3. utcToLocalDateTime(b) < (date + 1) * Day
  <2>1. /\ utcToLocalDateTime(b) \in Int /\ utcToLocalDateTime(b - 1) \in Int
        /\ (utcToLocalDateTime(b) - utcToLocalDateTime(b - 1)) - (b - (b - 1)) <= Step
    BY <1>1, <1>2, ClockTicks
  <2> QED  BY <1>1, <1>2, <2>1, DayLength
<1>4. dateInZone(b) \in Int /\ ~(dateInZone(b) < date) /\ dateInZone(b) < date + 1
  <2>1. utcToLocalDateTime(b) \in Int
    BY <1>1, LocalTime
  <2>2. dateInZone(b) \in Int /\ \A d \in Int : dateInZone(b) < d <=> utcToLocalDateTime(b) < d * Day
    BY <1>1, LocalTime
  <2>3. date + 1 \in Int
    OBVIOUS
  <2>4. dateInZone(b) < date <=> utcToLocalDateTime(b) < date * Day
    BY <2>2
  <2>5. dateInZone(b) < date + 1 <=> utcToLocalDateTime(b) < (date + 1) * Day
    BY <2>2, <2>3
  <2> QED  BY <1>1, <1>2, <1>3, <2>1, <2>2, <2>4, <2>5
<1>5. dateInZone(b) = date
  BY <1>4
<1> QED  BY <1>5 DEF b, isCivilDate

\* A later date has a later boundary.
LEMMA BoundariesInOrder ==
  ASSUME ZoneFacts(zone), NEW c \in Int, NEW d \in Int, c < d
  PROVE  civilDateBoundary(c) < civilDateBoundary(d)
<1> DEFINE x == civilDateBoundary(c)
           y == civilDateBoundary(d)
<1>1. /\ x \in Int /\ utcToLocalDateTime(x - 1) < c * Day
      /\ y \in Int /\ utcToLocalDateTime(y) >= d * Day
  BY BoundaryCrosses
<1> HIDE DEF x, y
<1>2. c * Day \in Int /\ d * Day \in Int /\ c * Day + Day <= d * Day
  BY DayLength
<1>3. x < y
  <2>1. /\ utcToLocalDateTime(y) \in Int /\ utcToLocalDateTime(x - 1) \in Int
        /\ (utcToLocalDateTime(y) - utcToLocalDateTime(x - 1)) - (y - (x - 1)) <= Step
    BY <1>1, ClockTicks
  <2> QED  BY <1>1, <1>2, <2>1, DayLength
<1> QED  BY <1>3 DEF x, y

\* Where no date is earlier than the one of the instant before, none is
\* earlier than that of any instant before.
LEMMA DatesStayOrdered ==
  ASSUME ZoneFacts(zone), CivilDatesAreOrdered,
         NEW a \in -5 * Day .. LastChange + 5 * Day, NEW b \in -5 * Day .. LastChange + 5 * Day,
         a <= b
  PROVE  dateInZone(a) <= dateInZone(b)
<1> DEFINE P == {n \in Nat : a + n <= LastChange + 5 * Day => dateInZone(a) <= dateInZone(a + n)}
<1>1. a \in Int /\ b \in Int /\ -5 * Day <= a /\ a <= LastChange + 5 * Day /\ b <= LastChange + 5 * Day
      /\ dateInZone(a) \in Int
  <2>1. a \in Int /\ b \in Int /\ -5 * Day <= a /\ a <= LastChange + 5 * Day /\ b <= LastChange + 5 * Day
    BY DayLength
  <2> QED  BY <2>1, LocalTime
<1>2. 0 \in P
  <2>1. a + 0 = a
    BY <1>1
  <2> QED  BY <1>1, <2>1
<1>3. ASSUME NEW n \in P  PROVE  n + 1 \in P
  <2> SUFFICES ASSUME a + (n + 1) <= LastChange + 5 * Day
               PROVE  dateInZone(a) <= dateInZone(a + (n + 1))
    OBVIOUS
  <2>1. n \in Nat /\ (a + n <= LastChange + 5 * Day => dateInZone(a) <= dateInZone(a + n))
    OBVIOUS
  <2>2. a + n \in Int /\ a + (n + 1) = (a + n) + 1 /\ a + n <= LastChange + 5 * Day /\ -5 * Day <= a + n
    BY <1>1, <2>1, DayLength
  <2>3. a + n \in -5 * Day .. LastChange + 5 * Day
    BY <2>2, DayLength
  <2>4. dateInZone(a + n) <= dateInZone((a + n) + 1)
    BY <2>3 DEF CivilDatesAreOrdered
  <2>5. dateInZone(a + n) \in Int /\ dateInZone((a + n) + 1) \in Int
    BY <2>2, LocalTime
  <2> QED  BY <1>1, <2>1, <2>2, <2>4, <2>5
<1>4. P = Nat
  <2>1. P \in SUBSET Nat
    OBVIOUS
  <2> HIDE DEF P
  <2> QED  BY <1>2, <1>3, <2>1, SetInduction
<1>5. b - a \in P /\ a + (b - a) = b
  <2>1. b - a \in Nat /\ a + (b - a) = b
    BY <1>1
  <2> QED  BY <1>4, <2>1
<1> QED  BY <1>1, <1>5

\* The part of ArithmeticIsExact on days.
LEMMA DaysHold ==
  ASSUME ZoneFacts(zone)
  PROVE  DaysPartitionTime
<1> SUFFICES ASSUME NEW t \in Around
             PROVE  LET d == dateInZone(t) IN
                    /\ isCivilDate(d)
                    /\ CivilDatesAreOrdered => civilDateBoundary(d) <= t /\ t < civilDateBoundary(d + 1)
  BY DEF DaysPartitionTime
<1> DEFINE d == dateInZone(t)
           x == civilDateBoundary(d)
           y == civilDateBoundary(d + 1)
<1>1. t \in Int /\ -Day <= t /\ t <= LastChange + Day
  BY DayLength DEF Around
<1>2. d \in Int /\ d + 1 \in Int /\ minuteInZone(t) \in 0 .. Day - 1
      /\ t + Offset(t) = d * Day + minuteInZone(t) /\ Offset(t) \in Int /\ -Day <= Offset(t) /\ Offset(t) <= Day
  BY <1>1, LocalTime
<1>3. isCivilDate(d)
  BY <1>2, DatesExist
<1>4. ASSUME CivilDatesAreOrdered  PROVE  x <= t /\ t < y
  <2> HIDE DEF d
  <2>1. /\ x \in Int /\ d * Day - 2 * Day <= x /\ x <= d * Day + 2 * Day
        /\ utcToLocalDateTime(x - 1) < d * Day
        /\ y \in Int /\ (d + 1) * Day - 2 * Day <= y /\ y <= (d + 1) * Day + 2 * Day
        /\ utcToLocalDateTime(y) >= (d + 1) * Day
    BY <1>2, BoundaryCrosses
  <2> HIDE DEF x, y
  <2>2. d * Day \in Int /\ (d + 1) * Day = d * Day + Day
    BY <1>2, DayLength
  <2>3. -3 * Day < d * Day /\ d * Day <= LastChange + 2 * Day
    BY <1>1, <1>2, <2>2, DayLength
  <2>4. ASSUME t < x  PROVE  FALSE
    <3>1. x - 1 \in Int /\ t <= x - 1 /\ -5 * Day <= t /\ x - 1 <= LastChange + 5 * Day
      BY <1>1, <2>1, <2>2, <2>3, <2>4, DayLength
    <3>2. t \in -5 * Day .. LastChange + 5 * Day /\ x - 1 \in -5 * Day .. LastChange + 5 * Day
      BY <1>1, <3>1, DayLength
    <3>3. dateInZone(t) <= dateInZone(x - 1)
      BY <1>4, <3>1, <3>2, DatesStayOrdered
    <3>4. dateInZone(x - 1) \in Int /\ dateInZone(x - 1) < d
      BY <1>2, <2>1, <3>1, LocalTime
    <3> QED  BY <1>2, <3>3, <3>4 DEF d
  <2>5. ASSUME y <= t  PROVE  FALSE
    <3>1. -5 * Day <= y /\ t <= LastChange + 5 * Day
      BY <1>1, <2>1, <2>2, <2>3, DayLength
    <3>2. t \in -5 * Day .. LastChange + 5 * Day /\ y \in -5 * Day .. LastChange + 5 * Day
      BY <1>1, <2>1, <2>5, <3>1, DayLength
    <3>3. dateInZone(y) <= dateInZone(t)
      BY <1>4, <2>5, <3>2, DatesStayOrdered
    <3>4. dateInZone(y) \in Int /\ utcToLocalDateTime(y) \in Int /\ ~(dateInZone(y) < d + 1)
      <4>1. dateInZone(y) \in Int /\ utcToLocalDateTime(y) \in Int
            /\ (dateInZone(y) < d + 1 <=> utcToLocalDateTime(y) < (d + 1) * Day)
        BY <1>2, <2>1, LocalTime
      <4> QED  BY <2>1, <2>2, <4>1, DayLength
    <3> QED  BY <1>2, <3>3, <3>4 DEF d
  <2> QED  BY <1>1, <2>1, <2>4, <2>5
<1> QED  BY <1>3, <1>4

-------------------------------------------------------------------------------
\* The greatest and the least element of a set, which they are known by.
LEMMA GreatestIs ==
  ASSUME NEW T \in SUBSET Int, NEW x \in T, \A y \in T : y <= x
  PROVE  Max(T) = x
<1>1. \A y \in T : x >= y /\ y \in Int
  OBVIOUS
<1>2. ASSUME NEW z \in T, \A y \in T : z >= y  PROVE  z = x
  BY <1>1, <1>2
<1> QED  BY <1>1, <1>2 DEF Max

LEMMA LeastIs ==
  ASSUME NEW T \in SUBSET Int, NEW x \in T, \A y \in T : x <= y
  PROVE  Min(T) = x
<1>1. ASSUME NEW z \in T, \A y \in T : z <= y  PROVE  z = x
  <2>1. z <= x /\ x <= z /\ z \in Int /\ x \in Int
    BY <1>1
  <2> QED  BY <2>1
<1> QED  BY <1>1 DEF Min

\* The month of a date is the one whose days it is among.
LEMMA MonthOfItsDays ==
  ASSUME NEW m \in 1 .. 4, NEW date \in DaysOf(m)
  PROVE  MonthOf(date) = m /\ date \in Int
         /\ MonthStarts[m] <= date /\ date < MonthStarts[m + 1]
         /\ MonthStarts[m] \in Int /\ MonthStarts[m] \in DaysOf(m)
         /\ MonthStarts[m + 1] - MonthStarts[m] <= 31
<1>1. /\ DOMAIN MonthStarts = 1 .. 5
      /\ MonthStarts[1] = 0 /\ MonthStarts[2] = 31 /\ MonthStarts[3] = 59
      /\ MonthStarts[4] = 90 /\ MonthStarts[5] = 120
  BY DEF MonthStarts
<1>2. /\ date \in Int /\ MonthStarts[m] <= date /\ date < MonthStarts[m + 1]
      /\ MonthStarts[m] \in Int /\ MonthStarts[m + 1] - MonthStarts[m] <= 31
      /\ MonthStarts[m] < MonthStarts[m + 1] /\ MonthStarts[m + 1] \in Int
  BY <1>1 DEF DaysOf
<1>3. MonthStarts[m] \in DaysOf(m)
  BY <1>2 DEF DaysOf
<1> DEFINE T == {k \in DOMAIN MonthStarts : MonthStarts[k] <= date}
<1>4. T \in SUBSET Int /\ m \in T /\ \A k \in T : k <= m
  BY <1>1, <1>2
<1>5. Max(T) = m
  <2> HIDE DEF T
  <2> QED  BY <1>4, GreatestIs
<1> QED  BY <1>2, <1>3, <1>5 DEF MonthOf

\* The days of a window are counted from a Monday, of a week up to the date
\* it is made for.
LEMMA LastMonday ==
  ASSUME NEW first \in Int, NEW weekday \in 0 .. 6, NEW count \in {7, 42}
  PROVE  LET start == first - ((weekday + first + 6) % 7)
         IN  /\ start \in Int /\ first - 6 <= start /\ start <= first
             /\ (weekday + start) % 7 = 1
             /\ Min(start .. start + count - 1) = start
<1> DEFINE start == first - ((weekday + first + 6) % 7)
<1>1. start \in Int /\ first - 6 <= start /\ start <= first /\ (weekday + start) % 7 = 1
  OBVIOUS
<1> HIDE DEF start
<1>2. start .. start + count - 1 \in SUBSET Int /\ start \in start .. start + count - 1
      /\ \A y \in start .. start + count - 1 : start <= y
  BY <1>1
<1>3. Min(start .. start + count - 1) = start
  BY <1>2, LeastIs
<1> QED  BY <1>1, <1>3 DEF start

\* The part of ArithmeticIsExact on windows.
LEMMA WindowsHold ==
  ASSUME ZoneFacts(zone)
  PROVE  WindowsShowTheirPeriod
<1> SUFFICES ASSUME NEW weekday \in 0 .. 6, NEW date \in DaysOf(2) \cup DaysOf(3),
                    NEW direction \in {-1, 0, 1}
             PROVE  LET week == navigateDate(date, "week", direction)
                        month == navigateDate(date, "month", direction)
                        v == viewWindow(week, "week", weekday)
                        w == viewWindow(month, "month", weekday)
                    IN  /\ week \in v.days /\ (weekday + Min(v.days)) % 7 = 1
                        /\ DaysOf(MonthOf(date) + direction) \subseteq w.days
                        /\ (weekday + Min(w.days)) % 7 = 1
                        /\ w.from <= civilDateBoundary(month) /\ civilDateBoundary(month) < w.to
  BY DEF WindowsShowTheirPeriod
<1> DEFINE week == navigateDate(date, "week", direction)
           month == navigateDate(date, "month", direction)
           v == viewWindow(week, "week", weekday)
           w == viewWindow(month, "month", weekday)
<1>1. PICK m \in 2 .. 3 : date \in DaysOf(m)
  OBVIOUS
<1>2. date \in Int /\ MonthOf(date) = m
  BY <1>1, MonthOfItsDays
<1>3. week \in v.days /\ (weekday + Min(v.days)) % 7 = 1
  <2>1. week \in Int
    BY <1>2 DEF navigateDate
  <2> HIDE DEF week
  <2> DEFINE start == week - ((weekday + week + 6) % 7)
  <2>2. v.days = start .. start + 7 - 1
    BY DEF viewWindow
  <2>3. /\ start \in Int /\ week - 6 <= start /\ start <= week /\ (weekday + start) % 7 = 1
        /\ Min(start .. start + 7 - 1) = start
    BY <2>1, LastMonday
  <2> HIDE DEF v, start
  <2> QED  BY <2>1, <2>2, <2>3
<1> DEFINE n == m + direction
<1>4. n \in 1 .. 4 /\ month = MonthStarts[n]
  BY <1>2 DEF navigateDate
<1> HIDE DEF n
<1>5. \A d \in DaysOf(n) : d \in Int /\ MonthStarts[n] <= d /\ d < MonthStarts[n + 1]
  BY <1>4, MonthOfItsDays
<1>6. /\ month \in Int /\ month \in DaysOf(n) /\ MonthOf(month) = n
      /\ MonthStarts[n + 1] \in Int /\ MonthStarts[n + 1] - month <= 31
  <2>1. month \in DaysOf(n) /\ MonthStarts[n + 1] \in Int
    BY <1>4 DEF DaysOf, MonthStarts
  <2> HIDE DEF month
  <2> QED  BY <1>4, <2>1, MonthOfItsDays
<1> HIDE DEF month
<1> DEFINE start == month - ((weekday + month + 6) % 7)
<1>7. /\ w.days = start .. start + 42 - 1
      /\ w.from = civilDateBoundary(start) /\ w.to = civilDateBoundary(start + 42)
      /\ start \in Int /\ month - 6 <= start /\ start <= month /\ (weekday + start) % 7 = 1
      /\ Min(start .. start + 42 - 1) = start
  <2>1. MonthStarts[MonthOf(month)] = month
    BY <1>4, <1>6
  <2>2. /\ w.days = start .. start + 42 - 1
        /\ w.from = civilDateBoundary(start) /\ w.to = civilDateBoundary(start + 42)
    BY <2>1 DEF viewWindow
  <2> QED  BY <1>6, <2>2, LastMonday
<1> HIDE DEF w, start
<1>8. DaysOf(n) \subseteq w.days
  <2> SUFFICES ASSUME NEW d \in DaysOf(n)  PROVE  d \in w.days
    OBVIOUS
  <2>1. d \in Int /\ month <= d /\ d < MonthStarts[n + 1]
    BY <1>4, <1>5
  <2> QED  BY <1>6, <1>7, <2>1
<1>9. w.from <= civilDateBoundary(month) /\ civilDateBoundary(month) < w.to
  <2>1. start \in Int /\ start <= month /\ month < start + 42
    BY <1>6, <1>7
  <2>2. w.from = civilDateBoundary(start) /\ w.to = civilDateBoundary(start + 42)
    BY <1>7
  <2>3. start + 42 \in Int /\ civilDateBoundary(start) \in Int /\ civilDateBoundary(month) \in Int
    BY <1>6, <2>1, BoundaryCrosses
  <2>4. civilDateBoundary(month) < civilDateBoundary(start + 42)
    BY <1>6, <2>1, <2>3, BoundariesInOrder
  <2>5. CASE start = month
    BY <2>2, <2>3, <2>4, <2>5
  <2>6. CASE start # month
    <3>1. start < month
      BY <1>6, <2>1, <2>6
    <3>2. civilDateBoundary(start) < civilDateBoundary(month)
      BY <1>6, <2>1, <3>1, BoundariesInOrder
    <3> QED  BY <2>2, <2>3, <2>4, <3>2
  <2> QED  BY <2>5, <2>6
<1>10. n = MonthOf(date) + direction /\ (weekday + Min(w.days)) % 7 = 1
  BY <1>2, <1>7 DEF n
<1> HIDE DEF v, week
<1> QED  BY <1>3, <1>8, <1>9, <1>10 DEF month, w, v, week

-------------------------------------------------------------------------------
\* Where the clock is put back, the time it shows is shown twice.
LEMMA PutBackShowsTwice ==
  ASSUME ZoneFacts(zone), NEW n \in Int,
         utcToLocalDateTime(n - 1) >= utcToLocalDateTime(n)
  PROVE  \E u \in Int : u # n /\ utcToLocalDateTime(u) = utcToLocalDateTime(n)
<1> DEFINE saved == IF zone.saving < 0 THEN -zone.saving ELSE zone.saving
<1>1. saved \in Int /\ n - saved \in Int
  BY DEF ZoneFacts
<1>2. n - saved # n /\ utcToLocalDateTime(n - saved) = utcToLocalDateTime(n)
  BY DayLength DEF ZoneFacts, utcToLocalDateTime, Offset
<1> QED  BY <1>1, <1>2

\* A local time is passed once, unless the clock shows it twice.
LEMMA PassedOnce ==
  ASSUME ZoneFacts(zone), NEW l \in Int, NEW n \in Int, NEW b \in Int, n # b,
         utcToLocalDateTime(n - 1) < l, utcToLocalDateTime(n) >= l,
         utcToLocalDateTime(b - 1) < l, utcToLocalDateTime(b) >= l
  PROVE  utcToLocalDateTime(n) = l /\ utcToLocalDateTime(b) = l
BY DayLength DEF ZoneFacts, utcToLocalDateTime, Offset

\* A drop that is not refused is of two instants found without a doubt.
LEMMA ResultIsFound ==
  ASSUME NEW found, NEW n \in Result(found)
  PROVE  /\ n.start \in found.start /\ Cardinality(found.start) = 1
         /\ n.end \in found.end /\ Cardinality(found.end) = 1
<1>1. n \in Resolved(found)
  BY DEF Result
<1>2. PICK s \in (IF Cardinality(found.start) = 1 THEN found.start ELSE {}),
           t \in (IF Cardinality(found.end) = 1 THEN found.end ELSE {}) :
        n = [start |-> s, end |-> t]
  BY <1>1 DEF Resolved
<1> QED  BY <1>2

LEMMA FoundIsTheOnly ==
  ASSUME ZoneFacts(zone), NEW l \in Int, NEW t \in localDateTimeToUtc(l)
  PROVE  /\ t \in Int /\ utcToLocalDateTime(t) = l
         /\ Cardinality(localDateTimeToUtc(l)) = 1 =>
               \A u \in Int : utcToLocalDateTime(u) = l => u = t
<1>1. /\ localDateTimeToUtc(l) = {x \in Int : utcToLocalDateTime(x) = l}
      /\ IsFiniteSet(localDateTimeToUtc(l))
  BY ExactInstants
<1>2. Cardinality(localDateTimeToUtc(l)) = 1 => \E x : localDateTimeToUtc(l) = {x}
  BY <1>1, FS_Singleton
<1> QED  BY <1>1, <1>2

\* A shift moves a local time by the days and the minutes asked for.
LEMMA ShiftedBy ==
  ASSUME ZoneFacts(zone), NEW t \in Int, NEW days \in Int, NEW minutes \in Int,
         NEW n \in shiftedLocal(t, days, minutes)
  PROVE  n \in Int /\ utcToLocalDateTime(n) = utcToLocalDateTime(t) + days * Day + minutes
<1> DEFINE total == minuteInZone(t) + minutes
           l == (dateInZone(t) + days + (total \div Day)) * Day + (total % Day)
<1>1. /\ utcToLocalDateTime(t) \in Int /\ dateInZone(t) \in Int /\ minuteInZone(t) \in Int
      /\ utcToLocalDateTime(t) = dateInZone(t) * Day + minuteInZone(t)
  <2>1. minuteInZone(t) \in 0 .. Day - 1
    BY LocalTime
  <2> QED  BY <2>1, LocalTime, DayLength
<1>2. total \in Int /\ total \div Day \in Int /\ total % Day \in Int
      /\ total = (total \div Day) * Day + (total % Day)
  <2>1. total \in Int
    BY <1>1
  <2> HIDE DEF total
  <2>2. Day \in Nat \ {0}
    BY DayLength
  <2>3. /\ total \div Day \in Int /\ (total % Day) \in 0 .. Day - 1
        /\ total = (total \div Day) * Day + (total % Day)
    BY <2>1, <2>2, Division
  <2> QED  BY <2>1, <2>2, <2>3
<1>3. l \in Int /\ l = utcToLocalDateTime(t) + days * Day + minutes
  <2> DEFINE q == total \div Day
             r == total % Day
  <2>1. total = q * Day + r /\ q \in Int /\ r \in Int /\ total \in Int /\ total = minuteInZone(t) + minutes
    BY <1>2
  <2>2. l = (dateInZone(t) + days + q) * Day + r
    OBVIOUS
  <2> HIDE DEF q, r, total, l
  <2>3. Day \in Int
    BY DayLength
  <2>4. (dateInZone(t) + days + q) * Day = dateInZone(t) * Day + days * Day + q * Day
    BY <1>1, <2>1, <2>3
  <2>5. dateInZone(t) * Day \in Int /\ days * Day \in Int /\ q * Day \in Int
    BY <1>1, <2>1, <2>3
  <2> QED  BY <1>1, <2>1, <2>2, <2>4, <2>5
<1>4. n \in localDateTimeToUtc(l)
  BY DEF shiftedLocal
<1> HIDE DEF l
<1> QED  BY <1>3, <1>4, FoundIsTheOnly

\* The date of a local time given by a date and a minute.
LEMMA DateOfLocal ==
  ASSUME ZoneFacts(zone), NEW t \in Int, NEW d \in Int, NEW m \in 0 .. Day - 1,
         utcToLocalDateTime(t) = d * Day + m
  PROVE  dateInZone(t) = d /\ minuteInZone(t) = m
BY DayLength, OneQuotient DEF dateInZone, minuteInZone

\* An end that is dropped on a day is shown on it, or is the first instant of
\* it where the clock is changed at midnight.
LEMMA EndLandsOnItsDay ==
  ASSUME ZoneFacts(zone), NEW day \in Int, NEW x \in 0 .. Day,
         NEW n \in Int, utcToLocalDateTime(n) = day * Day + x,
         \A u \in Int : utcToLocalDateTime(u) = day * Day + x => u = n
  PROVE  dateInZone(n - 1) = day
         \/ (n = civilDateBoundary(day) /\ (zone.saving # 0 \/ x = 0))
<1> DEFINE p == utcToLocalDateTime(n - 1)
           l == day * Day
           b == civilDateBoundary(day)
<1>1. n - 1 \in Int /\ l \in Int /\ x \in Int /\ p \in Int /\ (day + 1) * Day = l + Day
  <2>1. n - 1 \in Int /\ l \in Int /\ x \in Int /\ (day + 1) * Day = l + Day
    BY DayLength
  <2> QED  BY <2>1, LocalTime
<1>2. p <= l + x - 1
  <2>1. ~(p >= utcToLocalDateTime(n))
    BY PutBackShowsTwice
  <2> QED  BY <1>1, <2>1
<1>3. CASE p >= l
  <2>1. p - l \in 0 .. Day - 1 /\ p = day * Day + (p - l)
    BY <1>1, <1>2, <1>3, DayLength
  <2> QED  BY <1>1, <2>1, DateOfLocal
<1>4. CASE p < l
  <2>1. /\ b \in Int /\ utcToLocalDateTime(b - 1) < l /\ utcToLocalDateTime(b) >= l
    BY BoundaryCrosses
  <2>2. n = b
    <3> SUFFICES ASSUME n # b  PROVE  FALSE
      OBVIOUS
    <3>1. utcToLocalDateTime(n) >= l
      BY <1>1
    <3>2. utcToLocalDateTime(n) = l /\ utcToLocalDateTime(b) = l
      <4> HIDE DEF b, l
      <4> QED  BY <1>1, <1>4, <2>1, <3>1, PassedOnce DEF p
    <3> QED  BY <2>1, <3>2
  <2>3. zone.saving = 0 => x = 0
    <3> SUFFICES ASSUME zone.saving = 0  PROVE  x = 0
      OBVIOUS
    <3>1. Offset(n - 1) = zone.standard /\ Offset(n) = zone.standard /\ zone.standard \in Int
      BY DEF Offset, ZoneFacts
    <3>2. p = (n - 1) + zone.standard /\ l + x = n + zone.standard
      BY <3>1 DEF utcToLocalDateTime
    <3> HIDE DEF p, l
    <3> QED  BY <1>1, <1>4, <3>1, <3>2
  <2> QED  BY <2>2, <2>3
<1> QED  BY <1>1, <1>3, <1>4

LEMMA OfTwo ==
  ASSUME NEW a \in Int, NEW b \in Int
  PROVE  Max({a, b}) \in {a, b} /\ Min({a, b}) \in {a, b}
<1>1. CASE a <= b
  BY <1>1, GreatestIs, LeastIs
<1>2. CASE b <= a
  BY <1>2, GreatestIs, LeastIs
<1> QED  BY <1>1, <1>2

LEMMA SnapsToAMinute ==
  ASSUME NEW m \in Int
  PROVE  snapQuarterMinute(m) \in Int
<1> DEFINE clamped == Max({0, Min({Day, m})})
           quarters == (2 * clamped + Quarter) \div (2 * Quarter)
<1>1. Day \in Int /\ Quarter \in Nat \ {0} /\ 2 * Quarter \in Nat \ {0}
  BY DayLength, ArithmeticConstants
<1>2. Min({Day, m}) \in Int
  BY <1>1, OfTwo
<1>3. clamped \in Int
  <2> DEFINE least == Min({Day, m})
  <2> HIDE DEF least
  <2>1. Max({0, least}) \in {0, least}
    BY <1>2, OfTwo DEF least
  <2> QED  BY <1>2, <2>1 DEF least
<1>4. 2 * clamped + Quarter \in Int
  <2> HIDE DEF clamped
  <2> QED  BY <1>1, <1>3
<1>5. quarters \in Int
  <2> HIDE DEF clamped
  <2> QED  BY <1>1, <1>4, Division
<1>6. quarters * Quarter \in Int
  <2> HIDE DEF quarters
  <2> QED  BY <1>1, <1>5
<1> DEFINE snapped == quarters * Quarter
<1>7. snapQuarterMinute(m) = Min({Day, snapped})
  BY DEF snapQuarterMinute
<1> HIDE DEF snapped
<1> QED  BY <1>1, <1>6, <1>7, OfTwo DEF snapped

\* Drops land where they point, on whatever day and at whatever minute.
LEMMA DropsHold ==
  ASSUME ZoneFacts(zone), rows \subseteq Shown,
         NEW dropDays \in SUBSET Int, NEW minutes \in SUBSET Int
  PROVE  DropsLandOn(dropDays, minutes)
<1> SUFFICES ASSUME NEW e \in rows,
                    NEW day \in eventSpan(e).startDay .. eventSpan(e).endDay,
                    NEW dropDay \in dropDays
             PROVE
      /\ \A n \in Result(applyMonthChange(e, day, dropDay, "move")) :
           eventSpan(n).startDay - eventSpan(e).startDay = dropDay - day
      /\ \A n \in Result(applyMonthChange(e, day, dropDay, "start")) :
           eventSpan(n).startDay = dropDay /\ n.end = e.end
      /\ \A n \in Result(applyMonthChange(e, day, dropDay, "end")) :
           /\ n.start = e.start
           /\ eventSpan(n).endDay = dropDay
              \/ (zone.saving # 0 /\ n.end = civilDateBoundary(dropDay))
      /\ \A from, to \in minutes :
           \A n \in Result(applyWeekMove(e, [day |-> day, minute |-> from],
                                          [day |-> dropDay, minute |-> to])) :
             utcToLocalDateTime(n.start) - utcToLocalDateTime(e.start)
               = (dropDay - day) * Day + snapQuarterMinute(to) - snapQuarterMinute(from)
      /\ \A to \in 0 .. Day : \A n \in Result(applyWeekResize(e, [day |-> dropDay, minute |-> to], "end")) :
           n.start = e.start /\ utcToLocalDateTime(n.end) = dropDay * Day + snapQuarterMinute(to)
  BY DEF DropsLandOn
<1>1. e.start \in Int /\ e.end \in Int /\ e.end - 1 \in Int
  <2>1. e.start \in 0 .. LastChange /\ e.end \in 0 .. LastChange
    BY DEF Shown
  <2> QED  BY <2>1, DayLength
<1>2. /\ dateInZone(e.start) \in Int /\ minuteInZone(e.start) \in 0 .. Day - 1
      /\ utcToLocalDateTime(e.start) = dateInZone(e.start) * Day + minuteInZone(e.start)
      /\ dateInZone(e.end) \in Int /\ minuteInZone(e.end) \in 0 .. Day - 1
      /\ utcToLocalDateTime(e.end) = dateInZone(e.end) * Day + minuteInZone(e.end)
      /\ dateInZone(e.end - 1) \in Int
  BY <1>1, LocalTime
<1>3. day \in Int /\ dropDay \in Int /\ dropDay - day \in Int
  BY <1>2 DEF eventSpan
<1>4. ASSUME NEW n \in Result(applyMonthChange(e, day, dropDay, "move"))
      PROVE  eventSpan(n).startDay - eventSpan(e).startDay = dropDay - day
  <2>1. n.start \in shiftedLocal(e.start, dropDay - day, 0)
    BY ResultIsFound DEF applyMonthChange
  <2>2. n.start \in Int /\ utcToLocalDateTime(n.start) = utcToLocalDateTime(e.start) + (dropDay - day) * Day + 0
    BY <1>1, <1>3, <2>1, ShiftedBy
  <2>3. utcToLocalDateTime(n.start) = (dateInZone(e.start) + (dropDay - day)) * Day + minuteInZone(e.start)
    <3> DEFINE a == dateInZone(e.start)
               c == dropDay - day
    <3>1. a \in Int /\ c \in Int /\ Day \in Int /\ minuteInZone(e.start) \in Int
      BY <1>2, <1>3, DayLength
    <3>2. utcToLocalDateTime(n.start) = a * Day + minuteInZone(e.start) + c * Day + 0
      BY <1>2, <2>2
    <3> HIDE DEF a, c
    <3>3. (a + c) * Day = a * Day + c * Day /\ a * Day \in Int /\ c * Day \in Int
      BY <3>1
    <3>4. utcToLocalDateTime(n.start) = (a + c) * Day + minuteInZone(e.start)
      BY <3>1, <3>2, <3>3
    <3> QED  BY <3>4 DEF a, c
  <2>4. dateInZone(n.start) = dateInZone(e.start) + (dropDay - day)
    BY <1>2, <1>3, <2>2, <2>3, DateOfLocal
  <2> QED  BY <1>2, <1>3, <2>4 DEF eventSpan
<1>5. ASSUME NEW n \in Result(applyMonthChange(e, day, dropDay, "start"))
      PROVE  eventSpan(n).startDay = dropDay /\ n.end = e.end
  <2>1. n.start \in localDateTimeToUtc(dropDay * Day + minuteInZone(e.start)) /\ n.end \in {e.end}
    BY ResultIsFound DEF applyMonthChange
  <2>2. dropDay * Day + minuteInZone(e.start) \in Int
    BY <1>2, <1>3, DayLength
  <2>3. n.start \in Int /\ utcToLocalDateTime(n.start) = dropDay * Day + minuteInZone(e.start)
    BY <2>1, <2>2, FoundIsTheOnly
  <2>4. dateInZone(n.start) = dropDay
    BY <1>2, <1>3, <2>3, DateOfLocal
  <2> QED  BY <2>1, <2>4 DEF eventSpan
<1>6. ASSUME NEW n \in Result(applyMonthChange(e, day, dropDay, "end"))
      PROVE  /\ n.start = e.start
             /\ eventSpan(n).endDay = dropDay
                \/ (zone.saving # 0 /\ n.end = civilDateBoundary(dropDay))
  <2> DEFINE atMidnight == dateInZone(e.end) # eventSpan(e).endDay /\ minuteInZone(e.end) = 0
             x == IF atMidnight THEN Day ELSE minuteInZone(e.end)
             l == dropDay * Day + x
  <2>1. n.start \in {e.start} /\ n.end \in localDateTimeToUtc(l) /\ Cardinality(localDateTimeToUtc(l)) = 1
    BY ResultIsFound DEF applyMonthChange
  <2>2. x \in 0 .. Day
    BY <1>2, DayLength
  <2>3. l \in Int
    <3> HIDE DEF x
    <3> QED  BY <1>3, <2>2, DayLength
  <2>4. /\ n.end \in Int /\ utcToLocalDateTime(n.end) = l
        /\ \A u \in Int : utcToLocalDateTime(u) = l => u = n.end
    BY <2>1, <2>3, FoundIsTheOnly
  <2>5. dateInZone(n.end - 1) = dropDay
        \/ (n.end = civilDateBoundary(dropDay) /\ (zone.saving # 0 \/ x = 0))
    <3> HIDE DEF x
    <3> QED  BY <1>3, <2>2, <2>4, EndLandsOnItsDay
  <2>6. ASSUME x = 0  PROVE  zone.saving # 0
    <3> SUFFICES ASSUME zone.saving = 0  PROVE  FALSE
      OBVIOUS
    <3>1. dateInZone(e.end) = dateInZone(e.end - 1) /\ minuteInZone(e.end) = 0
      BY <2>6, <1>2, DayLength DEF eventSpan
    <3>2. Offset(e.end - 1) = zone.standard /\ Offset(e.end) = zone.standard /\ zone.standard \in Int
      BY DEF Offset, ZoneFacts
    <3>3. utcToLocalDateTime(e.end - 1) < dateInZone(e.end) * Day
      BY <1>1, <1>2, <3>1, <3>2, DayLength DEF utcToLocalDateTime
    <3>4. dateInZone(e.end - 1) < dateInZone(e.end)
      BY <1>1, <1>2, <3>3, LocalTime
    <3> QED  BY <1>2, <3>1, <3>4
  <2>7. eventSpan(n).endDay = dateInZone(n.end - 1)
    BY DEF eventSpan
  <2> HIDE DEF x
  <2> QED  BY <2>1, <2>5, <2>6, <2>7
<1>7. ASSUME NEW from \in minutes, NEW to \in minutes,
             NEW n \in Result(applyWeekMove(e, [day |-> day, minute |-> from],
                                          [day |-> dropDay, minute |-> to]))
      PROVE  utcToLocalDateTime(n.start) - utcToLocalDateTime(e.start)
               = (dropDay - day) * Day + snapQuarterMinute(to) - snapQuarterMinute(from)
  <2>1. from \in Int /\ to \in Int
    OBVIOUS
  <2>2. snapQuarterMinute(from) \in Int /\ snapQuarterMinute(to) \in Int
    BY <2>1, SnapsToAMinute
  <2> DEFINE shift == snapQuarterMinute(to) - snapQuarterMinute(from)
  <2>3. n.start \in shiftedLocal(e.start, dropDay - day, shift)
    BY ResultIsFound DEF applyWeekMove
  <2>4. shift \in Int
    BY <2>2
  <2>5. utcToLocalDateTime(n.start) = utcToLocalDateTime(e.start) + (dropDay - day) * Day + shift
    <3> HIDE DEF shift
    <3> QED  BY <1>1, <1>3, <2>3, <2>4, ShiftedBy
  <2>6. utcToLocalDateTime(e.start) \in Int /\ (dropDay - day) * Day \in Int
    <3>1. utcToLocalDateTime(e.start) \in Int
      BY <1>1, LocalTime
    <3>2. Day \in Int
      BY DayLength
    <3> QED  BY <1>3, <3>1, <3>2
  <2> QED  BY <2>2, <2>5, <2>6
<1>8. ASSUME NEW to \in 0 .. Day,
             NEW n \in Result(applyWeekResize(e, [day |-> dropDay, minute |-> to], "end"))
      PROVE  n.start = e.start /\ utcToLocalDateTime(n.end) = dropDay * Day + snapQuarterMinute(to)
  <2>1. snapQuarterMinute(to) \in Int
    BY DayLength, SnapsToAMinute
  <2>2. n.start \in {e.start} /\ n.end \in localDateTimeToUtc(dropDay * Day + snapQuarterMinute(to))
    BY ResultIsFound DEF applyWeekResize
  <2>3. dropDay * Day + snapQuarterMinute(to) \in Int
    BY <1>3, <2>1, DayLength
  <2> QED  BY <2>2, <2>3, FoundIsTheOnly
<1> QED  BY <1>4, <1>5, <1>6, <1>7, <1>8

-------------------------------------------------------------------------------
\* A free lane is one whose last occurrence is over; a new one follows lanes
\* of which none is.
LEMMA FreeLaneIs ==
  ASSUME NEW ends \in Seq(Int), NEW start \in Int
  PROVE  LET lane == freeLane(ends, start) IN
         /\ Len(ends) \in Nat /\ lane \in 1 .. Len(ends) + 1
         /\ lane <= Len(ends) => ends[lane] <= start
         /\ lane > Len(ends) => \A l \in 1 .. Len(ends) : ends[l] > start
<1> DEFINE T == {l \in DOMAIN ends : ends[l] <= start} \cup {Len(ends) + 1}
<1>1. Len(ends) \in Nat /\ DOMAIN ends = 1 .. Len(ends) /\ \A l \in 1 .. Len(ends) : ends[l] \in Int
  OBVIOUS
<1>2. T \subseteq 1 .. Len(ends) + 1 /\ Len(ends) + 1 \in T
  BY <1>1
<1>3. IsFiniteSet(T) /\ T \in SUBSET Int /\ T # {}
  <2>1. IsFiniteSet(1 .. Len(ends) + 1)
    BY <1>1, FS_Interval
  <2> HIDE DEF T
  <2>2. IsFiniteSet(T)
    <3>1. T \in SUBSET (1 .. Len(ends) + 1)
      BY <1>2
    <3> QED  BY <2>1, <3>1, FS_Subset
  <2> QED  BY <1>1, <1>2, <2>2
<1>4. PICK x \in T : \A y \in T : x <= y
  <2> HIDE DEF T
  <2> QED  BY <1>3, LeastOf
<1>5. freeLane(ends, start) = x
  <2>1. Min(T) = x
    <3> HIDE DEF T
    <3> QED  BY <1>3, <1>4, LeastIs
  <2> QED  BY <2>1 DEF freeLane
<1>6. x \in 1 .. Len(ends) + 1
  BY <1>2
<1>7. x <= Len(ends) => ends[x] <= start
  BY <1>1
<1>8. ASSUME x > Len(ends), NEW l \in 1 .. Len(ends)  PROVE  ends[l] > start
  <2>1. ~(ends[l] <= start)
    <3> SUFFICES ASSUME ends[l] <= start  PROVE  FALSE
      OBVIOUS
    <3>1. l \in T
      BY <1>1
    <3> QED  BY <1>1, <1>4, <1>6, <1>8, <3>1
  <2> QED  BY <1>1, <2>1
<1> QED  BY <1>1, <1>5, <1>6, <1>7, <1>8

Layouts == [laneEnds : Seq(Int), lane : Seq(Nat)]
Places == [start : Int, end : Int]

\* An occurrence is placed in a lane that is free, and the lane then ends with
\* it; the other lanes and occurrences stay as they were.
LEMMA PlacedIs ==
  ASSUME NEW layout \in Layouts, NEW at \in Places
  PROVE  LET then == placed(layout, at)
             lane == freeLane(layout.laneEnds, at.start)
             lanes == Len(layout.laneEnds)
             n == Len(layout.lane)
         IN  /\ then \in Layouts
             /\ Len(then.laneEnds) = IF lane > lanes THEN lanes + 1 ELSE lanes
             /\ then.laneEnds[lane] = at.end
             /\ \A l \in 1 .. lanes : l # lane => then.laneEnds[l] = layout.laneEnds[l]
             /\ Len(then.lane) = n + 1 /\ then.lane[n + 1] = lane
             /\ \A i \in 1 .. n : then.lane[i] = layout.lane[i]
<1> DEFINE lane == freeLane(layout.laneEnds, at.start)
           ends == layout.laneEnds
<1>1. ends \in Seq(Int) /\ layout.lane \in Seq(Nat) /\ at.start \in Int /\ at.end \in Int
  BY DEF Layouts, Places
<1>2. lane \in 1 .. Len(ends) + 1 /\ Len(ends) \in Nat /\ lane \in Nat
  <2>1. lane \in 1 .. Len(ends) + 1 /\ Len(ends) \in Nat
    BY <1>1, FreeLaneIs
  <2> QED  BY <2>1
<1>3. placed(layout, at) = [laneEnds |-> IF lane > Len(ends) THEN Append(ends, at.end)
                                         ELSE [ends EXCEPT ![lane] = at.end],
                            lane |-> Append(layout.lane, lane)]
  BY DEF placed
<1> HIDE DEF lane, ends
<1>4. /\ Append(layout.lane, lane) \in Seq(Nat)
      /\ Len(Append(layout.lane, lane)) = Len(layout.lane) + 1
      /\ Append(layout.lane, lane)[Len(layout.lane) + 1] = lane
      /\ \A i \in 1 .. Len(layout.lane) : Append(layout.lane, lane)[i] = layout.lane[i]
  BY <1>1, <1>2
<1>5. CASE lane > Len(ends)
  <2>1. lane = Len(ends) + 1
    BY <1>2, <1>5
  <2>2. /\ Append(ends, at.end) \in Seq(Int) /\ Len(Append(ends, at.end)) = Len(ends) + 1
        /\ Append(ends, at.end)[Len(ends) + 1] = at.end
        /\ \A l \in 1 .. Len(ends) : Append(ends, at.end)[l] = ends[l]
    BY <1>1
  <2> QED  BY <1>3, <1>4, <1>5, <2>1, <2>2 DEF lane, ends, Layouts
<1>6. CASE ~(lane > Len(ends))
  <2>1. lane \in 1 .. Len(ends)
    BY <1>2, <1>6
  <2> DEFINE next == [ends EXCEPT ![lane] = at.end]
  <2>2. /\ next \in Seq(Int) /\ Len(next) = Len(ends) /\ next[lane] = at.end
        /\ \A l \in 1 .. Len(ends) : l # lane => next[l] = ends[l]
    BY <1>1, <2>1
  <2> HIDE DEF next
  <2>3. placed(layout, at) = [laneEnds |-> next, lane |-> Append(layout.lane, lane)]
    BY <1>3, <1>6 DEF next
  <2> QED  BY <1>4, <1>6, <2>2, <2>3 DEF lane, ends, Layouts
<1> QED  BY <1>5, <1>6

\* The layouts of a day follow one another, an occurrence at a time.
LEMMA LayoutTurns ==
  ASSUME NEW day, NEW seq, NEW N \in Nat, Len(seq) = N,
         \A i \in 1 .. N : eventDayMinute(seq[i], day) \in Places
  PROVE  \E f \in [0 .. N -> Layouts] :
           /\ layoutWeekDay(seq, day) = f[N]
           /\ f[0] = [laneEnds |-> <<>>, lane |-> <<>>]
           /\ \A n \in 0 .. N - 1 : f[n + 1] = placed(f[n], eventDayMinute(seq[n + 1], day))
<1> DEFINE at(n) == eventDayMinute(seq[n], day)
           first == [laneEnds |-> <<>>, lane |-> <<>>]
           step == [p \in (0 .. N - 1) \X Layouts |-> placed(p[2], at(p[1] + 1))]
           Eqn(f) == f = [n \in 0 .. N |-> IF n = 0 THEN first ELSE placed(f[n - 1], at(n))]
<1>1. first \in Layouts
  BY DEF Layouts
<1>2. step \in [(0 .. N - 1) \X Layouts -> Layouts]
  <2>1. ASSUME NEW n \in 0 .. N - 1, NEW layout \in Layouts
        PROVE  placed(layout, at(n + 1)) \in Layouts
    <3>1. n + 1 \in 1 .. N
      OBVIOUS
    <3>2. at(n + 1) \in Places
      BY <3>1
    <3> HIDE DEF at
    <3> QED  BY <3>2, PlacedIs
  <2> HIDE DEF at
  <2> QED  BY <2>1
<1>3. PICK f \in [0 .. N -> Layouts] :
           f[0] = first /\ \A n \in 0 .. N - 1 : f[n + 1] = step[<<n, f[n]>>]
  <2> HIDE DEF step, first
  <2>1. \E f : IsRun(f, Layouts, first, N, step)
    BY <1>1, <1>2, Iterates
  <2> QED  BY <2>1 DEF IsRun
<1> HIDE DEF at, first
<1>4. \A n \in 0 .. N - 1 : f[n + 1] = placed(f[n], at(n + 1))
  <2>1. ASSUME NEW n \in 0 .. N - 1  PROVE  step[<<n, f[n]>>] = placed(f[n], at(n + 1))
    <3>1. f[n] \in Layouts
      OBVIOUS
    <3> QED  BY <3>1
  <2> QED  BY <1>3, <2>1
<1>5. Eqn(f)
  <2>1. ASSUME NEW n \in 0 .. N
        PROVE  f[n] = IF n = 0 THEN first ELSE placed(f[n - 1], at(n))
    <3>1. CASE n = 0
      BY <3>1, <1>3
    <3>2. CASE n # 0
      <4>1. n - 1 \in 0 .. N - 1 /\ (n - 1) + 1 = n
        BY <3>2
      <4> QED  BY <1>4, <3>2, <4>1
    <3> QED  BY <3>1, <3>2
  <2> QED  BY <1>3, <2>1
<1> DEFINE g == CHOOSE h : Eqn(h)
<1>6. layoutWeekDay(seq, day) = g[N]
  BY DEF layoutWeekDay, at, first
<1>7. Eqn(g)
  <2> HIDE DEF Eqn
  <2> QED  BY <1>5
<1> HIDE DEF g
<1>8. g[0] = first /\ \A n \in 0 .. N - 1 : g[n + 1] = placed(g[n], at(n + 1))
  <2>1. \A n \in 0 .. N : g[n] = IF n = 0 THEN first ELSE placed(g[n - 1], at(n))
    BY <1>7
  <2>2. 0 \in 0 .. N
    OBVIOUS
  <2>3. ASSUME NEW n \in 0 .. N - 1  PROVE  g[n + 1] = placed(g[n], at(n + 1))
    <3>1. n + 1 \in 0 .. N /\ n + 1 # 0 /\ (n + 1) - 1 = n
      OBVIOUS
    <3> QED  BY <2>1, <3>1
  <2> QED  BY <2>1, <2>2, <2>3
<1>9. \A n \in 0 .. N : g[n] = f[n]
  <2> DEFINE P == {n \in Nat : n <= N => g[n] = f[n]}
  <2>1. 0 \in P
    BY <1>3, <1>8
  <2>2. ASSUME NEW n \in P  PROVE  n + 1 \in P
    <3> SUFFICES ASSUME n + 1 <= N  PROVE  g[n + 1] = f[n + 1]
      OBVIOUS
    <3>1. n \in 0 .. N - 1 /\ n <= N
      OBVIOUS
    <3>2. g[n] = f[n]
      BY <3>1
    <3> QED  BY <1>4, <1>8, <3>1, <3>2
  <2>3. P = Nat
    <3>1. P \in SUBSET Nat
      OBVIOUS
    <3> HIDE DEF P
    <3> QED  BY <2>1, <2>2, <3>1, SetInduction
  <2>4. ASSUME NEW n \in 0 .. N  PROVE  n \in P /\ n <= N
    BY <2>3
  <2> QED  BY <2>4
<1>10. layoutWeekDay(seq, day) = f[N]
  <2>1. N \in 0 .. N
    OBVIOUS
  <2> QED  BY <1>6, <1>9, <2>1
<1> QED  BY <1>3, <1>4, <1>10 DEF at, first

\* Places of a day in the order in which they start.
InOrder(at, N) ==
  /\ at \in [1 .. N -> Places]
  /\ \A i \in 1 .. N : 0 <= at[i].start /\ at[i].start < at[i].end /\ at[i].end <= Day
  /\ \A i, j \in 1 .. N : i < j => at[i].start <= at[j].start

\* What holds of the lanes when n occurrences are placed: those of a lane
\* follow one another, its end is that of one of them and no earlier than that
\* of any, and at some time there is an occurrence in every lane.
Busy(layout, n, at, m) ==
  \A l \in 1 .. Len(layout.laneEnds) : \E i \in 1 .. n :
    layout.lane[i] = l /\ at[i].start <= m /\ m < at[i].end
LanesFollow(layout, n, at) ==
  /\ Len(layout.lane) = n
  /\ \A i \in 1 .. n : /\ layout.lane[i] \in 1 .. Len(layout.laneEnds)
                       /\ at[i].end <= layout.laneEnds[layout.lane[i]]
  /\ \A i, j \in 1 .. n : i < j /\ layout.lane[i] = layout.lane[j] => at[i].end <= at[j].start
  /\ \A l \in 1 .. Len(layout.laneEnds) : \E i \in 1 .. n :
       layout.lane[i] = l /\ layout.laneEnds[l] = at[i].end
  /\ \E m \in 0 .. Day - 1 : Busy(layout, n, at, m)

\* Placing one more occurrence preserves that.
LEMMA PlacingFollows ==
  ASSUME NEW N \in Nat, NEW at, InOrder(at, N), NEW n \in 0 .. N - 1,
         NEW layout \in Layouts, LanesFollow(layout, n, at)
  PROVE  LanesFollow(placed(layout, at[n + 1]), n + 1, at)
<1> DEFINE then == placed(layout, at[n + 1])
           new == at[n + 1]
           lane == freeLane(layout.laneEnds, new.start)
           lanes == Len(layout.laneEnds)
<1>1. n + 1 \in 1 .. N /\ n \in Nat /\ \A i \in 1 .. n : i \in 1 .. N /\ i \in 1 .. n + 1
  OBVIOUS
<1>2. /\ new \in Places /\ new.start \in Int /\ new.end \in Int
      /\ 0 <= new.start /\ new.start < new.end /\ new.end <= Day
  BY <1>1 DEF InOrder, Places
<1>3. /\ then \in Layouts
      /\ Len(then.laneEnds) = IF lane > lanes THEN lanes + 1 ELSE lanes
      /\ then.laneEnds[lane] = new.end
      /\ \A l \in 1 .. lanes : l # lane => then.laneEnds[l] = layout.laneEnds[l]
      /\ Len(then.lane) = n + 1 /\ then.lane[n + 1] = lane
      /\ \A i \in 1 .. n : then.lane[i] = layout.lane[i]
  BY <1>2, PlacedIs DEF LanesFollow
<1>4. /\ lanes \in Nat /\ lane \in 1 .. lanes + 1
      /\ lane <= lanes => layout.laneEnds[lane] <= new.start
      /\ lane > lanes => \A l \in 1 .. lanes : layout.laneEnds[l] > new.start
      /\ \A l \in 1 .. lanes : layout.laneEnds[l] \in Int
  <2>1. layout.laneEnds \in Seq(Int)
    BY DEF Layouts
  <2>2. \A l \in 1 .. lanes : layout.laneEnds[l] \in Int
    BY <2>1
  <2> HIDE DEF new
  <2> QED  BY <1>2, <2>1, <2>2, FreeLaneIs
<1>5. \A i \in 1 .. n : /\ at[i].start \in Int /\ at[i].end \in Int
                        /\ at[i].start <= new.start /\ at[i].start < at[i].end
                        /\ layout.lane[i] \in 1 .. lanes
                        /\ at[i].end <= layout.laneEnds[layout.lane[i]]
  <2>1. \A i \in 1 .. n : i < n + 1
    BY <1>1
  <2> QED  BY <1>1, <2>1 DEF InOrder, Places, LanesFollow
<1>6. \A l \in 1 .. lanes : \E i \in 1 .. n : layout.lane[i] = l /\ layout.laneEnds[l] = at[i].end
  BY DEF LanesFollow
<1>7. \A i, j \in 1 .. n : i < j /\ layout.lane[i] = layout.lane[j] => at[i].end <= at[j].start
  BY DEF LanesFollow
<1>8. PICK m \in 0 .. Day - 1 : Busy(layout, n, at, m)
  BY DEF LanesFollow
<1>9. \A i \in 1 .. n + 1 : i \in 1 .. n \/ i = n + 1
  BY <1>1
<1> HIDE DEF then, lane, lanes, new
<1>10. lane \in 1 .. Len(then.laneEnds) /\ \A l \in 1 .. lanes : l \in 1 .. Len(then.laneEnds)
  BY <1>3, <1>4
<1>11. \A l \in 1 .. Len(then.laneEnds) : l \in 1 .. lanes \/ l = lane
  BY <1>3, <1>4
<1>12. ASSUME NEW i \in 1 .. n + 1
       PROVE  then.lane[i] \in 1 .. Len(then.laneEnds) /\ at[i].end <= then.laneEnds[then.lane[i]]
  <2>1. CASE i = n + 1
    <3>1. then.lane[i] = lane /\ then.laneEnds[lane] = new.end /\ at[i].end = new.end
      BY <1>3, <2>1 DEF new
    <3> QED  BY <1>2, <1>10, <3>1
  <2>2. CASE i \in 1 .. n
    <3> DEFINE l == layout.lane[i]
    <3>1. l \in 1 .. lanes /\ then.lane[i] = l /\ at[i].end <= layout.laneEnds[l] /\ at[i].end \in Int
      BY <1>3, <1>5, <2>2
    <3> HIDE DEF l
    <3>2. CASE l # lane
      BY <1>3, <1>10, <3>1, <3>2
    <3>3. CASE l = lane
      <4>1. lane <= lanes /\ layout.laneEnds[lane] <= new.start /\ layout.laneEnds[lane] \in Int
        BY <1>4, <3>1, <3>3
      <4> QED  BY <1>2, <1>3, <1>10, <3>1, <3>3, <4>1
    <3> QED  BY <3>2, <3>3
  <2> QED  BY <1>9, <2>1, <2>2
<1>13. ASSUME NEW i \in 1 .. n + 1, NEW j \in 1 .. n + 1, i < j, then.lane[i] = then.lane[j]
       PROVE  at[i].end <= at[j].start
  <2>1. i \in 1 .. n
    BY <1>1, <1>13
  <2>2. CASE j \in 1 .. n
    BY <1>3, <1>7, <1>13, <2>1, <2>2
  <2>3. CASE j = n + 1
    <3>1. layout.lane[i] = lane
      BY <1>3, <1>13, <2>1, <2>3
    <3>2. lane \in 1 .. lanes /\ at[i].end <= layout.laneEnds[lane] /\ at[i].end \in Int
      BY <1>5, <2>1, <3>1
    <3>3. layout.laneEnds[lane] <= new.start /\ layout.laneEnds[lane] \in Int
      BY <1>4, <3>2
    <3> QED  BY <1>2, <2>3, <3>2, <3>3 DEF new
  <2> QED  BY <1>9, <2>2, <2>3
<1>14. ASSUME NEW l \in 1 .. Len(then.laneEnds)
       PROVE  \E i \in 1 .. n + 1 : then.lane[i] = l /\ then.laneEnds[l] = at[i].end
  <2>1. CASE l = lane
    <3>1. n + 1 \in 1 .. n + 1
      BY <1>1
    <3> QED  BY <1>3, <2>1, <3>1 DEF new
  <2>2. CASE l # lane
    <3>1. l \in 1 .. lanes
      BY <1>11, <2>2
    <3>2. PICK i \in 1 .. n : layout.lane[i] = l /\ layout.laneEnds[l] = at[i].end
      BY <1>6, <3>1
    <3> QED  BY <1>1, <1>3, <2>2, <3>1, <3>2
  <2> QED  BY <2>1, <2>2
<1>15. \E k \in 0 .. Day - 1 : Busy(then, n + 1, at, k)
  <2>1. CASE lane > lanes
    <3>1. new.start \in 0 .. Day - 1
      BY <1>2, DayLength
    <3>2. ASSUME NEW l \in 1 .. Len(then.laneEnds)
          PROVE  \E i \in 1 .. n + 1 : then.lane[i] = l /\ at[i].start <= new.start /\ new.start < at[i].end
      <4>1. CASE l = lane
        <5>1. n + 1 \in 1 .. n + 1
          BY <1>1
        <5> QED  BY <1>2, <1>3, <4>1, <5>1 DEF new
      <4>2. CASE l # lane
        <5>1. l \in 1 .. lanes
          BY <1>11, <4>2
        <5>2. PICK i \in 1 .. n : layout.lane[i] = l /\ layout.laneEnds[l] = at[i].end
          BY <1>6, <5>1
        <5>3. layout.laneEnds[l] > new.start
          BY <1>4, <2>1, <5>1
        <5>4. at[i].start <= new.start /\ new.start < at[i].end
          BY <1>2, <1>5, <5>2, <5>3
        <5> QED  BY <1>1, <1>3, <5>2, <5>4
      <4> QED  BY <4>1, <4>2
    <3> QED  BY <3>1, <3>2 DEF Busy
  <2>2. CASE ~(lane > lanes)
    <3>1. ASSUME NEW l \in 1 .. Len(then.laneEnds)
          PROVE  \E i \in 1 .. n + 1 : then.lane[i] = l /\ at[i].start <= m /\ m < at[i].end
      <4>1. l \in 1 .. lanes
        BY <1>3, <2>2, <3>1
      <4>2. PICK i \in 1 .. n : layout.lane[i] = l /\ at[i].start <= m /\ m < at[i].end
        BY <1>8, <4>1 DEF Busy, lanes
      <4> QED  BY <1>1, <1>3, <4>2
    <3> QED  BY <3>1 DEF Busy
  <2> QED  BY <2>1, <2>2
<1> QED  BY <1>3, <1>12, <1>13, <1>14, <1>15 DEF LanesFollow, then, new

\* So it holds of the layout of a day whose occurrences are placed in order.
LEMMA LayoutFollows ==
  ASSUME NEW day, NEW seq, NEW N \in Nat, Len(seq) = N,
         NEW at, at = [i \in 1 .. N |-> eventDayMinute(seq[i], day)], InOrder(at, N)
  PROVE  layoutWeekDay(seq, day) \in Layouts /\ LanesFollow(layoutWeekDay(seq, day), N, at)
<1>1. \A i \in 1 .. N : eventDayMinute(seq[i], day) = at[i] /\ at[i] \in Places
  BY DEF InOrder
<1>2. PICK f \in [0 .. N -> Layouts] :
           /\ layoutWeekDay(seq, day) = f[N]
           /\ f[0] = [laneEnds |-> <<>>, lane |-> <<>>]
           /\ \A n \in 0 .. N - 1 : f[n + 1] = placed(f[n], eventDayMinute(seq[n + 1], day))
  <2>1. \A i \in 1 .. N : eventDayMinute(seq[i], day) \in Places
    BY <1>1
  <2> QED  BY <2>1, LayoutTurns
<1>3. \A n \in 0 .. N - 1 : f[n + 1] = placed(f[n], at[n + 1])
  <2>1. \A n \in 0 .. N - 1 : n + 1 \in 1 .. N
    OBVIOUS
  <2> QED  BY <1>1, <1>2, <2>1
<1> DEFINE P == {n \in Nat : n <= N => LanesFollow(f[n], n, at)}
<1>4. 0 \in P
  <2>1. f[0].laneEnds = <<>> /\ f[0].lane = <<>> /\ Len(<<>>) = 0 /\ 1 .. 0 = {}
    BY <1>2
  <2>2. 0 \in 0 .. Day - 1
    BY DayLength
  <2> QED  BY <2>1, <2>2 DEF LanesFollow, Busy
<1>5. ASSUME NEW n \in P  PROVE  n + 1 \in P
  <2> SUFFICES ASSUME n + 1 <= N  PROVE  LanesFollow(f[n + 1], n + 1, at)
    OBVIOUS
  <2>1. n \in 0 .. N - 1 /\ n <= N /\ n \in 0 .. N
    OBVIOUS
  <2>2. LanesFollow(f[n], n, at) /\ f[n] \in Layouts
    BY <2>1
  <2> QED  BY <1>3, <2>1, <2>2, PlacingFollows
<1>6. P = Nat
  <2>1. P \in SUBSET Nat
    OBVIOUS
  <2> HIDE DEF P
  <2> QED  BY <1>4, <1>5, <2>1, SetInduction
<1>7. N \in P /\ N <= N /\ N \in 0 .. N
  <2>1. N <= N /\ N \in 0 .. N
    OBVIOUS
  <2> HIDE DEF P
  <2> QED  BY <1>6, <2>1
<1> QED  BY <1>2, <1>7

\* There are as many lanes as occurrences at the busiest time, and no two
\* occurrences at one time are in one lane.
LEMMA LanesAreCounted ==
  ASSUME NEW N \in Nat \ {0}, NEW at, InOrder(at, N), NEW layout \in Layouts,
         LanesFollow(layout, N, at)
  PROVE  LET together(m) == {i \in 1 .. N : at[i].start <= m /\ m < at[i].end}
         IN  /\ \A m \in 0 .. Day - 1 : \A i, j \in together(m) :
                  i # j => layout.lane[i] # layout.lane[j]
             /\ Len(layout.laneEnds) \in Nat \ {0}
             /\ Max({Cardinality(together(m)) : m \in 0 .. Day - 1}) = Len(layout.laneEnds)
<1> DEFINE together(m) == {i \in 1 .. N : at[i].start <= m /\ m < at[i].end}
           lanes == Len(layout.laneEnds)
<1>1. lanes \in Nat /\ \A i \in 1 .. N : layout.lane[i] \in 1 .. lanes
  BY DEF Layouts, LanesFollow
<1>2. \A i \in 1 .. N : at[i].start \in Int /\ at[i].end \in Int
  BY DEF InOrder, Places
<1>3. \A i, j \in 1 .. N : i < j /\ layout.lane[i] = layout.lane[j] => at[i].end <= at[j].start
  BY DEF LanesFollow
<1>4. ASSUME NEW m \in 0 .. Day - 1, NEW i \in together(m), NEW j \in together(m), i # j
      PROVE  layout.lane[i] # layout.lane[j]
  <2>1. m \in Int /\ i \in 1 .. N /\ j \in 1 .. N
    BY DayLength
  <2>2. i < j \/ j < i
    BY <1>4, <2>1
  <2> QED  BY <1>2, <1>3, <2>1, <2>2
<1>5. lanes # 0
  <2>1. layout.lane[1] \in 1 .. lanes
    BY <1>1
  <2> QED  BY <1>1, <2>1
<1>6. ASSUME NEW m \in 0 .. Day - 1
      PROVE  IsFiniteSet(together(m)) /\ Cardinality(together(m)) \in Nat /\ Cardinality(together(m)) <= lanes
  <2> DEFINE g == [i \in together(m) |-> layout.lane[i]]
  <2>1. g \in Injection(together(m), 1 .. lanes)
    <3>1. g \in [together(m) -> 1 .. lanes]
      BY <1>1
    <3>2. \A i, j \in together(m) : g[i] = g[j] => i = j
      BY <1>4
    <3> HIDE DEF g, together
    <3> QED  BY <3>1, <3>2, Fun_IsInj
  <2>2. IsFiniteSet(1 .. lanes) /\ Cardinality(1 .. lanes) = lanes
    BY <1>1, FS_Interval
  <2> HIDE DEF g, together
  <2>3. IsFiniteSet(together(m)) /\ Cardinality(together(m)) <= lanes
    BY <2>1, <2>2, FS_Injection
  <2> QED  BY <2>3, FS_CardinalityType
<1>7. PICK m \in 0 .. Day - 1 : Busy(layout, N, at, m)
  BY DEF LanesFollow
<1>8. lanes <= Cardinality(together(m))
  <2> DEFINE g == [l \in 1 .. lanes |-> CHOOSE i \in together(m) : layout.lane[i] = l]
  <2>1. \A l \in 1 .. lanes : \E i \in together(m) : layout.lane[i] = l
    BY <1>7 DEF Busy
  <2>2. \A l \in 1 .. lanes : g[l] \in together(m) /\ layout.lane[g[l]] = l
    <3> HIDE DEF together
    <3> QED  BY <2>1
  <2>3. g \in Injection(1 .. lanes, together(m))
    <3>1. g \in [1 .. lanes -> together(m)]
      <4> HIDE DEF together
      <4> QED  BY <2>2
    <3>2. \A k, l \in 1 .. lanes : g[k] = g[l] => k = l
      BY <2>2
    <3> HIDE DEF g, together
    <3> QED  BY <3>1, <3>2, Fun_IsInj
  <2>4. IsFiniteSet(1 .. lanes) /\ Cardinality(1 .. lanes) = lanes
    BY <1>1, FS_Interval
  <2> HIDE DEF g, together
  <2> QED  BY <1>6, <2>3, <2>4, FS_Injection
<1>9. Max({Cardinality(together(k)) : k \in 0 .. Day - 1}) = lanes
  <2> DEFINE T == {Cardinality(together(k)) : k \in 0 .. Day - 1}
  <2> HIDE DEF together
  <2>1. Cardinality(together(m)) = lanes
    BY <1>1, <1>6, <1>8
  <2>2. T \in SUBSET Int /\ lanes \in T /\ \A y \in T : y <= lanes
    BY <1>6, <2>1
  <2> HIDE DEF T
  <2>3. Max(T) = lanes
    BY <2>2, GreatestIs
  <2> QED  BY <2>3 DEF T
<1> QED  BY <1>1, <1>4, <1>5, <1>9

\* The order in which the occurrences of a day are placed, for any functions
\* that give their places.
Before(p, q) == p.start < q.start \/ (p.start = q.start /\ p.end < q.end)
Sorted(seq, n, at) == \A i, j \in 1 .. n : i < j => ~Before(at[seq[j]], at[seq[i]])

\* The values of a function on a finite set have a greatest one.
LEMMA GreatestValue ==
  ASSUME NEW T, IsFiniteSet(T), T # {}, NEW f \in [T -> Int]
  PROVE  \E x \in T : \A y \in T : f[y] <= f[x]
<1> DEFINE R == {-f[y] : y \in T}
           g == [y \in T |-> -f[y]]
<1>1. g \in Surjection(T, R)
  <2>1. g \in [T -> R] /\ \A r \in R : \E y \in T : g[y] = r
    OBVIOUS
  <2> HIDE DEF g, R
  <2> QED  BY <2>1, Fun_IsSurj
<1>2. IsFiniteSet(R) /\ R \in SUBSET Int /\ R # {}
  <2>1. R \in SUBSET Int /\ R # {}
    OBVIOUS
  <2> HIDE DEF g, R
  <2> QED  BY <1>1, <2>1, FS_Surjection
<1>3. PICK r \in R : \A q \in R : r <= q
  <2> HIDE DEF R
  <2> QED  BY <1>2, LeastOf
<1>4. PICK x \in T : r = -f[x]
  OBVIOUS
<1>5. ASSUME NEW y \in T  PROVE  f[y] <= f[x]
  <2>1. -f[x] <= -f[y] /\ f[x] \in Int /\ f[y] \in Int
    BY <1>3, <1>4
  <2> QED  BY <2>1
<1> QED  BY <1>5

\* One of them comes after none of the others.
LEMMA LastOf ==
  ASSUME NEW T, IsFiniteSet(T), T # {}, NEW at \in [T -> Places]
  PROVE  \E x \in T : \A y \in T : ~Before(at[x], at[y])
<1>1. \A y \in T : at[y].start \in Int /\ at[y].end \in Int
  BY DEF Places
<1> DEFINE f == [y \in T |-> at[y].start]
<1>2. PICK a \in T : \A y \in T : f[y] <= f[a]
  <2>1. f \in [T -> Int]
    BY <1>1
  <2> HIDE DEF f
  <2> QED  BY <2>1, GreatestValue
<1> DEFINE T0 == {y \in T : at[y].start = at[a].start}
           g == [y \in T0 |-> at[y].end]
<1>3. PICK x \in T0 : \A y \in T0 : g[y] <= g[x]
  <2>1. g \in [T0 -> Int]
    BY <1>1
  <2>2. T0 \subseteq T /\ a \in T0
    OBVIOUS
  <2> HIDE DEF g, T0
  <2>3. IsFiniteSet(T0) /\ T0 # {}
    BY <2>2, FS_Subset
  <2> QED  BY <2>1, <2>3, GreatestValue
<1>4. ASSUME NEW y \in T  PROVE  ~Before(at[x], at[y])
  <2>1. at[y].start <= at[a].start /\ at[x].start = at[a].start
    BY <1>2
  <2>2. at[y].start = at[x].start => at[y].end <= at[x].end
    BY <1>3, <2>1
  <2> QED  BY <1>1, <2>1, <2>2 DEF Before
<1> QED  BY <1>4

\* The members of a finite set can be put in that order.
LEMMA ArrangementExists ==
  ASSUME NEW O, IsFiniteSet(O), NEW at \in [O -> Places]
  PROVE  \E seq \in Injection(1 .. Cardinality(O), O) : Sorted(seq, Cardinality(O), at)
<1> DEFINE Arranged(T, n) == \E seq \in Injection(1 .. n, T) : Sorted(seq, n, at)
           P == {n \in Nat : \A T \in SUBSET O : Cardinality(T) = n => Arranged(T, n)}
<1>1. 0 \in P
  <2> SUFFICES ASSUME NEW T \in SUBSET O, Cardinality(T) = 0  PROVE  Arranged(T, 0)
    OBVIOUS
  <2> DEFINE none == [i \in 1 .. 0 |-> i]
  <2>1. \A i : i \notin 1 .. 0
    OBVIOUS
  <2>2. none \in [1 .. 0 -> T]
    BY <2>1
  <2>3. none \in Injection(1 .. 0, T)
    <3> HIDE DEF none
    <3> QED  BY <2>1, <2>2, Fun_IsInj
  <2>4. Sorted(none, 0, at)
    BY <2>1 DEF Sorted
  <2> QED  BY <2>3, <2>4
<1>2. ASSUME NEW n \in P  PROVE  n + 1 \in P
  <2>1. n \in Nat /\ n + 1 \in Nat /\ n + 1 # 0
    OBVIOUS
  <2> SUFFICES ASSUME NEW T \in SUBSET O, Cardinality(T) = n + 1  PROVE  Arranged(T, n + 1)
    BY <2>1
  <2>2. IsFiniteSet(T) /\ T # {}
    BY <2>1, FS_Subset, FS_EmptySet
  <2> DEFINE atT == [y \in T |-> at[y]]
  <2>3. PICK x \in T : \A y \in T : ~Before(at[x], at[y])
    <3>1. atT \in [T -> Places] /\ \A y \in T : atT[y] = at[y]
      OBVIOUS
    <3> HIDE DEF atT
    <3>2. \E x \in T : \A y \in T : ~Before(atT[x], atT[y])
      BY <2>2, <3>1, LastOf
    <3> QED  BY <3>1, <3>2
  <2> DEFINE U == T \ {x}
  <2>4. U \in SUBSET O /\ Cardinality(U) = n
    <3>1. Cardinality(U) = (n + 1) - 1
      BY <2>2, FS_RemoveElement
    <3> HIDE DEF U
    <3>2. Cardinality(U) = n
      BY <2>1, <3>1
    <3> QED  BY <3>2 DEF U
  <2>5. PICK seq \in Injection(1 .. n, U) : Sorted(seq, n, at)
    <3> HIDE DEF U
    <3> QED  BY <2>4
  <2>6. /\ seq \in [1 .. n -> U]
        /\ \A i, j \in 1 .. n : seq[i] = seq[j] => i = j
    BY Fun_InjectionProperties
  <2> DEFINE longer == [i \in 1 .. n + 1 |-> IF i = n + 1 THEN x ELSE seq[i]]
  <2>7. /\ \A i \in 1 .. n : longer[i] = seq[i] /\ seq[i] \in T /\ seq[i] # x
        /\ longer[n + 1] = x
        /\ \A i \in 1 .. n + 1 : i \in 1 .. n \/ i = n + 1
    BY <2>1, <2>6
  <2>8. longer \in [1 .. n + 1 -> T]
    BY <2>7
  <2> HIDE DEF longer, U
  <2>9. \A i, j \in 1 .. n + 1 : longer[i] = longer[j] => i = j
    BY <2>6, <2>7
  <2>10. longer \in Injection(1 .. n + 1, T)
    BY <2>8, <2>9, Fun_IsInj
  <2>11. ASSUME NEW i \in 1 .. n + 1, NEW j \in 1 .. n + 1, i < j
         PROVE  ~Before(at[longer[j]], at[longer[i]])
    <3>1. i \in 1 .. n
      BY <2>1, <2>11
    <3>2. CASE j = n + 1
      BY <2>3, <2>7, <3>1, <3>2
    <3>3. CASE j \in 1 .. n
      <4>1. ~Before(at[seq[j]], at[seq[i]])
        BY <2>5, <2>11, <3>1, <3>3 DEF Sorted
      <4> QED  BY <2>7, <3>1, <3>3, <4>1
    <3> QED  BY <2>7, <3>2, <3>3
  <2>12. Sorted(longer, n + 1, at)
    BY <2>11 DEF Sorted
  <2> QED  BY <2>10, <2>12
<1>3. P = Nat
  <2>1. P \in SUBSET Nat
    OBVIOUS
  <2> HIDE DEF P
  <2> QED  BY <1>1, <1>2, <2>1, SetInduction
<1>4. Cardinality(O) \in P
  <2>1. Cardinality(O) \in Nat
    BY FS_CardinalityType
  <2> HIDE DEF P
  <2> QED  BY <1>3, <2>1
<1>5. Arranged(O, Cardinality(O))
  <2> HIDE DEF Arranged
  <2> QED  BY <1>4
<1> QED  BY <1>5

\* Where the clock is never changed, an occurrence on a day takes some of it.
LEMMA OccurrenceTakesTime ==
  ASSUME ZoneFacts(zone), zone.saving = 0, rows \subseteq Shown,
         NEW day \in Int, NEW e \in occurrencesOn(day)
  PROVE  LET at == eventDayMinute(e, day)
         IN  at \in Places /\ 0 <= at.start /\ at.start < at.end /\ at.end <= Day
<1>1. /\ e.start \in Int /\ e.end \in Int /\ e.end - 1 \in Int /\ e.start < e.end
      /\ dateInZone(e.start) <= day /\ day <= dateInZone(e.end - 1)
  <2>1. e \in Shown /\ dateInZone(e.start) <= day /\ day <= dateInZone(e.end - 1)
    BY DEF occurrencesOn, eventSpan
  <2>2. e.start \in 0 .. LastChange /\ e.end \in 0 .. LastChange /\ e.start < e.end
    BY <2>1 DEF Shown, isValidChange
  <2> QED  BY <2>1, <2>2, DayLength
<1>2. /\ zone.standard \in Int
      /\ utcToLocalDateTime(e.start) = e.start + zone.standard
      /\ utcToLocalDateTime(e.end) = e.end + zone.standard
      /\ utcToLocalDateTime(e.end - 1) = (e.end - 1) + zone.standard
  BY <1>1 DEF ZoneFacts, utcToLocalDateTime, Offset
<1> DEFINE ds == dateInZone(e.start)  ms == minuteInZone(e.start)
           de == dateInZone(e.end)    me == minuteInZone(e.end)
           dl == dateInZone(e.end - 1) ml == minuteInZone(e.end - 1)
<1>3. /\ ds \in Int /\ ms \in 0 .. Day - 1 /\ utcToLocalDateTime(e.start) = ds * Day + ms
      /\ de \in Int /\ me \in 0 .. Day - 1 /\ utcToLocalDateTime(e.end) = de * Day + me
      /\ dl \in Int /\ ml \in 0 .. Day - 1 /\ utcToLocalDateTime(e.end - 1) = dl * Day + ml
  BY <1>1, LocalTime
<1>4. ds <= day /\ day <= dl
  BY <1>1
<1>5. eventDayMinute(e, day) = [start |-> IF ds < day THEN 0 ELSE ms, end |-> IF de > day THEN Day ELSE me]
  BY DEF eventDayMinute
<1> HIDE DEF ds, ms, de, me, dl, ml
<1>6. Day \in Nat \ {0} /\ ms \in Int /\ me \in Int /\ ml \in Int
      /\ 0 <= ms /\ ms < Day /\ 0 <= me /\ me < Day /\ 0 <= ml /\ ml < Day
  BY <1>3, DayLength
<1>7. e.start + zone.standard = ds * Day + ms /\ e.end + zone.standard = de * Day + me
      /\ e.end + zone.standard = dl * Day + ml + 1
  <2>1. dl * Day \in Int
    BY <1>3, <1>6
  <2> QED  BY <1>1, <1>2, <1>3, <1>6, <2>1
<1>8. de >= dl
  <2> SUFFICES ASSUME de < dl  PROVE  FALSE
    BY <1>3
  <2>1. de * Day + Day <= dl * Day /\ de * Day \in Int /\ dl * Day \in Int
    BY <1>3, <1>6
  <2> QED  BY <1>6, <1>7, <2>1
<1>9. ASSUME ~(de > day)  PROVE  me > 0 /\ (~(ds < day) => ms < me)
  <2>1. de = day /\ dl = day /\ day * Day \in Int
    BY <1>3, <1>4, <1>6, <1>8, <1>9
  <2>2. me = ml + 1
    BY <1>6, <1>7, <2>1
  <2>3. ASSUME ~(ds < day)  PROVE  ms < me
    <3>1. ds = day
      BY <1>3, <1>4, <2>3
    <3> QED  BY <1>1, <1>2, <1>6, <1>7, <2>1, <3>1
  <2> QED  BY <1>6, <2>2, <2>3
<1> QED  BY <1>5, <1>6, <1>9 DEF Places

\* Where the clock is never changed, an occurrence is on the first and the
\* last of its days, and its days are in order.
LEMMA OccurrenceHasADay ==
  ASSUME ZoneFacts(zone), rows \subseteq Shown, zone.saving = 0, NEW e \in rows,
         NEW d, d = dateInZone(e.start) \/ d = dateInZone(e.end - 1)
  PROVE  d \in Int /\ e \in occurrencesOn(d)
<1>1. /\ dateInZone(e.start) \in Int /\ dateInZone(e.end - 1) \in Int
      /\ dateInZone(e.start) <= dateInZone(e.end - 1)
  <2>1. e.start \in Int /\ e.end - 1 \in Int /\ e.start <= e.end - 1
    <3>1. e.start \in 0 .. LastChange /\ e.end \in 0 .. LastChange /\ e.start < e.end
      BY DEF Shown, isValidChange
    <3> QED  BY <3>1, DayLength
  <2> DEFINE a == e.start
             b == e.end - 1
  <2> HIDE DEF a, b
  <2>2. a \in Int /\ b \in Int /\ a <= b
    BY <2>1 DEF a, b
  <2>3. zone.standard \in Int /\ utcToLocalDateTime(a) = a + zone.standard
        /\ utcToLocalDateTime(b) = b + zone.standard
    BY <2>2 DEF ZoneFacts, utcToLocalDateTime, Offset
  <2>4. /\ dateInZone(a) \in Int /\ dateInZone(b) \in Int
        /\ dateInZone(b) < dateInZone(a) <=> utcToLocalDateTime(b) < dateInZone(a) * Day
        /\ utcToLocalDateTime(a) = dateInZone(a) * Day + minuteInZone(a)
        /\ minuteInZone(a) \in 0 .. Day - 1
    BY <2>2, LocalTime
  <2>5. ~(utcToLocalDateTime(b) < dateInZone(a) * Day)
    <3>1. dateInZone(a) * Day \in Int
      BY <2>4, DayLength
    <3> QED  BY <2>2, <2>3, <2>4, <3>1, DayLength
  <2>6. dateInZone(a) <= dateInZone(b)
    BY <2>4, <2>5
  <2> QED  BY <2>4, <2>6 DEF a, b
<1> QED  BY <1>1 DEF occurrencesOn, eventSpan

\* The occurrences of a day can be sorted.
LEMMA DaysCanBeSorted ==
  ASSUME ZoneFacts(zone), rows \subseteq Shown, IsFiniteSet(rows), zone.saving = 0, NEW d \in Int
  PROVE  sortedOccurrences(d) # {}
<1> DEFINE O == occurrencesOn(d)
           N == Cardinality(O)
           at == [e \in O |-> eventDayMinute(e, d)]
<1>1. IsFiniteSet(O)
  <2>1. O \subseteq rows
    BY DEF occurrencesOn
  <2> HIDE DEF O
  <2> QED  BY <2>1, FS_Subset
<1>2. at \in [O -> Places]
  BY OccurrenceTakesTime
<1>3. PICK seq \in Injection(1 .. N, O) : Sorted(seq, N, at)
  <2> HIDE DEF O, at
  <2> QED  BY <1>1, <1>2, ArrangementExists
<1>4. seq \in [1 .. N -> O] /\ DOMAIN seq = 1 .. N
  <2>1. seq \in [1 .. N -> O]
    BY Fun_InjectionProperties
  <2> QED  BY <2>1
<1>5. ASSUME NEW i \in DOMAIN seq, NEW j \in DOMAIN seq, i < j
      PROVE  ~Before(eventDayMinute(seq[j], d), eventDayMinute(seq[i], d))
  <2>1. seq[i] \in O /\ seq[j] \in O /\ ~Before(at[seq[j]], at[seq[i]])
    <3> HIDE DEF O, at
    <3> QED  BY <1>3, <1>4, <1>5 DEF Sorted
  <2> QED  BY <2>1
<1>6. seq \in sortedOccurrences(d)
  BY <1>5 DEF Before, sortedOccurrences
<1> QED  BY <1>6

\* The part of ArithmeticIsExact on lanes.
LEMMA LanesHold ==
  ASSUME ZoneFacts(zone), rows \subseteq Shown, IsFiniteSet(rows)
  PROVE  LanesAreFewest
<1> SUFFICES ASSUME zone.saving = 0,
                    NEW d \in UNION {{dateInZone(e.start), dateInZone(e.end - 1)} : e \in rows}
             PROVE  /\ sortedOccurrences(d) # {}
                    /\ \A seq \in sortedOccurrences(d) :
                         LET layout == layoutWeekDay(seq, d)
                             at(i) == eventDayMinute(seq[i], d)
                             together(m) == {i \in DOMAIN seq : at(i).start <= m /\ m < at(i).end}
                         IN  /\ \A m \in 0 .. Day - 1 : \A i, j \in together(m) :
                                  i # j => layout.lane[i] # layout.lane[j]
                             /\ globalLaneCount({Len(layout.laneEnds)})
                                  = Max({Cardinality(together(m)) : m \in 0 .. Day - 1})
  BY DEF LanesAreFewest
<1>1. PICK e \in rows : d = dateInZone(e.start) \/ d = dateInZone(e.end - 1)
  OBVIOUS
<1>2. d \in Int /\ e \in occurrencesOn(d)
  BY <1>1, OccurrenceHasADay
<1>3. sortedOccurrences(d) # {}
  BY <1>2, DaysCanBeSorted
<1> SUFFICES ASSUME NEW seq \in sortedOccurrences(d)
             PROVE  LET layout == layoutWeekDay(seq, d)
                        at(i) == eventDayMinute(seq[i], d)
                        together(m) == {i \in DOMAIN seq : at(i).start <= m /\ m < at(i).end}
                    IN  /\ \A m \in 0 .. Day - 1 : \A i, j \in together(m) :
                             i # j => layout.lane[i] # layout.lane[j]
                        /\ globalLaneCount({Len(layout.laneEnds)})
                             = Max({Cardinality(together(m)) : m \in 0 .. Day - 1})
  BY <1>3
<1> DEFINE O == occurrencesOn(d)
           N == Cardinality(O)
           at == [i \in 1 .. N |-> eventDayMinute(seq[i], d)]
           layout == layoutWeekDay(seq, d)
<1>4. IsFiniteSet(O) /\ N \in Nat \ {0}
  <2>1. O \subseteq rows /\ e \in O
    BY <1>2 DEF occurrencesOn
  <2> HIDE DEF O
  <2>2. IsFiniteSet(O) /\ O # {}
    BY <2>1, FS_Subset
  <2> QED  BY <2>2, FS_CardinalityType, FS_EmptySet
<1>5. /\ seq \in [1 .. N -> O] /\ DOMAIN seq = 1 .. N
      /\ \A i, j \in 1 .. N : i < j => ~(eventDayMinute(seq[j], d).start < eventDayMinute(seq[i], d).start)
  <2>1. /\ seq \in Injection(1 .. N, O)
        /\ \A i, j \in DOMAIN seq : i < j =>
             ~(eventDayMinute(seq[j], d).start < eventDayMinute(seq[i], d).start)
    BY DEF sortedOccurrences
  <2>2. seq \in [1 .. N -> O]
    BY <2>1, Fun_InjectionProperties
  <2> QED  BY <2>1, <2>2
<1> HIDE DEF N, O
<1>6. Len(seq) = N
  BY <1>4, <1>5
<1>7. \A i \in 1 .. N : /\ at[i] = eventDayMinute(seq[i], d) /\ at[i] \in Places
                        /\ 0 <= at[i].start /\ at[i].start < at[i].end /\ at[i].end <= Day
  <2> SUFFICES ASSUME NEW i \in 1 .. N
               PROVE  LET p == eventDayMinute(seq[i], d)
                      IN  p \in Places /\ 0 <= p.start /\ p.start < p.end /\ p.end <= Day
    OBVIOUS
  <2>1. seq[i] \in occurrencesOn(d)
    BY <1>5 DEF O
  <2> QED  BY <1>2, <2>1, OccurrenceTakesTime
<1>8. InOrder(at, N)
  <2>1. at \in [1 .. N -> Places]
    BY <1>7
  <2>2. ASSUME NEW i \in 1 .. N, NEW j \in 1 .. N, i < j
        PROVE  at[i].start <= at[j].start
    <3>1. ~(at[j].start < at[i].start)
      BY <1>5, <1>7, <2>2
    <3>2. at[i].start \in Int /\ at[j].start \in Int
      <4> HIDE DEF at
      <4> QED  BY <1>7 DEF Places
    <3> HIDE DEF at
    <3> QED  BY <3>1, <3>2
  <2> HIDE DEF at
  <2> QED  BY <1>7, <2>1, <2>2 DEF InOrder
<1>9. layout \in Layouts /\ LanesFollow(layout, N, at)
  <2>1. at = [i \in 1 .. N |-> eventDayMinute(seq[i], d)]
    OBVIOUS
  <2> HIDE DEF at
  <2> QED  BY <1>4, <1>6, <1>8, <2>1, LayoutFollows
<1> DEFINE together(m) == {i \in 1 .. N : at[i].start <= m /\ m < at[i].end}
           T(m) == {i \in DOMAIN seq : /\ eventDayMinute(seq[i], d).start <= m
                                       /\ m < eventDayMinute(seq[i], d).end}
<1>10. /\ \A m \in 0 .. Day - 1 : \A i, j \in together(m) : i # j => layout.lane[i] # layout.lane[j]
       /\ Len(layout.laneEnds) \in Nat \ {0}
       /\ Max({Cardinality(together(m)) : m \in 0 .. Day - 1}) = Len(layout.laneEnds)
  <2> HIDE DEF at, layout
  <2> QED  BY <1>4, <1>8, <1>9, LanesAreCounted
<1>11. \A m : T(m) = together(m)
  BY <1>5, <1>7
<1>12. globalLaneCount({Len(layout.laneEnds)}) = Len(layout.laneEnds)
  <2> DEFINE lanes == Len(layout.laneEnds)
  <2> HIDE DEF lanes
  <2>1. lanes \in Nat \ {0}
    BY <1>10 DEF lanes
  <2>2. {1} \cup {lanes} \in SUBSET Int /\ lanes \in {1} \cup {lanes}
        /\ \A y \in {1} \cup {lanes} : y <= lanes
    BY <2>1
  <2>3. Max({1} \cup {lanes}) = lanes
    BY <2>2, GreatestIs
  <2> QED  BY <2>3 DEF globalLaneCount, lanes
<1>13. {Cardinality(T(m)) : m \in 0 .. Day - 1} = {Cardinality(together(m)) : m \in 0 .. Day - 1}
  <2> HIDE DEF T, together
  <2> QED  BY <1>11
<1>14. \A m \in 0 .. Day - 1 : \A i, j \in T(m) : i # j => layout.lane[i] # layout.lane[j]
  <2> HIDE DEF T, together
  <2> QED  BY <1>10, <1>11
<1> HIDE DEF layout
<1> QED  BY <1>10, <1>12, <1>13, <1>14 DEF layout

-------------------------------------------------------------------------------
\* What holds of a page whatever it shows, beyond the inputs that a run has.
ExactEverywhere ==
  zone # NoZone =>
    /\ \A l \in Int : localDateTimeToUtc(l) = {t \in Int : utcToLocalDateTime(t) = l}
    /\ \A date \in Int : isCivilDate(date)
    /\ DaysPartitionTime /\ WindowsShowTheirPeriod
    /\ DropsLandOn(Int, Int) /\ LanesAreFewest

CalendarInv ==
  zone \in Zones \cup {NoZone} /\ rows \subseteq Shown /\ IsFiniteSet(rows)

\* The calendar agrees with its reference definitions in every zone whose
\* offsets are no longer than a day and whose changes are no larger and no
\* closer than six hours: local times of any day, dates, windows and drops
\* whatever events the page shows, and the lanes of any number of them.
THEOREM CalendarIsExact == ArithmeticSpec => []ArithmeticIsExact /\ []ExactEverywhere
<1>1. ArithmeticInit => CalendarInv
  BY FS_EmptySet DEF ArithmeticInit, CalendarInv
<1>2. CalendarInv /\ [ArithmeticNext]_arithVars => CalendarInv'
  <2> SUFFICES ASSUME CalendarInv, [ArithmeticNext]_arithVars  PROVE  CalendarInv'
    OBVIOUS
  <2>1. CASE SetZone
    BY <2>1 DEF CalendarInv, SetZone
  <2>2. CASE ShowEvent
    <3>1. PICK e \in Shown \ rows : rows' = rows \cup {e}
      BY <2>2 DEF ShowEvent
    <3>2. IsFiniteSet(rows \cup {e})
      BY FS_AddElement DEF CalendarInv
    <3> QED  BY <2>2, <3>1, <3>2 DEF CalendarInv, ShowEvent, Shown
  <2>3. CASE UNCHANGED arithVars
    BY <2>3 DEF CalendarInv, arithVars, Shown
  <2> QED  BY <2>1, <2>2, <2>3 DEF ArithmeticNext
<1>3. CalendarInv => ArithmeticIsExact /\ ExactEverywhere
  <2> SUFFICES ASSUME CalendarInv, zone # NoZone
               PROVE  /\ LocalTimesAreTrue /\ DropsLandWhereTheyPoint
                      /\ \A l \in Int : localDateTimeToUtc(l) = {t \in Int : utcToLocalDateTime(t) = l}
                      /\ \A date \in Int : isCivilDate(date)
                      /\ DaysPartitionTime /\ WindowsShowTheirPeriod
                      /\ DropsLandOn(Int, Int) /\ LanesAreFewest
    BY DEF ArithmeticIsExact, ExactEverywhere
  <2>1. ZoneFacts(zone) /\ rows \subseteq Shown /\ IsFiniteSet(rows)
    BY ZonesAreSound DEF CalendarInv
  <2>2. DropsLandWhereTheyPoint
    <3>1. (LastChange + Day) \div Day \in Int
      BY DayLength, Division
    <3>2. -1 .. (LastChange + Day) \div Day \in SUBSET Int /\ {-1, 1, Quarter, Day - 1} \in SUBSET Int
      BY <3>1, DayLength, ArithmeticConstants
    <3> QED  BY <2>1, <3>2, DropsHold DEF DropsLandWhereTheyPoint
  <2>3. /\ \A l \in Int : localDateTimeToUtc(l) = {t \in Int : utcToLocalDateTime(t) = l}
        /\ \A date \in Int : isCivilDate(date)
    BY <2>1, ExactInstants, DatesExist
  <2>4. DropsLandOn(Int, Int)
    BY <2>1, DropsHold
  <2> QED  BY <2>1, <2>2, <2>3, <2>4, LocalTimesHold, DaysHold, WindowsHold, LanesHold
<1> QED  BY <1>1, <1>2, <1>3, PTL DEF ArithmeticSpec
===============================================================================
