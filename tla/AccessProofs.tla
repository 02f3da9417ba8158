---------------------------- MODULE AccessProofs ----------------------------
(***************************************************************************)
(* What an actor sees: business time is counted to the minute, for any     *)
(* calendar, any length of the day, the week and the minute, and any two   *)
(* instants within the guard of the loop; every read agrees on what there  *)
(* is for an actor, for any definitions whose looked-up conditions are     *)
(* plain, any actors, any records and any condition of a caller; and the   *)
(* parser of conditions makes of any text the trees that the grammar       *)
(* derives.                                                                *)
(***************************************************************************)
EXTENDS Access, TLAPS, FiniteSetTheorems, SequenceTheorems, WellFoundedInduction

-----------------------------------------------------------------------------
(* Numbers. *)
LEMMA LeastNumber ==
  ASSUME NEW S \in SUBSET Nat, S # {}
  PROVE  \E x \in S : \A y \in S : x <= y
<1> DEFINE R == OpToRel(<, Nat)
<1>1. \A x, y \in Nat : y < x => <<y, x>> \in R
  BY DEF OpToRel
<1>2. IsWellFoundedOn(R, Nat)
  BY NatLessThanWellFounded
<1> HIDE DEF R
<1>3. PICK x \in S : \A y \in S : ~ (<<y, x>> \in R)
  BY <1>2, WFMin
<1>4. x \in Nat /\ \A y \in S : y \in Nat /\ ~(y < x)
  BY <1>1, <1>3
<1> QED
  BY <1>4

LEMMA ProductGrows ==
  ASSUME NEW a \in Int, NEW b \in Int, a <= b, NEW k \in Nat
  PROVE  a * k \in Int /\ b * k \in Int /\ a * k <= b * k
<1>1. a * k \in Int /\ b * k \in Int /\ (b - a) * k \in Int
  OBVIOUS
<1>2. (b - a) * k >= 0
  OBVIOUS
<1>3. (b - a) * k = b * k - a * k
  OBVIOUS
<1> QED
  BY <1>1, <1>2, <1>3

LEMMA Division ==
  ASSUME NEW n \in Int, NEW k \in Nat \ {0}
  PROVE  /\ n \div k \in Int /\ n % k \in 0..(k - 1)
         /\ n = (n \div k) * k + (n % k)
OBVIOUS

LEMMA Quotient ==
  ASSUME NEW n \in Int, NEW k \in Nat \ {0}, NEW q \in Int,
         q * k <= n, n < q * k + k
  PROVE  n \div k = q
<1> DEFINE p == n \div k
           r == n % k
<1>1. p \in Int /\ r \in 0..(k - 1) /\ n = p * k + r
  BY Division
<1> HIDE DEF p, r
<1>2. q * k \in Int /\ p * k \in Int
  BY <1>1
<1>3. CASE p < q
  <2>1. (p + 1) * k <= q * k
    BY <1>1, <1>3, ProductGrows
  <2>2. (p + 1) * k = p * k + k
    BY <1>1
  <2> QED BY <1>1, <1>2, <2>1, <2>2
<1>4. CASE q < p
  <2>1. (q + 1) * k <= p * k
    BY <1>1, <1>4, ProductGrows
  <2>2. (q + 1) * k = q * k + k
    BY <1>1
  <2> QED BY <1>1, <1>2, <2>1, <2>2
<1> QED
  BY <1>1, <1>3, <1>4 DEF p

LEMMA QuotientBound ==
  ASSUME NEW n \in Int, NEW k \in Nat \ {0}, NEW q \in Int
  PROVE  n \div k >= q <=> n >= q * k
<1> DEFINE p == n \div k
           r == n % k
<1>1. p \in Int /\ r \in 0..(k - 1) /\ n = p * k + r
  BY Division
<1> HIDE DEF p, r
<1>2. q * k \in Int /\ p * k \in Int
  BY <1>1
<1>3. CASE p < q
  <2>1. (p + 1) * k <= q * k
    BY <1>1, <1>3, ProductGrows
  <2>2. (p + 1) * k = p * k + k
    BY <1>1
  <2> QED BY <1>1, <1>2, <1>3, <2>1, <2>2 DEF p
<1>4. CASE q <= p
  <2>1. q * k <= p * k
    BY <1>1, <1>4, ProductGrows
  <2> QED BY <1>1, <1>2, <1>4, <2>1 DEF p
<1> QED
  BY <1>1, <1>3, <1>4

-----------------------------------------------------------------------------
(* Days. *)
TicksOn(c, d, from, to) == {t \in WorkingTicks(c, from, to) : Day(t) = d}

LEMMA DaysHaveTicks ==
  /\ TicksPerMinute \in Nat \ {0} /\ MinutesPerDay \in Nat \ {0} /\ MaxDays \in Nat \ {0}
  /\ TicksPerDay \in Nat \ {0}
BY CalendarsAssumption DEF TicksPerDay

LEMMA DayIs ==
  ASSUME NEW t \in Int
  PROVE  /\ Day(t) \in Int /\ t % TicksPerDay \in 0..(TicksPerDay - 1)
         /\ t = Day(t) * TicksPerDay + (t % TicksPerDay)
BY DaysHaveTicks, Division DEF Day

LEMMA DayOf ==
  ASSUME NEW t \in Int, NEW d \in Int,
         d * TicksPerDay <= t, t < d * TicksPerDay + TicksPerDay
  PROVE  Day(t) = d
BY DaysHaveTicks, Quotient DEF Day

LEMMA DaysGrow ==
  ASSUME NEW t \in Int, NEW u \in Int, t <= u
  PROVE  Day(t) <= Day(u)
<1> DEFINE r == t % TicksPerDay
<1>1. Day(t) \in Int /\ r \in 0..(TicksPerDay - 1) /\ t = Day(t) * TicksPerDay + r
  BY DayIs
<1> HIDE DEF r
<1>2. Day(t) * TicksPerDay \in Int /\ Day(t) * TicksPerDay <= t
  BY <1>1, DaysHaveTicks
<1>3. u >= Day(t) * TicksPerDay
  BY <1>2
<1>4. u \div TicksPerDay >= Day(t)
  BY <1>1, <1>3, QuotientBound, DaysHaveTicks
<1> QED
  BY <1>4 DEF Day

(* The working ticks of a day are those between its two ends. *)
Opens(c, d, from) == Later(d * TicksPerDay + c.startMin * TicksPerMinute, from)
Closes(c, d, to) == Earlier(d * TicksPerDay + c.endMin * TicksPerMinute, to)

LEMMA TicksOfDay ==
  ASSUME NEW c, HoursInDay(c), NEW d \in Int, NEW from \in Int, NEW to \in Int
  PROVE  /\ Opens(c, d, from) \in Int /\ Closes(c, d, to) \in Int
         /\ TicksOn(c, d, from, to) =
              IF IsWorkday(c, d) THEN Opens(c, d, from)..(Closes(c, d, to) - 1) ELSE {}
<1> DEFINE D == d * TicksPerDay
           S == c.startMin * TicksPerMinute
           E == c.endMin * TicksPerMinute
<1>1. c.startMin \in 0..MinutesPerDay /\ c.endMin \in 0..MinutesPerDay
  BY DEF HoursInDay
<1>2. D \in Int /\ S \in Int /\ E \in Int /\ 0 <= S /\ E <= TicksPerDay
  <2>1. c.startMin * TicksPerMinute >= 0 * TicksPerMinute
    BY <1>1, DaysHaveTicks, ProductGrows
  <2>2. c.endMin * TicksPerMinute <= MinutesPerDay * TicksPerMinute
    BY <1>1, DaysHaveTicks, ProductGrows
  <2>3. MinutesPerDay * TicksPerMinute = TicksPerDay
    BY DaysHaveTicks DEF TicksPerDay
  <2>4. D \in Int /\ S \in Int /\ E \in Int
    BY <1>1, DaysHaveTicks
  <2>5. 0 * TicksPerMinute = 0
    BY DaysHaveTicks
  <2> QED BY <2>1, <2>2, <2>3, <2>4, <2>5
<1>3. Opens(c, d, from) = Later(D + S, from) /\ Closes(c, d, to) = Earlier(D + E, to)
  BY DEF Opens, Closes
<1>4. ASSUME NEW t \in Int, Day(t) = d
      PROVE  (t % TicksPerDay) \div TicksPerMinute \in c.startMin..(c.endMin - 1)
               <=> D + S <= t /\ t < D + E
  <2> DEFINE r == t % TicksPerDay
             m == r \div TicksPerMinute
  <2>1. r \in Int /\ t = D + r
    BY <1>4, DayIs, DaysHaveTicks
  <2> HIDE DEF r
  <2>2. m \in Int /\ (m >= c.startMin <=> r >= S) /\ (m >= c.endMin <=> r >= E)
    <3>1. m \in Int
      BY <2>1, DaysHaveTicks, Division
    <3>2. m >= c.startMin <=> r >= S
      BY <1>1, <2>1, DaysHaveTicks, QuotientBound
    <3>3. m >= c.endMin <=> r >= E
      BY <1>1, <2>1, DaysHaveTicks, QuotientBound
    <3> QED BY <3>1, <3>2, <3>3
  <2> HIDE DEF m, D, S, E
  <2>3. m \in c.startMin..(c.endMin - 1) <=> D + S <= t /\ t < D + E
    BY <1>1, <1>2, <2>1, <2>2
  <2> QED BY <2>3 DEF m, r
<1>5. ASSUME NEW t \in Int, D + S <= t, t < D + E
      PROVE  Day(t) = d
  <2> HIDE DEF S, E
  <2>1. d * TicksPerDay <= t /\ t < d * TicksPerDay + TicksPerDay
    BY <1>2, <1>5, DaysHaveTicks
  <2> QED BY <2>1, DayOf
<1>6. TicksOn(c, d, from, to) =
        {t \in from..(to - 1) : IsWorkday(c, d) /\ D + S <= t /\ t < D + E}
  BY <1>4, <1>5 DEF TicksOn, WorkingTicks, IsWorkday
<1> HIDE DEF D, S, E
<1>7. Later(D + S, from) \in Int /\ Earlier(D + E, to) \in Int
  BY <1>2 DEF Later, Earlier
<1>8. ASSUME NEW t
      PROVE  t \in Later(D + S, from)..(Earlier(D + E, to) - 1)
               <=> t \in from..(to - 1) /\ D + S <= t /\ t < D + E
  BY <1>2 DEF Later, Earlier
<1> QED
  BY <1>3, <1>6, <1>7, <1>8

LEMMA WholeMinutes ==
  ASSUME NEW n \in Nat, NEW k \in Nat \ {0}
  PROVE  /\ n \div k \in Nat
         /\ (n \div k) * k <= n /\ n <= (n \div k) * k + k - 1
<1> DEFINE p == n \div k
           r == n % k
<1>1. p \in Int /\ r \in 0..(k - 1) /\ n = p * k + r
  BY Division
<1>2. p >= 0
  <2>1. n >= 0 * k
    OBVIOUS
  <2> QED BY <2>1, QuotientBound
<1> HIDE DEF p, r
<1>3. p * k \in Int
  BY <1>1
<1>4. p \in Nat /\ p * k <= n /\ n <= p * k + k - 1
  BY <1>1, <1>2, <1>3
<1> QED
  BY <1>4 DEF p

LEMMA ExactMinutes ==
  ASSUME NEW m \in Int, NEW k \in Nat \ {0}
  PROVE  (m * k) \div k = m
<1>1. m * k \in Int
  OBVIOUS
<1>2. m * k <= m * k /\ m * k < m * k + k
  BY <1>1
<1> QED
  BY <1>1, <1>2, Quotient

(* A day loses less than a minute, and nothing if it lies between the two  *)
(* instants.                                                               *)
LEMMA DayCounts ==
  ASSUME NEW c, HoursInDay(c), NEW d \in Int, NEW from \in Int, NEW to \in Int
  PROVE  LET n == MinutesOn(c, d, from, to)
             T == TicksOn(c, d, from, to)
         IN  /\ n \in Nat /\ IsFiniteSet(T) /\ Cardinality(T) \in Nat
             /\ n * TicksPerMinute <= Cardinality(T)
             /\ Cardinality(T) <= n * TicksPerMinute + TicksPerMinute - 1
             /\ from <= d * TicksPerDay /\ (d + 1) * TicksPerDay <= to
                  => Cardinality(T) = n * TicksPerMinute
<1> DEFINE s == Opens(c, d, from)
           e == Closes(c, d, to)
           n == MinutesOn(c, d, from, to)
           T == TicksOn(c, d, from, to)
<1>1. s \in Int /\ e \in Int /\ T = IF IsWorkday(c, d) THEN s..(e - 1) ELSE {}
  BY TicksOfDay
<1>2. n = IF IsWorkday(c, d) /\ e > s THEN (e - s) \div TicksPerMinute ELSE 0
  BY DEF MinutesOn, Opens, Closes
<1>3. from <= d * TicksPerDay /\ (d + 1) * TicksPerDay <= to
        => e - s = (c.endMin - c.startMin) * TicksPerMinute
  <2> HAVE from <= d * TicksPerDay /\ (d + 1) * TicksPerDay <= to
  <2>1. c.startMin \in 0..MinutesPerDay /\ c.endMin \in 0..MinutesPerDay
    BY DEF HoursInDay
  <2> DEFINE D == d * TicksPerDay
             S == c.startMin * TicksPerMinute
             E == c.endMin * TicksPerMinute
  <2>2. D \in Int /\ S \in Int /\ E \in Int
    BY <2>1, DaysHaveTicks
  <2>3. (c.endMin - c.startMin) * TicksPerMinute = E - S
    BY <2>1, DaysHaveTicks
  <2>4. S >= 0 /\ E <= TicksPerDay
    <3>1. 0 * TicksPerMinute <= S /\ E <= MinutesPerDay * TicksPerMinute
      BY <2>1, DaysHaveTicks, ProductGrows
    <3>2. 0 * TicksPerMinute = 0 /\ MinutesPerDay * TicksPerMinute = TicksPerDay
      BY DaysHaveTicks DEF TicksPerDay
    <3> QED BY <3>1, <3>2
  <2>5. (d + 1) * TicksPerDay = D + TicksPerDay
    BY DaysHaveTicks
  <2>6. s = Later(D + S, from) /\ e = Earlier(D + E, to)
    BY DEF Opens, Closes
  <2>7. from <= D /\ D + TicksPerDay <= to
    BY <2>5
  <2> HIDE DEF D, S, E, s, e
  <2>8. s = D + S /\ e = D + E
    <3>1. from <= D + S /\ D + E <= to
      BY <2>2, <2>4, <2>7, DaysHaveTicks
    <3>2. s = D + S
      BY <2>2, <2>6, <3>1 DEF Later
    <3>3. e = D + E
      BY <2>2, <2>6, <3>1 DEF Earlier
    <3> QED BY <3>2, <3>3
  <2> QED BY <2>2, <2>3, <2>8
<1> HIDE DEF s, e, n, T
<1>4. CASE IsWorkday(c, d) /\ e > s
  <2>1. T = s..(e - 1) /\ n = (e - s) \div TicksPerMinute /\ e - s \in Nat
    BY <1>1, <1>2, <1>4
  <2>2. IsFiniteSet(T) /\ Cardinality(T) = e - s
    <3>1. s \in Int /\ e - 1 \in Int /\ ~(s > e - 1) /\ (e - 1) - s + 1 = e - s
      BY <1>1, <1>4
    <3> QED BY <2>1, <3>1, FS_Interval
  <2>3. /\ n \in Nat /\ n * TicksPerMinute <= e - s
        /\ e - s <= n * TicksPerMinute + TicksPerMinute - 1
    BY <2>1, DaysHaveTicks, WholeMinutes
  <2>4. from <= d * TicksPerDay /\ (d + 1) * TicksPerDay <= to => e - s = n * TicksPerMinute
    <3>1. c.endMin - c.startMin \in Int
      BY DEF HoursInDay
    <3>2. ((c.endMin - c.startMin) * TicksPerMinute) \div TicksPerMinute = c.endMin - c.startMin
      BY <3>1, DaysHaveTicks, ExactMinutes
    <3> QED BY <1>3, <2>1, <3>2
  <2> QED BY <2>1, <2>2, <2>3, <2>4 DEF n, T
<1>5. CASE ~(IsWorkday(c, d) /\ e > s)
  <2>1. T = {} /\ n = 0
    BY <1>1, <1>2, <1>5
  <2>2. IsFiniteSet(T) /\ Cardinality(T) = 0
    BY <2>1, FS_EmptySet
  <2>3. n * TicksPerMinute = 0
    BY <2>1, DaysHaveTicks
  <2>4. /\ n \in Nat /\ n * TicksPerMinute <= Cardinality(T)
        /\ Cardinality(T) <= n * TicksPerMinute + TicksPerMinute - 1
        /\ Cardinality(T) = n * TicksPerMinute
    BY <2>1, <2>2, <2>3, DaysHaveTicks
  <2> QED BY <2>2, <2>4 DEF n, T
<1> QED
  BY <1>4, <1>5

-----------------------------------------------------------------------------
(* The loop over the days. *)
IsSum(c, first, last, from, to, f) ==
  f = [d \in (first - 1)..last |->
         IF d < first THEN 0 ELSE f[d - 1] + MinutesOn(c, d, from, to)]

LEMMA SumExists ==
  ASSUME NEW c, NEW first \in Int, NEW from, NEW to, NEW n \in Nat
  PROVE  \E f : IsSum(c, first, first - 1 + n, from, to, f)
<1> DEFINE Bad == {m \in Nat : ~ \E f : IsSum(c, first, first - 1 + m, from, to, f)}
           Step(f, d) == IF d < first THEN 0 ELSE f[d - 1] + MinutesOn(c, d, from, to)
<1> SUFFICES ASSUME Bad # {}
             PROVE  FALSE
  OBVIOUS
<1>1. PICK m \in Bad : \A x \in Bad : m <= x
  <2>1. Bad \in SUBSET Nat
    OBVIOUS
  <2> HIDE DEF Bad
  <2> QED BY <2>1, LeastNumber
<1>2. m # 0
  <2> DEFINE g == [d \in (first - 1)..(first - 1 + 0) |-> 0]
  <2>1. g = [d \in (first - 1)..(first - 1 + 0) |-> Step(g, d)]
    OBVIOUS
  <2> HIDE DEF g
  <2> QED BY <1>1, <2>1 DEF IsSum
<1>3. PICK g : IsSum(c, first, first - 1 + (m - 1), from, to, g)
  <2>1. m - 1 \in Nat /\ m - 1 \notin Bad
    BY <1>1, <1>2
  <2> QED BY <2>1
<1> DEFINE last == first - 1 + m
           h == [d \in (first - 1)..last |-> IF d < last THEN g[d] ELSE Step(g, d)]
<1>4. ASSUME NEW d \in (first - 1)..last
      PROVE  h[d] = Step(h, d)
  <2>1. m \in Nat /\ last \in Int /\ d \in Int
    BY <1>1
  <2>2. d >= first => d - 1 \in (first - 1)..last /\ d - 1 < last
    BY <2>1
  <2>3. Step(h, d) = Step(g, d)
    BY <2>2
  <2>4. d < last => g[d] = Step(g, d)
    <3>1. d < last => d \in (first - 1)..(first - 1 + (m - 1))
      BY <2>1
    <3>2. g = [x \in (first - 1)..(first - 1 + (m - 1)) |-> Step(g, x)]
      BY <1>3 DEF IsSum
    <3> HIDE DEF Step
    <3> QED BY <3>1, <3>2
  <2> QED BY <2>3, <2>4
<1>5. h = [d \in (first - 1)..last |-> Step(h, d)]
  <2>1. h = [d \in (first - 1)..last |-> h[d]]
    OBVIOUS
  <2> HIDE DEF h, Step
  <2> QED BY <1>4, <2>1
<1>6. IsSum(c, first, last, from, to, h)
  <2> HIDE DEF h
  <2> QED BY <1>5 DEF IsSum
<1> QED
  <2> HIDE DEF h
  <2> QED BY <1>1, <1>6

LEMMA SumDaysIs ==
  ASSUME NEW c, NEW first \in Int, NEW last \in Int, first - 1 <= last, NEW from, NEW to
  PROVE  \E f : IsSum(c, first, last, from, to, f) /\ SumDays(c, first, last, from, to) = f[last]
<1> DEFINE n == last - (first - 1)
<1>1. n \in Nat /\ first - 1 + n = last
  OBVIOUS
<1>2. \E f : IsSum(c, first, last, from, to, f)
  <2> HIDE DEF n
  <2>1. \E f : IsSum(c, first, first - 1 + n, from, to, f)
    BY <1>1, SumExists
  <2> QED BY <1>1, <2>1
<1> DEFINE sum == CHOOSE f : IsSum(c, first, last, from, to, f)
<1>3. IsSum(c, first, last, from, to, sum)
  BY <1>2
<1>4. SumDays(c, first, last, from, to) = sum[last]
  BY DEF SumDays, IsSum
<1> QED
  BY <1>3, <1>4

(* Every day loses less than a minute, and only the first and the last do. *)
LEMMA MinutesAreCounted ==
  ASSUME NEW c, HoursInDay(c), NEW from \in Nat, NEW to \in Nat, from < to,
         NEW f, IsSum(c, Day(from), Day(to - 1), from, to, f),
         NEW k \in (Day(from) - 1)..Day(to - 1)
  PROVE  LET A == {t \in WorkingTicks(c, from, to) : Day(t) <= k}
             lost == IF k < Day(from) THEN 0
                     ELSE IF k < Day(to - 1) THEN TicksPerMinute - 1
                     ELSE 2 * (TicksPerMinute - 1)
         IN  /\ f[k] \in Nat /\ IsFiniteSet(A) /\ Cardinality(A) \in Nat
             /\ f[k] * TicksPerMinute <= Cardinality(A)
             /\ Cardinality(A) <= f[k] * TicksPerMinute + lost
<1> DEFINE F == Day(from)
           L == Day(to - 1)
           A(x) == {t \in WorkingTicks(c, from, to) : Day(t) <= x}
           lost(x) == IF x < F THEN 0
                      ELSE IF x < L THEN TicksPerMinute - 1 ELSE 2 * (TicksPerMinute - 1)
           Good(x) == /\ f[x] \in Nat /\ IsFiniteSet(A(x)) /\ Cardinality(A(x)) \in Nat
                      /\ f[x] * TicksPerMinute <= Cardinality(A(x))
                      /\ Cardinality(A(x)) <= f[x] * TicksPerMinute + lost(x)
           Bad == {n \in Nat : F - 1 + n <= L /\ ~Good(F - 1 + n)}
<1>1. F \in Int /\ L \in Int /\ F <= L
  <2>1. from \in Int /\ to - 1 \in Int /\ from <= to - 1
    OBVIOUS
  <2> QED BY <2>1, DayIs, DaysGrow
<1>2. ASSUME NEW x \in (F - 1)..L
      PROVE  f[x] = IF x < F THEN 0 ELSE f[x - 1] + MinutesOn(c, x, from, to)
  BY <1>1, <1>2 DEF IsSum
<1>3. ASSUME NEW t \in WorkingTicks(c, from, to)
      PROVE  t \in Int /\ from <= t /\ t <= to - 1 /\ Day(t) \in Int /\ F <= Day(t) /\ Day(t) <= L
  <2>1. t \in Int /\ from <= t /\ t <= to - 1
    BY DEF WorkingTicks
  <2> QED BY <2>1, DayIs, DaysGrow
<1> SUFFICES Good(k)
  OBVIOUS
<1> SUFFICES ASSUME Bad # {}
             PROVE  FALSE
  <2>1. k - (F - 1) \in Nat /\ F - 1 + (k - (F - 1)) = k /\ k <= L
    BY <1>1
  <2>2. k - (F - 1) \notin Bad => Good(k)
    <3> HIDE DEF Good
    <3> QED BY <2>1
  <2> HIDE DEF Bad, Good
  <2> QED BY <2>2
<1>4. PICK n \in Bad : \A x \in Bad : n <= x
  <2>1. Bad \in SUBSET Nat
    OBVIOUS
  <2> HIDE DEF Bad
  <2> QED BY <2>1, LeastNumber
<1> DEFINE y == F - 1 + n
<1>5. n \in Nat /\ y \in (F - 1)..L /\ y \in Int /\ ~Good(y)
  <2> HIDE DEF Good, F, L
  <2> QED BY <1>1, <1>4
<1>6. CASE n = 0
  <2>1. y = F - 1 /\ y < F /\ f[y] = 0
    BY <1>1, <1>2, <1>5, <1>6
  <2>2. A(y) = {}
    BY <1>1, <1>3, <2>1
  <2>3. IsFiniteSet(A(y)) /\ Cardinality(A(y)) = 0
    BY <2>2, FS_EmptySet
  <2>4. f[y] * TicksPerMinute = 0 /\ lost(y) = 0
    BY <2>1, DaysHaveTicks
  <2> HIDE DEF A, lost
  <2>5. Good(y)
    BY <2>1, <2>3, <2>4
  <2> QED BY <1>5, <2>5
<1>7. CASE n # 0
  <2>1. n - 1 \in Nat /\ n - 1 \notin Bad
    BY <1>4, <1>7
  <2> DEFINE z == y - 1
             T == TicksOn(c, y, from, to)
             m == MinutesOn(c, y, from, to)
  <2>2. z \in (F - 1)..L /\ z \in Int /\ y >= F /\ z = F - 1 + (n - 1)
    BY <1>1, <1>5, <1>7
  <2>3. Good(z)
    <3> HIDE DEF Good, F, L, z
    <3> QED BY <2>1, <2>2
  <2>4. f[y] = f[z] + m
    BY <1>1, <1>2, <1>5, <2>2
  <2>5. A(y) = A(z) \cup T /\ A(z) \cap T = {}
    <3>1. ASSUME NEW t \in WorkingTicks(c, from, to)
          PROVE  (Day(t) <= y <=> Day(t) <= z \/ Day(t) = y) /\ ~(Day(t) <= z /\ Day(t) = y)
      <4>1. Day(t) \in Int
        BY <1>3
      <4> QED BY <4>1, <1>5
    <3> HIDE DEF z
    <3> QED BY <3>1 DEF TicksOn
  <2>6. /\ m \in Nat /\ IsFiniteSet(T) /\ Cardinality(T) \in Nat
        /\ m * TicksPerMinute <= Cardinality(T)
        /\ Cardinality(T) <= m * TicksPerMinute + TicksPerMinute - 1
        /\ F < y /\ y < L => Cardinality(T) = m * TicksPerMinute
    <3>1. F < y /\ y < L => from <= y * TicksPerDay /\ (y + 1) * TicksPerDay <= to
      <4> HAVE F < y /\ y < L
      <4> DEFINE r == from % TicksPerDay
                 q == (to - 1) % TicksPerDay
      <4>1. /\ r \in 0..(TicksPerDay - 1) /\ from = F * TicksPerDay + r
            /\ q \in 0..(TicksPerDay - 1) /\ to - 1 = L * TicksPerDay + q
        <5>1. from \in Int /\ to - 1 \in Int
          OBVIOUS
        <5> QED BY <5>1, DayIs
      <4> HIDE DEF r, q
      <4>2. /\ (F + 1) * TicksPerDay <= y * TicksPerDay
            /\ (y + 1) * TicksPerDay <= L * TicksPerDay
        <5>1. F + 1 \in Int /\ F + 1 <= y /\ y + 1 \in Int /\ y + 1 <= L
          BY <1>1, <1>5
        <5> HIDE DEF F, L, y
        <5> QED BY <1>1, <1>5, <5>1, DaysHaveTicks, ProductGrows
      <4>3. /\ (F + 1) * TicksPerDay = F * TicksPerDay + TicksPerDay
            /\ F * TicksPerDay \in Int /\ L * TicksPerDay \in Int
            /\ y * TicksPerDay \in Int /\ (y + 1) * TicksPerDay \in Int
        <5> HIDE DEF F, L, y
        <5> QED BY <1>1, <1>5, DaysHaveTicks
      <4> HIDE DEF F, L, y
      <4> QED BY <4>1, <4>2, <4>3, DaysHaveTicks
    <3>2. from \in Int /\ to \in Int
      OBVIOUS
    <3> QED BY <1>5, <3>1, <3>2, DayCounts
  <2>7. IsFiniteSet(A(y)) /\ Cardinality(A(y)) = Cardinality(A(z)) + Cardinality(T)
    <3>1. /\ IsFiniteSet(A(z) \cup T)
          /\ Cardinality(A(z) \cup T) = Cardinality(A(z)) + Cardinality(T) - Cardinality(A(z) \cap T)
      <4> HIDE DEF A, T
      <4> QED BY <2>3, <2>6, FS_Union
    <3>2. Cardinality(A(z) \cap T) = 0
      <4> HIDE DEF A, T
      <4> QED BY <2>5, FS_EmptySet
    <3>3. A(y) = A(z) \cup T
      BY <2>5
    <3>4. Cardinality(A(z)) \in Nat /\ Cardinality(T) \in Nat
      BY <2>3, <2>6
    <3> HIDE DEF A, T, y, z
    <3> QED BY <3>1, <3>2, <3>3, <3>4
  <2>8. /\ f[y] \in Nat /\ f[z] \in Nat /\ f[z] * TicksPerMinute \in Nat /\ m * TicksPerMinute \in Nat
        /\ f[y] * TicksPerMinute = f[z] * TicksPerMinute + m * TicksPerMinute
    <3> HIDE DEF A, T, m, z, y, lost
    <3> QED BY <2>3, <2>4, <2>6, DaysHaveTicks
  <2>9. /\ lost(z) \in Nat /\ lost(z) <= lost(y)
        /\ ~(F < y /\ y < L) => lost(z) + (TicksPerMinute - 1) <= lost(y)
    <3> HIDE DEF F, L
    <3>1. y <= L /\ y \in Int /\ z = y - 1
      BY <1>1, <1>5
    <3> HIDE DEF y, z
    <3> QED BY <1>1, <2>2, <3>1, DaysHaveTicks
  <2> HIDE DEF A, T, m, z, y, lost, F, L
  <2>10. lost(y) \in Nat
    BY <1>1, <1>5, DaysHaveTicks DEF lost
  <2>11. Good(y)
    BY <2>3, <2>6, <2>7, <2>8, <2>9, <2>10, DaysHaveTicks
  <2> QED BY <1>5, <2>11 DEF y
<1> QED
  BY <1>6, <1>7

(* What businessMinutesBetween gives between two instants is the working   *)
(* time between them, less at most two parts of a minute.                  *)
LEMMA MinutesBetween ==
  ASSUME NEW c, HoursInDay(c), NEW from \in Nat, NEW to \in Nat, from <= to,
         Day(to) - Day(from) < MaxDays
  PROVE  LET ticks == Cardinality(WorkingTicks(c, from, to))
             counted == BusinessMinutesBetween(c, from, to) * TicksPerMinute
         IN  counted <= ticks /\ ticks < counted + 2 * TicksPerMinute
<1> DEFINE F == Day(from)
           L == Day(to - 1)
<1>1. CASE from = to
  <2>1. WorkingTicks(c, from, to) = {}
    BY <1>1 DEF WorkingTicks
  <2>2. BusinessMinutesBetween(c, from, to) = 0
    BY <1>1 DEF BusinessMinutesBetween
  <2>3. Cardinality(WorkingTicks(c, from, to)) = 0
    BY <2>1, FS_EmptySet
  <2> QED BY <2>2, <2>3, DaysHaveTicks
<1>2. CASE from < to
  <2>1. F \in Int /\ L \in Int /\ F <= L /\ L - F < MaxDays
    <3>1. from \in Int /\ to \in Int /\ to - 1 \in Int /\ from <= to - 1 /\ to - 1 <= to
      BY <1>2
    <3>2. F \in Int /\ L \in Int /\ Day(to) \in Int /\ F <= L /\ L <= Day(to)
      BY <3>1, DayIs, DaysGrow
    <3> QED BY <3>2, DaysHaveTicks
  <2>2. BusinessMinutesBetween(c, from, to) = SumDays(c, F, L, from, to)
    <3>1. Earlier(L, F + MaxDays - 1) = L
      BY <2>1, DaysHaveTicks DEF Earlier
    <3>2. ~(to <= from)
      BY <1>2
    <3>3. L = (to - 1) \div TicksPerDay
      BY DEF Day
    <3> HIDE DEF L
    <3> QED BY <3>1, <3>2, <3>3 DEF BusinessMinutesBetween
  <2>3. PICK f : IsSum(c, F, L, from, to, f) /\ SumDays(c, F, L, from, to) = f[L]
    <3>1. F - 1 <= L
      BY <2>1
    <3> HIDE DEF F, L
    <3> QED BY <2>1, <3>1, SumDaysIs
  <2> DEFINE A == {t \in WorkingTicks(c, from, to) : Day(t) <= L}
  <2>4. /\ f[L] \in Nat /\ Cardinality(A) \in Nat
        /\ f[L] * TicksPerMinute <= Cardinality(A)
        /\ Cardinality(A) <= f[L] * TicksPerMinute + 2 * (TicksPerMinute - 1)
    <3>1. L \in (F - 1)..L /\ ~(L < F) /\ ~(L < L)
      BY <2>1
    <3> QED BY <1>2, <2>3, <3>1, MinutesAreCounted
  <2>5. A = WorkingTicks(c, from, to)
    <3>1. ASSUME NEW t \in WorkingTicks(c, from, to)
          PROVE  Day(t) <= L
      <4>1. t \in Int /\ to - 1 \in Int /\ t <= to - 1
        BY DEF WorkingTicks
      <4> QED BY <4>1, DaysGrow
    <3> QED BY <3>1
  <2>6. f[L] * TicksPerMinute \in Nat
    BY <2>4, DaysHaveTicks
  <2> HIDE DEF A, L, F
  <2> QED BY <2>2, <2>3, <2>4, <2>5, <2>6, DaysHaveTicks
<1> QED
  BY <1>1, <1>2

TimeIsCounted == now \in Nat

LEMMA TimeRuns == Spec => []TimeIsCounted
<1>1. Init => TimeIsCounted
  BY DEF Init, TimeIsCounted
<1>2. TimeIsCounted /\ [Next]_vars => TimeIsCounted'
  <2> SUFFICES ASSUME TimeIsCounted, [Next]_vars
               PROVE  now' \in Nat
    BY DEF TimeIsCounted
  <2>1. CASE Wait
    <3>1. now' \in (now + 1)..MaxNow
      BY <2>1 DEF Wait
    <3> QED BY <3>1 DEF TimeIsCounted
  <2>2. CASE ~Wait
    BY <2>2 DEF TimeIsCounted, Next, vars, Write, Apply, Look, Type
  <2> QED BY <2>1, <2>2
<1> QED
  BY <1>1, <1>2, PTL DEF Spec

LEMMA TimeIsRead == TimeIsCounted => BusinessTimeIsCounted
<1> SUFFICES ASSUME now \in Nat,
                    NEW id \in IdsOf("core.Calendar"), NEW from \in 0..now,
                    HoursInDay(FromRecord(Raw(id))),
                    Day(now) - Day(from) < MaxDays
             PROVE  LET cal == FromRecord(Raw(id))
                        ticks == Cardinality(WorkingTicks(cal, from, now))
                        counted == BusinessMinutesBetween(cal, from, now) * TicksPerMinute
                    IN  counted <= ticks /\ ticks < counted + 2 * TicksPerMinute
  BY DEF BusinessTimeIsCounted, TimeIsCounted
<1> DEFINE cal == FromRecord(Raw(id))
<1>1. from \in Nat /\ from <= now
  OBVIOUS
<1> HIDE DEF cal
<1>2. HoursInDay(cal)
  BY DEF cal
<1> QED
  BY <1>1, <1>2, MinutesBetween DEF cal

(* Whatever calendars, holidays, transferred workdays and hours the        *)
(* records hold, working time between two instants is counted to the       *)
(* minute (calendar.go, businessMinutesBetween).                           *)
THEOREM WorkingTimeIsCounted == Spec => []BusinessTimeIsCounted
BY TimeRuns, TimeIsRead, PTL

-----------------------------------------------------------------------------
(* Conditions.  A mark between words begins nothing.                       *)
LEMMA MarksAreNoOperands ==
  ASSUME NEW t, NEW i \in Int, NEW s, MarkAt(t, i, s)
  PROVE  Operand(t, i) = {} /\ ~WordAt(t, i, "not") /\ ~WordAt(t, i, "in")
         /\ \A w : ~WordAt(t, i, w)
<1>1. i <= Len(t) /\ t[i] = <<"punct", s>>
  BY DEF MarkAt, Mark
<1>2. t[i][1] = "punct"
  BY <1>1
<1>3. \A w : ~WordAt(t, i, w)
  <2>1. \A w : <<"punct", s>>[1] # Word(<<w>>)[1]
    BY DEF Word
  <2> QED BY <1>1, <2>1 DEF WordAt
<1>4. Operand(t, i) = {}
  BY <1>1, <1>2 DEF Operand
<1> QED
  BY <1>3, <1>4

LEMMA OneMark ==
  ASSUME NEW t, NEW i, NEW s, NEW u, MarkAt(t, i, s), MarkAt(t, i, u)
  PROVE  s = u
<1>1. <<"punct", s>>[2] = <<"punct", u>>[2]
  BY DEF MarkAt, Mark
<1> QED
  BY <1>1

(* The members of a list. *)
Behind(t, i) == IF MarkAt(t, i + 1, ",") THEN i + 2 ELSE i + 1

ListFrom(t, i, rest) ==
  IF MarkAt(t, i, "]") THEN {Found(<<>>, i + 1)}
  ELSE UNION {{Found(<<o>> \o r.node, r.next) : r \in rest} : o \in Operand(t, i)}

ListStep(t, f, i) == ListFrom(t, i, f[Behind(t, i)])

IsLists(t, first, f) == f = [i \in first..(Len(t) + 2) |-> ListStep(t, f, i)]

LEMMA ListStepAgrees ==
  ASSUME NEW t, NEW f, NEW g, NEW i \in Int, Len(t) \in Nat,
         i <= Len(t) => f[i + 1] = g[i + 1] /\ f[i + 2] = g[i + 2]
  PROVE  ListStep(t, f, i) = ListStep(t, g, i)
<1>1. CASE i <= Len(t)
  <2>1. f[Behind(t, i)] = g[Behind(t, i)]
    BY <1>1 DEF Behind
  <2> QED BY <2>1 DEF ListStep
<1>2. CASE i > Len(t)
  <2>1. Operand(t, i) = {} /\ ~MarkAt(t, i, "]")
    BY <1>2 DEF Operand, MarkAt
  <2> QED BY <2>1 DEF ListStep, ListFrom
<1> QED
  BY <1>1, <1>2

LEMMA ListsExist ==
  ASSUME NEW t, Len(t) \in Nat
  PROVE  IsLists(t, 1, Lists(t))
<1> DEFINE N == Len(t) + 2
           Bad == {m \in Nat : m <= N /\ ~ \E f : IsLists(t, N + 1 - m, f)}
<1>1. Bad = {}
  <2> SUFFICES ASSUME Bad # {}
               PROVE  FALSE
    OBVIOUS
  <2>1. PICK m \in Bad : \A x \in Bad : m <= x
    <3>1. Bad \in SUBSET Nat
      OBVIOUS
    <3> HIDE DEF Bad
    <3> QED BY <3>1, LeastNumber
  <2> DEFINE a == N + 1 - m
  <2>2. m \in Nat /\ m <= N /\ a \in Int /\ 1 <= a /\ N \in Nat
    OBVIOUS
  <2>3. PICK g : IsLists(t, a + 1, g)
    <3>1. CASE m = 0
      <4> DEFINE e == [i \in (a + 1)..N |-> 0]
      <4>1. (a + 1)..N = {}
        BY <3>1
      <4>2. e = [i \in (a + 1)..N |-> ListStep(t, e, i)]
        BY <4>1
      <4> HIDE DEF e
      <4> QED BY <4>2 DEF IsLists
    <3>2. CASE m # 0
      <4>1. m - 1 \in Nat /\ m - 1 <= N /\ ~(m <= m - 1)
        BY <2>2, <3>2
      <4>2. m - 1 \notin Bad
        <5> HIDE DEF Bad
        <5> QED BY <2>1, <4>1
      <4>3. N + 1 - (m - 1) = a + 1
        BY <2>2
      <4>4. \E f : IsLists(t, N + 1 - (m - 1), f)
        <5> HIDE DEF N, a
        <5> QED BY <4>1, <4>2
      <4> HIDE DEF N, a
      <4> QED BY <4>3, <4>4
    <3> QED BY <3>1, <3>2
  <2> DEFINE h == [i \in a..N |-> IF i = a THEN ListStep(t, g, a) ELSE g[i]]
  <2>4. ASSUME NEW i \in a..N
        PROVE  h[i] = ListStep(t, h, i)
    <3>1. i \in Int /\ (i <= Len(t) => i + 1 \in (a + 1)..N /\ i + 2 \in (a + 1)..N)
      BY <2>2
    <3>2. i <= Len(t) => h[i + 1] = g[i + 1] /\ h[i + 2] = g[i + 2]
      <4> HIDE DEF N, a
      <4> QED BY <2>2, <3>1
    <3>3. ListStep(t, h, i) = ListStep(t, g, i)
      <4> HIDE DEF h
      <4> QED BY <3>1, <3>2, ListStepAgrees
    <3>4. i # a => g[i] = ListStep(t, g, i)
      <4>1. i # a => i \in (a + 1)..(Len(t) + 2)
        BY <2>2
      <4>2. g = [x \in (a + 1)..(Len(t) + 2) |-> ListStep(t, g, x)]
        BY <2>3 DEF IsLists
      <4> HIDE DEF a
      <4> QED BY <4>1, <4>2
    <3> QED BY <3>3, <3>4
  <2>5. h = [i \in a..N |-> ListStep(t, h, i)]
    <3>1. h = [i \in a..N |-> h[i]]
      OBVIOUS
    <3> HIDE DEF h, N, a
    <3> QED BY <2>4, <3>1
  <2>6. IsLists(t, a, h)
    <3> HIDE DEF h
    <3> QED BY <2>5 DEF IsLists
  <2> QED
    <3> HIDE DEF h
    <3> QED BY <2>1, <2>6
<1>2. \E f : IsLists(t, 1, f)
  <2>1. N \in Nat
    OBVIOUS
  <2> HIDE DEF N, Bad
  <2>2. N <= N /\ N + 1 - N = 1 /\ N \notin Bad
    BY <1>1, <2>1
  <2> QED BY <2>1, <2>2 DEF Bad
<1>3. Lists(t) = CHOOSE f : IsLists(t, 1, f)
  BY DEF Lists, IsLists, ListStep, ListFrom, Behind
<1> QED
  BY <1>2, <1>3

(* A list ends with its bracket, and nothing in it is compared.            *)
ListEnds(t, i, r) ==
  /\ r.next \in Int /\ i < r.next /\ r.next <= Len(t) + 1
  /\ MarkAt(t, r.next - 1, "]")
  /\ \A k \in i..(r.next - 1) : ~MarkAt(t, k, "=")

LEMMA ListStepEnds ==
  ASSUME NEW t, Len(t) \in Nat, NEW i \in Int, 1 <= i, NEW f,
         \A z \in (i + 1)..(Len(t) + 2) : \A r \in f[z] : ListEnds(t, z, r),
         NEW y \in ListStep(t, f, i)
  PROVE  ListEnds(t, i, y)
<1>1. CASE MarkAt(t, i, "]")
  <2>1. y = Found(<<>>, i + 1)
    BY <1>1 DEF ListStep, ListFrom
  <2>2. y.next = i + 1
    BY <2>1 DEF Found
  <2>3. i <= Len(t) /\ ~MarkAt(t, i, "=")
    <3>1. "]" # "="
      OBVIOUS
    <3> QED BY <1>1, <3>1, OneMark DEF MarkAt
  <2>4. \A k \in i..(y.next - 1) : k = i
    BY <2>2
  <2> QED BY <1>1, <2>2, <2>3, <2>4 DEF ListEnds
<1>2. CASE ~MarkAt(t, i, "]")
  <2> DEFINE z == Behind(t, i)
  <2>1. PICK o \in Operand(t, i), s \in f[z] : y = Found(<<o>> \o s.node, s.next)
    BY <1>2 DEF ListStep, ListFrom
  <2>2. y.next = s.next
    BY <2>1 DEF Found
  <2>3. i <= Len(t) /\ ~MarkAt(t, i, "=")
    <3>1. ~(i > Len(t))
      BY <2>1 DEF Operand
    <3> QED BY <2>1, <3>1, MarksAreNoOperands
  <2>4. z = i + 1 \/ (z = i + 2 /\ MarkAt(t, i + 1, ","))
    BY DEF Behind
  <2> HIDE DEF z
  <2>5. z \in Int /\ z \in (i + 1)..(Len(t) + 2)
    <3>1. z = i + 1 \/ z = i + 2
      BY <2>4
    <3>2. i <= Len(t)
      BY <2>3
    <3> QED BY ONLY <3>1, <3>2, i \in Int, Len(t) \in Nat
  <2>6. ListEnds(t, z, s)
    BY <2>1, <2>5
  <2>7. s.next \in Int /\ z < s.next /\ s.next <= Len(t) + 1
    BY <2>6 DEF ListEnds
  <2>8. ASSUME NEW k \in i..(s.next - 1)
        PROVE  ~MarkAt(t, k, "=")
    <3>1. k = i \/ (k = i + 1 /\ MarkAt(t, i + 1, ",")) \/ k \in z..(s.next - 1)
      <4>1. s.next \in Int /\ z \in Int
        BY <2>5, <2>7
      <4>2. z = i + 1 => k = i \/ k \in z..(s.next - 1)
        BY ONLY <4>1, i \in Int, k \in i..(s.next - 1)
      <4>3. z = i + 2 => k = i \/ k = i + 1 \/ k \in z..(s.next - 1)
        BY ONLY <4>1, i \in Int, k \in i..(s.next - 1)
      <4> QED BY <2>4, <4>2, <4>3
    <3>2. MarkAt(t, i + 1, ",") => ~MarkAt(t, i + 1, "=")
      <4>1. "," # "="
        OBVIOUS
      <4> QED BY <4>1, OneMark
    <3> QED BY <2>3, <2>6, <3>1, <3>2 DEF ListEnds
  <2>9. i < s.next
    BY <2>5, <2>7
  <2> QED BY <2>2, <2>6, <2>7, <2>8, <2>9 DEF ListEnds
<1> QED
  BY <1>1, <1>2

LEMMA ListsEnd ==
  ASSUME NEW t, Len(t) \in Nat, NEW k \in 1..(Len(t) + 2), NEW r \in Lists(t)[k]
  PROVE  ListEnds(t, k, r)
<1> DEFINE f == Lists(t)
           N == Len(t) + 2
           Good(x) == \A y \in f[x] : ListEnds(t, x, y)
           Bad == {m \in Nat : m < N /\ ~Good(N - m)}
<1>1. f = [i \in 1..N |-> ListStep(t, f, i)]
  BY ListsExist DEF IsLists
<1> HIDE DEF f
<1> SUFFICES Good(k)
  BY DEF f
<1> SUFFICES ASSUME Bad # {}
             PROVE  FALSE
  <2>1. N - k \in Nat /\ N - k < N /\ N - (N - k) = k
    OBVIOUS
  <2>2. N - k \notin Bad => Good(k)
    <3> HIDE DEF Good
    <3> QED BY <2>1
  <2> HIDE DEF Bad, Good
  <2> QED BY <2>2
<1>2. PICK m \in Bad : \A x \in Bad : m <= x
  <2>1. Bad \in SUBSET Nat
    OBVIOUS
  <2> HIDE DEF Bad
  <2> QED BY <2>1, LeastNumber
<1> DEFINE x == N - m
<1>3. m \in Nat /\ x \in 1..N /\ x \in Int /\ ~Good(x)
  <2> HIDE DEF Good
  <2> QED BY <1>2
<1>4. \A z \in (x + 1)..N : Good(z)
  <2> TAKE z \in (x + 1)..N
  <2>1. N - z \in Nat /\ N - z < N /\ N - (N - z) = z /\ N - z < m
    BY <1>3
  <2>2. N - z \notin Bad
    <3> HIDE DEF Bad
    <3> QED BY <1>2, <1>3, <2>1
  <2> HIDE DEF Good
  <2> QED BY <2>1, <2>2
<1>5. ASSUME NEW y \in f[x]
      PROVE  ListEnds(t, x, y)
  <2>1. y \in ListStep(t, f, x)
    <3> HIDE DEF N, x
    <3> QED BY <1>1, <1>3, <1>5
  <2>2. x \in Int /\ 1 <= x /\ \A z \in (x + 1)..(Len(t) + 2) : \A s \in f[z] : ListEnds(t, z, s)
    BY <1>3, <1>4
  <2> HIDE DEF x
  <2> QED BY <2>1, <2>2, ListStepEnds
<1> QED
  BY <1>3, <1>5

-----------------------------------------------------------------------------
(* A scope term that is read as a comparison is what the comparison says.  *)
ScopeAt(t, s) == s + 2 <= Len(t) /\ t[s][1] = "word" /\ MarkAt(t, s + 1, "=")

Says(t, c, s) == \E l \in Operand(t, s), r \in Operand(t, s + 2) : Compare(l, "=", r, c) = "yes"

Covered(t, c, i, next) == \A s \in i..(next - 1) : ScopeAt(t, s) => Says(t, c, s)

ReadTo(t, i, next) == next \in Int /\ i < next /\ next <= Len(t) + 1

LEMMA ScopesAreWords ==
  ASSUME NEW t, NEW s \in Int, ScopeAt(t, s)
  PROVE  /\ \A u : ~MarkAt(t, s, u)
         /\ \A w : ~WordAt(t, s + 1, w)
         /\ \A u : MarkAt(t, s + 1, u) => u = "="
<1>1. t[s][1] = "word" /\ MarkAt(t, s + 1, "=")
  BY DEF ScopeAt
<1>2. \A u : Mark(u)[1] = "punct"
  BY DEF Mark
<1>3. \A u : ~MarkAt(t, s, u)
  BY <1>1, <1>2 DEF MarkAt
<1>4. \A w : ~WordAt(t, s + 1, w)
  BY <1>1, MarksAreNoOperands
<1> QED
  BY <1>1, <1>3, <1>4, OneMark

LEMMA ComparisonReads ==
  ASSUME NEW t, Len(t) \in Nat, NEW c, NEW i \in Int, 1 <= i, NEW r \in Comparison(t, i)
  PROVE  /\ ReadTo(t, i, r.next)
         /\ Test(r.node, c) = "yes" /\ ~MarkAt(t, r.next, "=") => Covered(t, c, i, r.next)
<1>1. PICK left \in Operand(t, i) :
        r \in IF WordAt(t, i + 1, "in")
              THEN IF MarkAt(t, i + 2, "[")
                   THEN {Found(<<"in", left, x.node>>, x.next) : x \in Lists(t)[i + 3]}
                   ELSE {}
              ELSE IF \E op \in Compares : MarkAt(t, i + 1, op)
              THEN {Found(<<"cmp", left, t[i + 1][2], right>>, i + 3) : right \in Operand(t, i + 2)}
              ELSE {Found(<<"truthy", left>>, i + 1)}
  BY DEF Comparison
<1>2. i <= Len(t)
  <2>1. ~(i > Len(t))
    BY <1>1 DEF Operand
  <2> QED BY <2>1
<1>3. CASE WordAt(t, i + 1, "in")
  <2>1. PICK x \in Lists(t)[i + 3] : r = Found(<<"in", left, x.node>>, x.next)
    BY <1>1, <1>3
  <2>2. MarkAt(t, i + 2, "[") /\ i + 2 <= Len(t)
    BY <1>1, <1>3 DEF MarkAt
  <2>3. i + 3 \in 1..(Len(t) + 2)
    BY <2>2
  <2>4. ListEnds(t, i + 3, x)
    BY <2>1, <2>3, ListsEnd
  <2>5. r.next = x.next /\ r.next \in Int /\ i + 3 < r.next /\ r.next <= Len(t) + 1
    BY <2>1, <2>4 DEF Found, ListEnds
  <2>6. ASSUME NEW s \in i..(r.next - 1), ScopeAt(t, s)
        PROVE  FALSE
    <3>1. s = i \/ s = i + 1 \/ s = i + 2 \/ s = r.next - 1 \/ s + 1 \in (i + 3)..(r.next - 1)
      BY ONLY <2>5, i \in Int, s \in i..(r.next - 1)
    <3>2. s \in Int
      BY ONLY <2>5, i \in Int, s \in i..(r.next - 1)
    <3>3. s # i
      BY <1>3, <2>6, <3>2, ScopesAreWords
    <3>4. s # i + 1
      <4>1. (i + 1) + 1 = i + 2 /\ "[" # "="
        OBVIOUS
      <4> QED BY <2>2, <2>6, <3>2, <4>1, ScopesAreWords
    <3>5. s # i + 2
      BY <2>2, <2>6, <3>2, ScopesAreWords
    <3>6. s # r.next - 1
      BY <2>4, <2>5, <2>6, <3>2, ScopesAreWords DEF ListEnds
    <3>7. s + 1 \notin (i + 3)..(r.next - 1)
      BY <2>4, <2>5, <2>6 DEF ListEnds, ScopeAt
    <3> QED BY <3>1, <3>3, <3>4, <3>5, <3>6, <3>7
  <2>7. ReadTo(t, i, r.next)
    BY ONLY <2>5, i \in Int, Len(t) \in Nat DEF ReadTo
  <2> QED BY <2>6, <2>7 DEF Covered
<1>4. CASE ~WordAt(t, i + 1, "in") /\ \E op \in Compares : MarkAt(t, i + 1, op)
  <2>1. PICK right \in Operand(t, i + 2) : r = Found(<<"cmp", left, t[i + 1][2], right>>, i + 3)
    BY <1>1, <1>4
  <2>2. i + 2 <= Len(t)
    <3>1. ~(i + 2 > Len(t))
      BY <2>1 DEF Operand
    <3> QED BY <3>1
  <2>3. r.next = i + 3 /\ r.node = <<"cmp", left, t[i + 1][2], right>>
    BY <2>1 DEF Found
  <2>4. ReadTo(t, i, r.next)
    BY <2>2, <2>3 DEF ReadTo
  <2>5. Test(r.node, c) = Compare(left, t[i + 1][2], right, c)
    BY <2>3 DEF Test
  <2>6. ASSUME Test(r.node, c) = "yes", ~MarkAt(t, r.next, "="),
               NEW s \in i..(r.next - 1), ScopeAt(t, s)
        PROVE  Says(t, c, s)
    <3>1. s \in Int /\ (s = i \/ s = i + 1 \/ s = i + 2)
      BY ONLY <2>3, i \in Int, s \in i..(r.next - 1)
    <3>2. s # i + 1
      BY <1>4, <2>6, <3>1, ScopesAreWords
    <3>3. s # i + 2
      <4>1. s = i + 2 => s + 1 = r.next
        BY <2>3
      <4> QED BY <2>6, <4>1 DEF ScopeAt
    <3>4. s = i
      BY <3>1, <3>2, <3>3
    <3>5. t[i + 1][2] = "="
      BY <2>6, <3>4 DEF ScopeAt, MarkAt, Mark
    <3>6. Compare(left, "=", right, c) = "yes"
      BY <2>5, <2>6, <3>5
    <3> QED BY <1>1, <2>1, <3>4, <3>6 DEF Says
  <2> QED BY <2>4, <2>6 DEF Covered
<1>5. CASE ~WordAt(t, i + 1, "in") /\ ~ \E op \in Compares : MarkAt(t, i + 1, op)
  <2>1. r.next = i + 1
    BY <1>1, <1>5 DEF Found
  <2>2. ReadTo(t, i, r.next)
    BY <1>2, <2>1 DEF ReadTo
  <2>3. ASSUME NEW s \in i..(r.next - 1), ScopeAt(t, s)
        PROVE  FALSE
    <3>1. s = i
      BY ONLY <2>1, i \in Int, s \in i..(r.next - 1)
    <3> QED BY <1>5, <2>3, <3>1 DEF ScopeAt, Compares
  <2> QED BY <2>2, <2>3 DEF Covered
<1> QED
  BY <1>3, <1>4, <1>5

-----------------------------------------------------------------------------
(* What is read behind a position determines what is read at it.           *)
Kinds == {"unary", "and", "or"}

Keys(t, first) == (first..(Len(t) + 1)) \X Kinds

ReadStep(t, c, k, p) ==
  CASE k[2] = "unary" -> ParseUnary(t, c, k[1], p)
    [] k[2] = "and" -> ParseAnd(t, k[1], p)
    [] OTHER -> ParseOr(t, k[1], p)

IsReads(t, c, first, p) == p = [k \in Keys(t, first) |-> ReadStep(t, c, k, p)]

IsNodes(x) == \E S : x \in Seq(S) /\ x # <<>>

Formed(t, i, kind, r) == ReadTo(t, i, r.next) /\ (kind # "unary" => IsNodes(r.node))

AllFormed(t, first, p) ==
  \A i \in first..(Len(t) + 1), kind \in Kinds : \A r \in p[<<i, kind>>] : Formed(t, i, kind, r)

LEMMA OneMore ==
  ASSUME NEW n, NEW nodes, IsNodes(nodes)
  PROVE  /\ IsNodes(<<n>> \o nodes)
         /\ Len(nodes) \in Nat \ {0} /\ Len(<<n>> \o nodes) = Len(nodes) + 1
         /\ (<<n>> \o nodes)[1] = n
         /\ \A k \in 1..Len(nodes) : (<<n>> \o nodes)[k + 1] = nodes[k]
<1>1. PICK S : nodes \in Seq(S) /\ nodes # <<>>
  BY DEF IsNodes
<1> DEFINE T == S \cup {n}
<1>2. nodes \in Seq(T) /\ <<n>> \in Seq(T) /\ Len(nodes) # 0
  BY <1>1
<1> HIDE DEF T
<1>3. <<n>> \o nodes \in Seq(T) /\ Len(<<n>> \o nodes) = Len(nodes) + 1 /\ Len(nodes) \in Nat
  BY <1>2
<1>4. <<n>> \o nodes # <<>>
  BY <1>3
<1>5. (<<n>> \o nodes)[1] = n /\ \A k \in 1..Len(nodes) : (<<n>> \o nodes)[k + 1] = nodes[k]
  BY <1>2
<1> QED
  BY <1>2, <1>3, <1>4, <1>5 DEF IsNodes

LEMMA OneNode ==
  ASSUME NEW n
  PROVE  IsNodes(<<n>>) /\ Len(<<n>>) = 1 /\ <<n>>[1] = n
<1>1. <<n>> \in Seq({n}) /\ <<n>> # <<>>
  OBVIOUS
<1> QED
  BY <1>1 DEF IsNodes

LEMMA UnaryAgrees ==
  ASSUME NEW t, Len(t) \in Nat, NEW c, NEW i \in Int, NEW p, NEW q,
         i <= Len(t) => p[<<i + 1, "unary">>] = q[<<i + 1, "unary">>]
                        /\ p[<<i + 1, "or">>] = q[<<i + 1, "or">>]
  PROVE  ParseUnary(t, c, i, p) = ParseUnary(t, c, i, q)
<1>1. WordAt(t, i, "not") \/ MarkAt(t, i, "(") => i <= Len(t)
  BY DEF WordAt, MarkAt
<1> QED
  BY <1>1 DEF ParseUnary

LEMMA UnaryIsFormed ==
  ASSUME NEW t, Len(t) \in Nat, NEW c, NEW i \in Int, 1 <= i, NEW p,
         AllFormed(t, i + 1, p), NEW y \in ParseUnary(t, c, i, p)
  PROVE  ReadTo(t, i, y.next)
<1>1. CASE WordAt(t, i, "not")
  <2>1. PICK r \in p[<<i + 1, "unary">>] : y = Found(Not(r.node), r.next)
    BY <1>1 DEF ParseUnary
  <2>2. i + 1 \in (i + 1)..(Len(t) + 1)
    BY <1>1 DEF WordAt
  <2>3. ReadTo(t, i + 1, r.next) /\ y.next = r.next
    BY <2>1, <2>2 DEF AllFormed, Formed, Kinds, Found
  <2> QED BY <2>3 DEF ReadTo
<1>2. CASE ~WordAt(t, i, "not") /\ MarkAt(t, i, "(")
  <2>1. PICK r \in p[<<i + 1, "or">>] :
          MarkAt(t, r.next, ")") /\ y = Found(Disjunction(r.node), r.next + 1)
    BY <1>2 DEF ParseUnary
  <2>2. i + 1 \in (i + 1)..(Len(t) + 1)
    BY <1>2 DEF MarkAt
  <2>3. ReadTo(t, i + 1, r.next) /\ y.next = r.next + 1 /\ r.next <= Len(t)
    BY <2>1, <2>2 DEF AllFormed, Formed, Kinds, Found, MarkAt
  <2> QED BY <2>3 DEF ReadTo
<1>3. CASE ~WordAt(t, i, "not") /\ ~MarkAt(t, i, "(")
  <2>1. PICK r \in Comparison(t, i) : y = Found(Leaf(r.node, c), r.next)
    BY <1>3 DEF ParseUnary, ParseComparison
  <2>2. ReadTo(t, i, r.next) /\ y.next = r.next
    BY <2>1, ComparisonReads DEF Found
  <2> QED BY <2>2
<1> QED
  BY <1>1, <1>2, <1>3

LEMMA ChainAgrees ==
  ASSUME NEW t, Len(t) \in Nat, NEW i \in Int, NEW word, NEW firsts, NEW rest, NEW p, NEW q,
         \A r \in firsts : ReadTo(t, i, r.next),
         \A j \in (i + 1)..(Len(t) + 1) : p[<<j, rest>>] = q[<<j, rest>>]
  PROVE  Chain(t, word, firsts, p, rest) = Chain(t, word, firsts, q, rest)
<1> DEFINE of(r, f) ==
             IF WordAt(t, r.next, word)
             THEN {Found(<<r.node>> \o s.node, s.next) : s \in f[<<r.next + 1, rest>>]}
             ELSE {Found(<<r.node>>, r.next)}
<1>1. ASSUME NEW r \in firsts
      PROVE  of(r, p) = of(r, q)
  <2>1. CASE WordAt(t, r.next, word)
    <3>1. r.next + 1 \in (i + 1)..(Len(t) + 1)
      BY <2>1 DEF WordAt, ReadTo
    <3> QED BY <3>1
  <2> QED BY <2>1
<1>2. /\ Chain(t, word, firsts, p, rest) = UNION {of(r, p) : r \in firsts}
      /\ Chain(t, word, firsts, q, rest) = UNION {of(r, q) : r \in firsts}
  BY DEF Chain
<1> HIDE DEF of
<1>3. {of(r, p) : r \in firsts} = {of(r, q) : r \in firsts}
  BY <1>1
<1> QED
  BY <1>2, <1>3

Ends(t, word, firsts, y) ==
  \E r \in firsts : ~WordAt(t, r.next, word) /\ y.node = <<r.node>> /\ y.next = r.next

Continues(t, i, word, firsts, rest, p, y) ==
  \E r \in firsts : \E s \in p[<<r.next + 1, rest>>] :
    /\ WordAt(t, r.next, word) /\ y.node = <<r.node>> \o s.node /\ y.next = s.next
    /\ r.next \in Int /\ i < r.next /\ r.next <= Len(t)

LEMMA InChain ==
  ASSUME NEW t, Len(t) \in Nat, NEW i \in Int, NEW word, NEW firsts, NEW rest, NEW p,
         \A r \in firsts : ReadTo(t, i, r.next),
         NEW y \in Chain(t, word, firsts, p, rest)
  PROVE  Ends(t, word, firsts, y) \/ Continues(t, i, word, firsts, rest, p, y)
<1>1. PICK r \in firsts :
        y \in IF WordAt(t, r.next, word)
              THEN {Found(<<r.node>> \o s.node, s.next) : s \in p[<<r.next + 1, rest>>]}
              ELSE {Found(<<r.node>>, r.next)}
  BY DEF Chain
<1>2. CASE WordAt(t, r.next, word)
  <2>1. PICK s \in p[<<r.next + 1, rest>>] : y = Found(<<r.node>> \o s.node, s.next)
    BY <1>1, <1>2
  <2>2. y.node = <<r.node>> \o s.node /\ y.next = s.next
    BY <2>1 DEF Found
  <2>3. r.next \in Int /\ i < r.next /\ r.next <= Len(t)
    BY <1>2 DEF ReadTo, WordAt
  <2> QED BY <1>2, <2>2, <2>3 DEF Continues
<1>3. CASE ~WordAt(t, r.next, word)
  <2>1. y.node = <<r.node>> /\ y.next = r.next
    BY <1>1, <1>3 DEF Found
  <2> QED BY <1>3, <2>1 DEF Ends
<1> QED
  BY <1>2, <1>3

LEMMA ChainIsFormed ==
  ASSUME NEW t, Len(t) \in Nat, NEW i \in Int, 1 <= i, NEW word, NEW firsts, NEW rest \in {"and", "or"},
         NEW p, \A r \in firsts : ReadTo(t, i, r.next), AllFormed(t, i + 1, p),
         NEW y \in Chain(t, word, firsts, p, rest)
  PROVE  ReadTo(t, i, y.next) /\ IsNodes(y.node)
<1>1. CASE Ends(t, word, firsts, y)
  BY <1>1, OneNode DEF Ends
<1>2. ASSUME NEW r \in firsts, NEW s \in p[<<r.next + 1, rest>>],
             y.node = <<r.node>> \o s.node, y.next = s.next,
             r.next \in Int, i < r.next, r.next <= Len(t)
      PROVE  ReadTo(t, i, y.next) /\ IsNodes(y.node)
  <2>1. r.next + 1 \in (i + 1)..(Len(t) + 1)
    BY ONLY <1>2, i \in Int, Len(t) \in Nat
  <2>2. Formed(t, r.next + 1, rest, s)
    BY <2>1 DEF AllFormed, Kinds
  <2>3. ReadTo(t, r.next + 1, s.next) /\ IsNodes(s.node)
    BY <2>2 DEF Formed
  <2>4. IsNodes(y.node)
    BY <1>2, <2>3, OneMore
  <2>5. ReadTo(t, i, y.next)
    BY <1>2, <2>3 DEF ReadTo
  <2> QED BY <2>4, <2>5
<1>3. CASE Continues(t, i, word, firsts, rest, p, y)
  <2>1. PICK r \in firsts : \E s \in p[<<r.next + 1, rest>>] :
              /\ WordAt(t, r.next, word) /\ y.node = <<r.node>> \o s.node /\ y.next = s.next
              /\ r.next \in Int /\ i < r.next /\ r.next <= Len(t)
    BY <1>3 DEF Continues
  <2>2. PICK s \in p[<<r.next + 1, rest>>] : y.node = <<r.node>> \o s.node /\ y.next = s.next
    BY <2>1
  <2> QED BY <1>2, <2>1, <2>2
<1> QED
  BY <1>1, <1>3, InChain

(* Two functions that agree behind a position agree on a step at it.       *)
Agree(t, first, p, q) == \A i \in first..(Len(t) + 1), kind \in Kinds : p[<<i, kind>>] = q[<<i, kind>>]

LEMMA StepAgrees ==
  ASSUME NEW t, Len(t) \in Nat, NEW c, NEW first \in Int, 1 <= first, NEW p, NEW q,
         Agree(t, first, p, q), AllFormed(t, first, p),
         NEW i \in first..(Len(t) + 1), NEW kind \in Kinds
  PROVE  ReadStep(t, c, <<i, kind>>, p) = ReadStep(t, c, <<i, kind>>, q)
<1>1. i \in Int /\ 1 <= i
  OBVIOUS
<1>2. \A j \in (i + 1)..(Len(t) + 1), x \in Kinds : p[<<j, x>>] = q[<<j, x>>]
  <2> TAKE j \in (i + 1)..(Len(t) + 1), x \in Kinds
  <2>1. j \in first..(Len(t) + 1)
    OBVIOUS
  <2> QED BY <2>1 DEF Agree
<1>3. ParseUnary(t, c, i, p) = ParseUnary(t, c, i, q)
  <2>1. i <= Len(t) => i + 1 \in (i + 1)..(Len(t) + 1)
    OBVIOUS
  <2>2. i <= Len(t) => p[<<i + 1, "unary">>] = q[<<i + 1, "unary">>]
                       /\ p[<<i + 1, "or">>] = q[<<i + 1, "or">>]
    BY <1>2, <2>1 DEF Kinds
  <2> QED BY <1>1, <2>2, UnaryAgrees
<1>4. ParseAnd(t, i, p) = ParseAnd(t, i, q)
  <2> DEFINE firsts == p[<<i, "unary">>]
  <2>1. q[<<i, "unary">>] = firsts
    BY DEF Agree, Kinds
  <2>2. \A r \in firsts : ReadTo(t, i, r.next)
    BY DEF AllFormed, Formed, Kinds
  <2>3. \A j \in (i + 1)..(Len(t) + 1) : p[<<j, "and">>] = q[<<j, "and">>]
    BY <1>2 DEF Kinds
  <2> HIDE DEF firsts
  <2>4. Chain(t, "and", firsts, p, "and") = Chain(t, "and", firsts, q, "and")
    BY <1>1, <2>2, <2>3, ChainAgrees
  <2> QED BY <2>1, <2>4 DEF ParseAnd, firsts
<1>5. ParseOr(t, i, p) = ParseOr(t, i, q)
  <2> DEFINE firsts == Conjunctions(i, p)
  <2>1. Conjunctions(i, q) = firsts
    <3>1. p[<<i, "and">>] = q[<<i, "and">>]
      BY DEF Agree, Kinds
    <3> QED BY <3>1 DEF Conjunctions
  <2>2. \A r \in firsts : ReadTo(t, i, r.next)
    <3>1. \A r \in p[<<i, "and">>] : ReadTo(t, i, r.next)
      BY DEF AllFormed, Formed, Kinds
    <3> QED BY <3>1 DEF Conjunctions, Found
  <2>3. \A j \in (i + 1)..(Len(t) + 1) : p[<<j, "or">>] = q[<<j, "or">>]
    BY <1>2 DEF Kinds
  <2> HIDE DEF firsts
  <2>4. Chain(t, "or", firsts, p, "or") = Chain(t, "or", firsts, q, "or")
    BY <1>1, <2>2, <2>3, ChainAgrees
  <2> QED BY <2>1, <2>4 DEF ParseOr, firsts
<1>6. <<i, kind>>[1] = i /\ <<i, kind>>[2] = kind
  OBVIOUS
<1> QED
  BY <1>3, <1>4, <1>5, <1>6 DEF ReadStep

LEMMA ReadsExtend ==
  ASSUME NEW t, Len(t) \in Nat, NEW c, NEW i \in Int, 1 <= i, i <= Len(t) + 1, NEW p,
         IsReads(t, c, i + 1, p), AllFormed(t, i + 1, p)
  PROVE  \E q : IsReads(t, c, i, q) /\ AllFormed(t, i, q)
<1> DEFINE N == Len(t) + 1
           U == ParseUnary(t, c, i, p)
           A == Chain(t, "and", U, p, "and")
           C == {Found(Conjunction(r.node), r.next) : r \in A}
           O == Chain(t, "or", C, p, "or")
           at(kind) == CASE kind = "unary" -> U [] kind = "and" -> A [] OTHER -> O
           q == [k \in Keys(t, i) |-> IF k[1] = i THEN at(k[2]) ELSE p[k]]
<1>1. \A r \in U : ReadTo(t, i, r.next)
  BY UnaryIsFormed
<1>2. \A r \in A : ReadTo(t, i, r.next) /\ IsNodes(r.node)
  <2> HIDE DEF U
  <2> QED BY <1>1, ChainIsFormed
<1>3. \A r \in C : ReadTo(t, i, r.next)
  <2> HIDE DEF A
  <2> QED BY <1>2 DEF Found
<1>4. \A r \in O : ReadTo(t, i, r.next) /\ IsNodes(r.node)
  <2> HIDE DEF C
  <2> QED BY <1>3, ChainIsFormed
<1> HIDE DEF U, A, C, O
<1>5. q[<<i, "unary">>] = U /\ q[<<i, "and">>] = A /\ q[<<i, "or">>] = O
  <2>1. \A kind \in Kinds : <<i, kind>> \in Keys(t, i) /\ q[<<i, kind>>] = at(kind)
    BY DEF Keys
  <2> QED BY <2>1 DEF Kinds
<1>6. \A j \in (i + 1)..N, kind \in Kinds : q[<<j, kind>>] = p[<<j, kind>>]
  <2> TAKE j \in (i + 1)..N, kind \in Kinds
  <2>1. <<j, kind>> \in Keys(t, i) /\ j # i
    BY DEF Keys
  <2> HIDE DEF at
  <2> QED BY <2>1
<1>7. AllFormed(t, i, q)
  <2> SUFFICES ASSUME NEW j \in i..(Len(t) + 1), NEW kind \in Kinds, NEW r \in q[<<j, kind>>]
               PROVE  Formed(t, j, kind, r)
    BY DEF AllFormed
  <2>1. CASE j = i
    <3> HIDE DEF q
    <3> QED BY <1>1, <1>2, <1>4, <1>5, <2>1 DEF Kinds, Formed
  <2>2. CASE j # i
    <3>1. j \in (i + 1)..N
      BY <2>2
    <3> HIDE DEF q
    <3>2. r \in p[<<j, kind>>]
      BY <1>6, <3>1
    <3> QED BY <3>1, <3>2 DEF AllFormed
  <2> QED BY <2>1, <2>2
<1>8. Agree(t, i + 1, p, q)
  <2> HIDE DEF q
  <2> QED BY <1>6 DEF Agree
<1>9. ASSUME NEW k \in Keys(t, i)
      PROVE  q[k] = ReadStep(t, c, k, q)
  <2>1. PICK j \in i..N, kind \in Kinds : k = <<j, kind>>
    BY DEF Keys
  <2>2. CASE j = i
    <3> HIDE DEF q
    <3>1. ParseUnary(t, c, i, q) = U
      <4>1. i <= Len(t) => i + 1 \in (i + 1)..N
        OBVIOUS
      <4>2. i <= Len(t) => p[<<i + 1, "unary">>] = q[<<i + 1, "unary">>]
                           /\ p[<<i + 1, "or">>] = q[<<i + 1, "or">>]
        BY <1>6, <4>1 DEF Kinds
      <4>3. i \in Int /\ Len(t) \in Nat
        OBVIOUS
      <4>4. ParseUnary(t, c, i, p) = ParseUnary(t, c, i, q)
        BY ONLY <4>2, <4>3, UnaryAgrees
      <4> QED BY ONLY <4>4 DEF U
    <3>2. ParseAnd(t, i, q) = A
      <4>1. \A x \in (i + 1)..(Len(t) + 1) : p[<<x, "and">>] = q[<<x, "and">>]
        BY <1>6 DEF Kinds
      <4>2. Chain(t, "and", U, p, "and") = Chain(t, "and", U, q, "and")
        BY <1>1, <4>1, ChainAgrees
      <4> QED BY <1>5, <4>2 DEF ParseAnd, A
    <3>3. ParseOr(t, i, q) = O
      <4>1. \A x \in (i + 1)..(Len(t) + 1) : p[<<x, "or">>] = q[<<x, "or">>]
        BY <1>6 DEF Kinds
      <4>2. Chain(t, "or", C, p, "or") = Chain(t, "or", C, q, "or")
        BY <1>3, <4>1, ChainAgrees
      <4>3. Conjunctions(i, q) = C
        BY <1>5 DEF Conjunctions, C
      <4> QED BY <4>2, <4>3 DEF ParseOr, O
    <3>4. k[1] = i /\ k[2] = kind
      BY <2>1, <2>2
    <3> QED BY <1>5, <2>1, <2>2, <3>1, <3>2, <3>3, <3>4 DEF ReadStep, Kinds
  <2>3. CASE j # i
    <3>1. j \in (i + 1)..(Len(t) + 1) /\ i + 1 \in Int /\ 1 <= i + 1
      BY <2>3
    <3> HIDE DEF q
    <3>2. q[k] = p[k]
      BY <1>6, <2>1, <3>1
    <3>3. ReadStep(t, c, k, p) = ReadStep(t, c, k, q)
      BY <1>8, <2>1, <3>1, StepAgrees
    <3>4. p[k] = ReadStep(t, c, k, p)
      <4>1. k \in Keys(t, i + 1)
        BY <2>1, <3>1 DEF Keys
      <4> QED BY <4>1 DEF IsReads
    <3> QED BY <3>2, <3>3, <3>4
  <2> QED BY <2>2, <2>3
<1>10. IsReads(t, c, i, q)
  <2>1. q = [k \in Keys(t, i) |-> q[k]]
    OBVIOUS
  <2> HIDE DEF q
  <2> QED BY <1>9, <2>1 DEF IsReads
<1> QED
  <2> HIDE DEF q
  <2> QED BY <1>7, <1>10

LEMMA ReadsExist ==
  ASSUME NEW t, Len(t) \in Nat, NEW c
  PROVE  IsReads(t, c, 1, Reads(t, c))
<1> DEFINE N == Len(t) + 1
           Good(i) == \E q : IsReads(t, c, i, q) /\ AllFormed(t, i, q)
           Bad == {m \in Nat : m <= N /\ ~Good(N + 1 - m)}
<1>1. Bad = {}
  <2> SUFFICES ASSUME Bad # {}
               PROVE  FALSE
    OBVIOUS
  <2>1. PICK m \in Bad : \A x \in Bad : m <= x
    <3>1. Bad \in SUBSET Nat
      OBVIOUS
    <3> HIDE DEF Bad
    <3> QED BY <3>1, LeastNumber
  <2> DEFINE a == N + 1 - m
  <2>2. m \in Nat /\ m <= N /\ a \in Int /\ 1 <= a /\ N \in Nat /\ ~Good(a)
    <3> HIDE DEF Good
    <3> QED OBVIOUS
  <2>3. CASE m = 0
    <3> DEFINE e == [k \in Keys(t, a) |-> {}]
    <3>1. a..(Len(t) + 1) = {} /\ Keys(t, a) = {}
      BY <2>3 DEF Keys
    <3>2. e = [k \in Keys(t, a) |-> ReadStep(t, c, k, e)]
      BY <3>1
    <3> HIDE DEF e
    <3>3. IsReads(t, c, a, e) /\ AllFormed(t, a, e)
      <4> HIDE DEF a
      <4> QED BY <3>1, <3>2 DEF IsReads, AllFormed
    <3> QED BY <2>2, <3>3
  <2>4. CASE m # 0
    <3>1. m - 1 \in Nat /\ m - 1 <= N /\ ~(m <= m - 1) /\ N + 1 - (m - 1) = a + 1
      BY <2>2, <2>4
    <3>2. m - 1 \notin Bad
      <4> HIDE DEF Bad
      <4> QED BY <2>1, <3>1
    <3>3. Good(a + 1)
      <4> HIDE DEF N, a, Good
      <4> QED BY <3>1, <3>2
    <3>4. a <= Len(t) + 1
      BY <2>2, <2>4
    <3> HIDE DEF a, N
    <3>5. Good(a)
      BY <2>2, <3>3, <3>4, ReadsExtend
    <3> HIDE DEF Good
    <3> QED BY <2>2, <3>5
  <2> QED BY <2>3, <2>4
<1>2. Good(1)
  <2>1. N \in Nat
    OBVIOUS
  <2> HIDE DEF N, Bad, Good
  <2>2. N <= N /\ N + 1 - N = 1 /\ N \notin Bad
    BY <1>1, <2>1
  <2> QED BY <2>1, <2>2 DEF Bad
<1>3. Reads(t, c) = CHOOSE q : IsReads(t, c, 1, q)
  BY DEF Reads, IsReads, ReadStep, Keys, Kinds
<1>4. \E q : IsReads(t, c, 1, q)
  BY <1>2
<1>5. IsReads(t, c, 1, Reads(t, c))
  <2> DEFINE r == CHOOSE q : IsReads(t, c, 1, q)
  <2>1. IsReads(t, c, 1, r)
    BY <1>4
  <2> QED BY <1>3, <2>1
<1> QED
  BY <1>5

-----------------------------------------------------------------------------
(* A conjunction holds if each of its nodes does.                          *)
IsUpTo(word, nodes, n, f) ==
  f = [k \in 1..n |-> IF k = 1 THEN nodes[1] ELSE Join(word, f[k - 1], nodes[k])]

LEMMA UpToExists ==
  ASSUME NEW word, NEW nodes, NEW n \in Nat
  PROVE  \E f : IsUpTo(word, nodes, n, f)
<1> DEFINE Bad == {m \in Nat : ~ \E f : IsUpTo(word, nodes, m, f)}
           Step(f, k) == IF k = 1 THEN nodes[1] ELSE Join(word, f[k - 1], nodes[k])
<1> SUFFICES ASSUME Bad # {}
             PROVE  FALSE
  OBVIOUS
<1>1. PICK m \in Bad : \A x \in Bad : m <= x
  <2>1. Bad \in SUBSET Nat
    OBVIOUS
  <2> HIDE DEF Bad
  <2> QED BY <2>1, LeastNumber
<1>2. m # 0
  <2> DEFINE g == [k \in 1..0 |-> 0]
  <2>1. g = [k \in 1..0 |-> Step(g, k)]
    OBVIOUS
  <2> HIDE DEF g
  <2>2. IsUpTo(word, nodes, 0, g)
    BY ONLY <2>1 DEF IsUpTo
  <2>3. ~ \E f : IsUpTo(word, nodes, m, f)
    BY <1>1
  <2> QED BY ONLY <2>2, <2>3
<1>3. PICK g : IsUpTo(word, nodes, m - 1, g)
  <2>1. m - 1 \in Nat /\ m - 1 \notin Bad
    BY <1>1, <1>2
  <2> QED BY <2>1
<1> DEFINE h == [k \in 1..m |-> IF k < m THEN g[k] ELSE Step(g, k)]
<1>4. ASSUME NEW k \in 1..m
      PROVE  h[k] = Step(h, k)
  <2>1. m \in Nat /\ k \in Int
    BY <1>1
  <2>2. k # 1 => k - 1 \in 1..m /\ k - 1 < m
    BY <2>1
  <2>3. Step(h, k) = Step(g, k)
    BY <2>2
  <2>4. k < m => g[k] = Step(g, k)
    <3>1. k < m => k \in 1..(m - 1)
      BY <2>1
    <3>2. g = [x \in 1..(m - 1) |-> Step(g, x)]
      BY <1>3 DEF IsUpTo
    <3> HIDE DEF Step
    <3> QED BY <3>1, <3>2
  <2> QED BY <2>3, <2>4
<1>5. h = [k \in 1..m |-> Step(h, k)]
  <2>1. h = [k \in 1..m |-> h[k]]
    OBVIOUS
  <2> HIDE DEF h, Step
  <2> QED BY <1>4, <2>1
<1>6. IsUpTo(word, nodes, m, h)
  <2> HIDE DEF h
  <2> QED BY <1>5 DEF IsUpTo
<1> QED
  <2> HIDE DEF h
  <2> QED BY <1>1, <1>6

LEMMA ConjunctionHolds ==
  ASSUME NEW nodes, Len(nodes) \in Nat \ {0}, Conjunction(nodes).value = "yes"
  PROVE  \A k \in 1..Len(nodes) : nodes[k].value = "yes"
<1> DEFINE n == Len(nodes)
           f == CHOOSE f : IsUpTo("and", nodes, n, f)
<1>1. IsUpTo("and", nodes, n, f)
  <2>1. \E g : IsUpTo("and", nodes, n, g)
    BY UpToExists
  <2> QED BY <2>1
<1>2. f[n].value = "yes"
  BY DEF Conjunction, Joined, IsUpTo
<1> HIDE DEF f
<1>3. ASSUME NEW k \in 1..n
      PROVE  f[k] = IF k = 1 THEN nodes[1] ELSE And(f[k - 1], nodes[k])
  BY <1>1 DEF IsUpTo, Join
<1>4. ASSUME NEW k \in 2..n, f[k].value = "yes"
      PROVE  f[k - 1].value = "yes" /\ nodes[k].value = "yes"
  <2>1. f[k] = And(f[k - 1], nodes[k])
    BY <1>3
  <2>2. f[k].value = IF f[k - 1].value = "yes" THEN nodes[k].value ELSE f[k - 1].value
    BY <2>1 DEF And, Node
  <2> QED BY <1>4, <2>2
<1> DEFINE Bad == {m \in Nat : m < n /\ f[n - m].value # "yes"}
<1>5. Bad = {}
  <2> SUFFICES ASSUME Bad # {}
               PROVE  FALSE
    OBVIOUS
  <2>1. PICK m \in Bad : \A x \in Bad : m <= x
    <3>1. Bad \in SUBSET Nat
      OBVIOUS
    <3> HIDE DEF Bad
    <3> QED BY <3>1, LeastNumber
  <2>2. m \in Nat /\ m < n /\ f[n - m].value # "yes" /\ n - 0 = n
    OBVIOUS
  <2>3. m # 0
    <3> HIDE DEF n
    <3> QED BY <1>2, <2>2
  <2>4. m - 1 \in Nat /\ m - 1 < n /\ ~(m <= m - 1) /\ n - (m - 1) \in 2..n
        /\ (n - (m - 1)) - 1 = n - m
    BY <2>2, <2>3
  <2>5. f[n - (m - 1)].value = "yes"
    <3> HIDE DEF n
    <3> QED BY <2>1, <2>4
  <2> HIDE DEF n
  <2>6. f[(n - (m - 1)) - 1].value = "yes"
    BY <1>4, <2>4, <2>5
  <2> QED BY <2>2, <2>4, <2>6
<1>6. ASSUME NEW k \in 1..n
      PROVE  nodes[k].value = "yes"
  <2>1. n - k \in Nat /\ n - k < n /\ n - (n - k) = k
    OBVIOUS
  <2>2. f[k].value = "yes"
    <3>1. n - k \notin Bad
      BY <1>5
    <3> HIDE DEF n
    <3> QED BY <2>1, <3>1
  <2>3. CASE k = 1
    BY <1>3, <2>2, <2>3
  <2>4. CASE k # 1
    <3>1. k \in 2..n
      BY <2>4
    <3> QED BY <1>4, <2>2, <3>1
  <2> QED BY <2>3, <2>4
<1> QED
  BY <1>6

LEMMA OneDisjunct ==
  ASSUME NEW n
  PROVE  Disjunction(<<n>>) = n
<1> DEFINE nodes == <<n>>
           IsIt(g) == g = [k \in 1..Len(nodes) |-> IF k = 1 THEN nodes[1] ELSE Join("or", g[k - 1], nodes[k])]
           f == CHOOSE g : IsIt(g)
           h == [k \in 1..1 |-> n]
<1>1. Len(nodes) = 1 /\ nodes[1] = n
  OBVIOUS
<1> HIDE DEF nodes
<1>2. h = [k \in 1..Len(nodes) |-> IF k = 1 THEN nodes[1] ELSE Join("or", h[k - 1], nodes[k])]
  BY <1>1
<1>3. IsIt(h)
  <2> HIDE DEF h
  <2> QED BY <1>2
<1> HIDE DEF h
<1>4. IsIt(f)
  <2> HIDE DEF IsIt
  <2> QED BY <1>3
<1>5. Disjunction(nodes) = f[Len(nodes)]
  BY DEF Disjunction, Joined
<1> HIDE DEF f
<1>6. 1 \in 1..Len(nodes)
  BY <1>1
<1>7. f[1] = n
  BY <1>1, <1>4, <1>6
<1> QED
  BY <1>1, <1>5, <1>7 DEF nodes

-----------------------------------------------------------------------------
(* In a text without "not" and without an "or" between its ends, a part    *)
(* that holds has its scope terms hold: they are comparisons under "and".  *)
Plain(t) ==
  /\ \A i \in 1..Len(t) : ~WordAt(t, i, "not")
  /\ \A i \in 2..(Len(t) - 1) : ~WordAt(t, i, "or")

HoldsAs(kind, node) ==
  CASE kind = "unary" -> node.value = "yes"
    [] kind = "and" -> \A k \in 1..Len(node) : node[k].value = "yes"
    [] OTHER -> node[1].value = "yes"

Good(t, c, i, kind, r) ==
  /\ Formed(t, i, kind, r)
  /\ kind = "or" => Len(r.node) = 1
  /\ HoldsAs(kind, r.node) /\ ~MarkAt(t, r.next, "=") => Covered(t, c, i, r.next)

AllGood(t, c, first, p) ==
  \A i \in first..(Len(t) + 1), kind \in Kinds : \A r \in p[<<i, kind>>] : Good(t, c, i, kind, r)

LEMMA UnaryIsGood ==
  ASSUME NEW t, Len(t) \in Nat, Plain(t), NEW c, NEW i \in Int, 1 <= i, NEW p,
         AllGood(t, c, i + 1, p), NEW y \in ParseUnary(t, c, i, p)
  PROVE  Good(t, c, i, "unary", y)
<1>1. AllFormed(t, i + 1, p)
  BY DEF AllGood, AllFormed, Good
<1>2. ReadTo(t, i, y.next)
  BY <1>1, UnaryIsFormed
<1>3. ~WordAt(t, i, "not")
  <2>1. WordAt(t, i, "not") => i \in 1..Len(t)
    BY DEF WordAt
  <2> QED BY <2>1 DEF Plain
<1> SUFFICES ASSUME y.node.value = "yes", ~MarkAt(t, y.next, "=")
             PROVE  Covered(t, c, i, y.next)
  BY <1>2 DEF Good, Formed, HoldsAs
<1>4. CASE MarkAt(t, i, "(")
  <2>1. PICK r \in p[<<i + 1, "or">>] :
          MarkAt(t, r.next, ")") /\ y = Found(Disjunction(r.node), r.next + 1)
    BY <1>3, <1>4 DEF ParseUnary
  <2>2. i + 1 \in (i + 1)..(Len(t) + 1)
    BY <1>4 DEF MarkAt
  <2>3. Good(t, c, i + 1, "or", r)
    BY <2>1, <2>2 DEF AllGood, Kinds
  <2>4. ReadTo(t, i + 1, r.next) /\ Len(r.node) = 1 /\ IsNodes(r.node)
    BY <2>3 DEF Good, Formed
  <2>5. r.node = <<r.node[1]>>
    <3>1. PICK S : r.node \in Seq(S)
      BY <2>4 DEF IsNodes
    <3> QED BY <2>4, <3>1
  <2>6. y.node = Disjunction(r.node) /\ y.next = r.next + 1
    BY <2>1 DEF Found
  <2>7. r.node[1].value = "yes"
    <3>1. Disjunction(<<r.node[1]>>) = r.node[1]
      BY OneDisjunct
    <3>2. Disjunction(r.node) = r.node[1]
      BY <2>5, <3>1
    <3> QED BY <2>6, <3>2
  <2>8. ~MarkAt(t, r.next, "=")
    <3>1. ")" # "="
      OBVIOUS
    <3> QED BY <2>1, <3>1, OneMark
  <2>9. Covered(t, c, i + 1, r.next)
    BY <2>3, <2>7, <2>8 DEF Good, HoldsAs
  <2>10. ASSUME NEW s \in i..(y.next - 1), ScopeAt(t, s)
         PROVE  Says(t, c, s)
    <3>1. s \in Int /\ (s = i \/ s = r.next \/ s \in (i + 1)..(r.next - 1))
      <4>1. r.next \in Int /\ i + 1 < r.next
        BY <2>4 DEF ReadTo
      <4>2. s \in i..r.next
        BY <2>6, <4>1
      <4> QED BY ONLY <4>1, <4>2, i \in Int
    <3>2. s # i
      BY <1>4, <2>10, <3>1, ScopesAreWords
    <3>3. s # r.next
      BY <2>1, <2>10, <3>1, ScopesAreWords
    <3> QED BY <2>9, <2>10, <3>1, <3>2, <3>3 DEF Covered
  <2> QED BY <2>10 DEF Covered
<1>5. CASE ~MarkAt(t, i, "(")
  <2>1. PICK r \in Comparison(t, i) : y = Found(Leaf(r.node, c), r.next)
    BY <1>3, <1>5 DEF ParseUnary, ParseComparison
  <2>2. y.next = r.next /\ y.node.value = Test(r.node, c)
    BY <2>1 DEF Found, Leaf, Node
  <2> QED BY <2>1, <2>2, ComparisonReads
<1> QED
  BY <1>4, <1>5

LEMMA AndIsGood ==
  ASSUME NEW t, Len(t) \in Nat, NEW c, NEW i \in Int, 1 <= i, NEW p,
         AllGood(t, c, i + 1, p), NEW firsts, \A r \in firsts : Good(t, c, i, "unary", r),
         \A j \in (i + 1)..(Len(t) + 1) : MarkAt(t, j, "=") => p[<<j, "and">>] = {},
         NEW y \in Chain(t, "and", firsts, p, "and")
  PROVE  Good(t, c, i, "and", y)
<1>1. AllFormed(t, i + 1, p)
  BY DEF AllGood, AllFormed, Good
<1>2. \A r \in firsts : ReadTo(t, i, r.next)
  BY DEF Good, Formed
<1>3. ReadTo(t, i, y.next) /\ IsNodes(y.node)
  BY <1>1, <1>2, ChainIsFormed
<1> SUFFICES ASSUME \A k \in 1..Len(y.node) : y.node[k].value = "yes", ~MarkAt(t, y.next, "=")
             PROVE  Covered(t, c, i, y.next)
  BY <1>3 DEF Good, Formed, HoldsAs
<1>4. CASE Ends(t, "and", firsts, y)
  <2>1. PICK r \in firsts : y.node = <<r.node>> /\ y.next = r.next
    BY <1>4 DEF Ends
  <2>2. r.node.value = "yes"
    BY <2>1, OneNode
  <2> QED BY <2>1, <2>2 DEF Good, HoldsAs
<1>5. CASE Continues(t, i, "and", firsts, "and", p, y)
  <2>1. PICK r \in firsts : \E s \in p[<<r.next + 1, "and">>] :
          /\ WordAt(t, r.next, "and") /\ y.node = <<r.node>> \o s.node /\ y.next = s.next
          /\ r.next \in Int /\ i < r.next /\ r.next <= Len(t)
    BY <1>5 DEF Continues
  <2>2. PICK s \in p[<<r.next + 1, "and">>] : y.node = <<r.node>> \o s.node /\ y.next = s.next
    BY <2>1
  <2>3. r.next \in Int /\ r.next + 1 \in (i + 1)..(Len(t) + 1) /\ WordAt(t, r.next, "and")
    BY <2>1
  <2>4. Good(t, c, r.next + 1, "and", s)
    BY <2>2, <2>3 DEF AllGood, Kinds
  <2>5. ReadTo(t, r.next + 1, s.next) /\ IsNodes(s.node)
    BY <2>4 DEF Good, Formed
  <2>6. /\ Len(s.node) \in Nat /\ Len(y.node) = Len(s.node) + 1 /\ y.node[1] = r.node
        /\ \A k \in 1..Len(s.node) : y.node[k + 1] = s.node[k]
    <3>1. y.node = <<r.node>> \o s.node
      BY <2>2
    <3>2. LET w == <<r.node>> \o s.node
          IN  /\ Len(s.node) \in Nat \ {0} /\ Len(w) = Len(s.node) + 1 /\ w[1] = r.node
              /\ \A k \in 1..Len(s.node) : w[k + 1] = s.node[k]
      BY ONLY <2>5, OneMore
    <3>3. Len(s.node) \in Nat
      BY ONLY <3>2
    <3> QED BY ONLY <3>1, <3>2, <3>3, Zenon
  <2>7. r.node.value = "yes" /\ \A k \in 1..Len(s.node) : s.node[k].value = "yes"
    <3>1. 1 \in 1..Len(y.node) /\ \A k \in 1..Len(s.node) : k + 1 \in 1..Len(y.node)
      BY <2>6
    <3> QED BY <2>6, <3>1
  <2>8. Covered(t, c, i, r.next)
    <3>1. ~MarkAt(t, r.next, "=")
      BY <2>3, MarksAreNoOperands
    <3> QED BY <2>7, <3>1 DEF Good, HoldsAs
  <2>9. Covered(t, c, r.next + 1, s.next)
    BY <2>2, <2>4, <2>7 DEF Good, HoldsAs
  <2>10. ~ScopeAt(t, r.next)
    <3>1. ~MarkAt(t, r.next + 1, "=")
      BY <2>2, <2>3
    <3> QED BY <3>1 DEF ScopeAt
  <2>11. ASSUME NEW z \in i..(y.next - 1), ScopeAt(t, z)
         PROVE  Says(t, c, z)
    <3>1. z \in i..(r.next - 1) \/ z = r.next \/ z \in (r.next + 1)..(s.next - 1)
      <4>1. s.next \in Int /\ z \in i..(s.next - 1)
        BY <2>2, <2>5 DEF ReadTo
      <4> QED BY ONLY <4>1, <2>3, i \in Int
    <3> QED BY <2>8, <2>9, <2>10, <2>11, <3>1 DEF Covered
  <2> QED BY <2>11 DEF Covered
<1> QED
  BY <1>2, <1>4, <1>5, InChain

LEMMA OrIsGood ==
  ASSUME NEW t, Len(t) \in Nat, Plain(t), NEW c, NEW i \in Int, 1 <= i, NEW p,
         AllGood(t, c, i + 1, p), NEW ands, \A r \in ands : Good(t, c, i, "and", r),
         NEW y \in Chain(t, "or", {Found(Conjunction(r.node), r.next) : r \in ands}, p, "or")
  PROVE  Good(t, c, i, "or", y)
<1> DEFINE firsts == {Found(Conjunction(r.node), r.next) : r \in ands}
<1>1. AllFormed(t, i + 1, p)
  BY DEF AllGood, AllFormed, Good
<1>2. \A r \in firsts : ReadTo(t, i, r.next)
  BY DEF Good, Formed, Found
<1>3. y \in Chain(t, "or", firsts, p, "or")
  OBVIOUS
<1>4. ReadTo(t, i, y.next) /\ IsNodes(y.node)
  <2> HIDE DEF firsts
  <2> QED BY <1>1, <1>2, <1>3, ChainIsFormed
<1>5. ~Continues(t, i, "or", firsts, "or", p, y)
  <2> SUFFICES ASSUME NEW r \in firsts, NEW s \in p[<<r.next + 1, "or">>],
                      WordAt(t, r.next, "or"), r.next \in Int, i < r.next, r.next <= Len(t)
               PROVE  FALSE
    BY DEF Continues
  <2>1. r.next \notin 2..(Len(t) - 1)
    BY DEF Plain
  <2>2. r.next = Len(t)
    BY ONLY <2>1, r.next \in Int, i < r.next, r.next <= Len(t), i \in Int, 1 <= i, Len(t) \in Nat
  <2>3. r.next + 1 \in (i + 1)..(Len(t) + 1)
    BY <2>2
  <2>4. ReadTo(t, r.next + 1, s.next)
    BY <2>3 DEF AllGood, Good, Formed, Kinds
  <2> QED BY <2>2, <2>4 DEF ReadTo
<1>6. Ends(t, "or", firsts, y)
  <2> HIDE DEF firsts
  <2> QED BY <1>2, <1>3, <1>5, InChain
<1>7. PICK r \in ands : y.node = <<Conjunction(r.node)>> /\ y.next = r.next
  <2>1. PICK x \in firsts : y.node = <<x.node>> /\ y.next = x.next
    BY <1>6 DEF Ends
  <2>2. PICK r \in ands : x = Found(Conjunction(r.node), r.next)
    BY <2>1
  <2> QED BY <2>1, <2>2 DEF Found
<1>8. Len(y.node) = 1 /\ y.node[1] = Conjunction(r.node)
  BY <1>7, OneNode
<1>9. ASSUME y.node[1].value = "yes", ~MarkAt(t, y.next, "=")
      PROVE  Covered(t, c, i, y.next)
  <2>1. IsNodes(r.node)
    BY DEF Good, Formed
  <2>2. Len(r.node) \in Nat \ {0}
    BY <2>1, OneMore
  <2>3. \A k \in 1..Len(r.node) : r.node[k].value = "yes"
    BY <1>8, <1>9, <2>2, ConjunctionHolds
  <2> QED BY <1>7, <1>9, <2>3 DEF Good, HoldsAs
<1> QED
  BY <1>4, <1>8, <1>9 DEF Good, Formed, HoldsAs

LEMMA NothingBeginsWithAMark ==
  ASSUME NEW t, Len(t) \in Nat, NEW c, NEW i \in Int, MarkAt(t, i, "="), NEW p
  PROVE  /\ ParseUnary(t, c, i, p) = {}
         /\ p[<<i, "unary">>] = {} => ParseAnd(t, i, p) = {}
<1>1. ~WordAt(t, i, "not") /\ Operand(t, i) = {}
  BY MarksAreNoOperands
<1>2. ~MarkAt(t, i, "(")
  <2>1. "(" # "="
    OBVIOUS
  <2> QED BY <2>1, OneMark
<1>3. Comparison(t, i) = {}
  BY <1>1 DEF Comparison
<1> QED
  BY <1>1, <1>2, <1>3 DEF ParseUnary, ParseComparison, ParseAnd, Chain

LEMMA ReadsAreGood ==
  ASSUME NEW t, Len(t) \in Nat, Plain(t), NEW c
  PROVE  AllGood(t, c, 1, Reads(t, c))
<1> DEFINE p == Reads(t, c)
           N == Len(t) + 1
           Right(i) == \A kind \in Kinds : \A r \in p[<<i, kind>>] : Good(t, c, i, kind, r)
           Bad == {m \in Nat : m < N /\ ~Right(N - m)}
<1>1. p = [k \in Keys(t, 1) |-> ReadStep(t, c, k, p)]
  BY ReadsExist DEF IsReads
<1> HIDE DEF p
<1>2. ASSUME NEW i \in 1..N
      PROVE  /\ p[<<i, "unary">>] = ParseUnary(t, c, i, p)
             /\ p[<<i, "and">>] = ParseAnd(t, i, p)
             /\ p[<<i, "or">>] = ParseOr(t, i, p)
  <2>1. \A kind \in Kinds : <<i, kind>> \in Keys(t, 1) /\ p[<<i, kind>>] = ReadStep(t, c, <<i, kind>>, p)
    <3>1. \A kind \in Kinds : <<i, kind>> \in Keys(t, 1)
      BY DEF Keys
    <3> QED BY <1>1, <3>1
  <2>2. /\ ReadStep(t, c, <<i, "unary">>, p) = ParseUnary(t, c, i, p)
        /\ ReadStep(t, c, <<i, "and">>, p) = ParseAnd(t, i, p)
        /\ ReadStep(t, c, <<i, "or">>, p) = ParseOr(t, i, p)
    BY DEF ReadStep
  <2> QED BY <2>1, <2>2 DEF Kinds
<1>3. ASSUME NEW j \in 1..N, MarkAt(t, j, "=")
      PROVE  p[<<j, "and">>] = {}
  <2>1. j \in Int
    OBVIOUS
  <2>2. ParseUnary(t, c, j, p) = {}
    BY <1>3, <2>1, NothingBeginsWithAMark
  <2>3. p[<<j, "unary">>] = {}
    BY <1>2, <2>2
  <2>4. ParseAnd(t, j, p) = {}
    BY <1>3, <2>1, <2>3, NothingBeginsWithAMark
  <2> QED BY <1>2, <2>4
<1>4. Bad = {}
  <2> SUFFICES ASSUME Bad # {}
               PROVE  FALSE
    OBVIOUS
  <2>1. PICK m \in Bad : \A x \in Bad : m <= x
    <3>1. Bad \in SUBSET Nat
      OBVIOUS
    <3> HIDE DEF Bad
    <3> QED BY <3>1, LeastNumber
  <2> DEFINE i == N - m
  <2>2. m \in Nat /\ i \in 1..N /\ i \in Int /\ 1 <= i /\ ~Right(i)
    <3> HIDE DEF Right
    <3> QED BY <2>1
  <2>3. AllGood(t, c, i + 1, p)
    <3> SUFFICES ASSUME NEW j \in (i + 1)..(Len(t) + 1)
                 PROVE  Right(j)
      BY DEF AllGood
    <3>1. N - j \in Nat /\ N - j < N /\ N - (N - j) = j /\ N - j < m
      BY <2>2
    <3>2. N - j \notin Bad
      <4> HIDE DEF Bad
      <4> QED BY <2>1, <2>2, <3>1
    <3> HIDE DEF Right
    <3> QED BY <3>1, <3>2
  <2>4. \A j \in (i + 1)..(Len(t) + 1) : MarkAt(t, j, "=") => p[<<j, "and">>] = {}
    <3> TAKE j \in (i + 1)..(Len(t) + 1)
    <3>1. j \in 1..N
      BY <2>2
    <3> QED BY <1>3, <3>1
  <2> HIDE DEF i, N
  <2>5. \A r \in p[<<i, "unary">>] : Good(t, c, i, "unary", r)
    BY <1>2, <2>2, <2>3, UnaryIsGood
  <2>6. \A r \in p[<<i, "and">>] : Good(t, c, i, "and", r)
    <3> DEFINE firsts == p[<<i, "unary">>]
    <3>1. p[<<i, "and">>] = Chain(t, "and", firsts, p, "and")
      BY <1>2, <2>2 DEF ParseAnd
    <3>2. \A r \in firsts : Good(t, c, i, "unary", r)
      BY <2>5
    <3> HIDE DEF firsts
    <3> QED BY <2>2, <2>3, <2>4, <3>1, <3>2, AndIsGood
  <2>7. \A r \in p[<<i, "or">>] : Good(t, c, i, "or", r)
    <3> DEFINE ands == p[<<i, "and">>]
    <3>1. p[<<i, "or">>] = Chain(t, "or", {Found(Conjunction(r.node), r.next) : r \in ands}, p, "or")
      BY <1>2, <2>2 DEF ParseOr, Conjunctions
    <3>2. \A r \in ands : Good(t, c, i, "and", r)
      BY <2>6
    <3> HIDE DEF ands
    <3> QED BY <2>2, <2>3, <3>1, <3>2, OrIsGood
  <2>8. Right(i)
    BY <2>5, <2>6, <2>7 DEF Kinds
  <2> QED BY <2>2, <2>8
<1>5. ASSUME NEW j \in 1..N
      PROVE  Right(j)
  <2>1. N - j \in Nat /\ N - j < N /\ N - (N - j) = j
    OBVIOUS
  <2>2. N - j \notin Bad
    BY <1>4
  <2> HIDE DEF Right, N
  <2> QED BY <2>1, <2>2
<1> HIDE DEF Right
<1>6. \A i \in 1..(Len(t) + 1), kind \in Kinds : \A r \in p[<<i, kind>>] : Good(t, c, i, kind, r)
  BY <1>5 DEF Right
<1> QED
  BY <1>6 DEF AllGood, p

LEMMA ScopesHold ==
  ASSUME NEW t, Len(t) \in Nat, t # <<>>, Plain(t), NEW c, EvalWhere(t, c),
         NEW s \in 1..Len(t), ScopeAt(t, s)
  PROVE  Says(t, c, s)
<1>1. PICK r \in Reads(t, c)[<<1, "or">>] : r.next = Len(t) + 1 /\ Disjunction(r.node).value = "yes"
  BY DEF EvalWhere, Parsed
<1>2. Good(t, c, 1, "or", r)
  <2>1. 1 \in 1..(Len(t) + 1)
    OBVIOUS
  <2> QED BY <2>1, ReadsAreGood DEF AllGood, Kinds
<1>3. Len(r.node) = 1 /\ IsNodes(r.node)
  BY <1>2 DEF Good, Formed
<1>4. r.node = <<r.node[1]>>
  <2>1. PICK S : r.node \in Seq(S)
    BY <1>3 DEF IsNodes
  <2> QED BY <1>3, <2>1
<1>5. r.node[1].value = "yes"
  <2>1. Disjunction(<<r.node[1]>>) = r.node[1]
    BY OneDisjunct
  <2>2. Disjunction(r.node) = r.node[1]
    BY <1>4, <2>1
  <2> QED BY <1>1, <2>2
<1>6. ~MarkAt(t, r.next, "=")
  BY <1>1 DEF MarkAt
<1>7. Covered(t, c, 1, r.next)
  BY <1>2, <1>5, <1>6 DEF Good, HoldsAs
<1>8. s \in 1..(r.next - 1)
  BY <1>1
<1> QED
  BY <1>7, <1>8 DEF Covered

-----------------------------------------------------------------------------
(* The index.  The keys of an index are those of the records there are,    *)
(* whichever definition it was built under.                                *)
KeysAreRight(e, x) ==
  \A f \in DOMAIN x.keys : x.keys[f] = [id \in IdsOf(e) |-> IdxKey(ValueAt(Raw(id), f))]

IndexInv ==
  /\ model \in Definitions
  /\ IsFiniteSet(DOMAIN rows)
  /\ \A id \in DOMAIN rows :
       rows[id].entity \in Entities /\ rows[id].values \in Possible(rows[id].entity)
  /\ index = [e \in Entities |-> index[e]]
  /\ \A e \in Entities : \A x \in index[e] : KeysAreRight(e, x)

LEMMA BuiltRight ==
  ASSUME NEW e
  PROVE  KeysAreRight(e, Build(e))
BY DEF KeysAreRight, Build

LEMMA IndexRight ==
  ASSUME IndexInv, NEW e \in Entities
  PROVE  KeysAreRight(e, GetIndex(e))
<1> DEFINE kept == {x \in index[e] : x.count = Cardinality(IdsOf(e))}
<1>1. CASE kept # {}
  <2>1. GetIndex(e) \in kept
    BY <1>1 DEF GetIndex
  <2> QED BY <2>1 DEF IndexInv
<1>2. CASE kept = {}
  <2>1. GetIndex(e) = Build(e)
    BY <1>2 DEF GetIndex
  <2> QED BY <2>1, BuiltRight
<1> QED
  BY <1>1, <1>2

LEMMA IndexStarts == Init => IndexInv
<1> SUFFICES ASSUME Init
             PROVE  IndexInv
  OBVIOUS
<1>1. model \in Definitions /\ rows = FirstRows /\ index = [e \in Entities |-> {}]
  BY DEF Init, Definitions
<1>2. \A id \in DOMAIN rows : rows[id].values \in Possible(rows[id].entity)
  BY <1>1 DEF Possible
<1>3. index = [e \in Entities |-> index[e]] /\ \A e \in Entities : index[e] = {}
  BY <1>1
<1> QED
  BY <1>1, <1>2, <1>3, AccessAssumption DEF IndexInv

LEMMA WriteKeepsIndexRight ==
  ASSUME IndexInv, NEW e \in Entities, NEW id \in Ids[e], NEW values \in Legal[e], Write(e, id, values)
  PROVE  IndexInv'
<1> DEFINE row == [entity |-> e, values |-> values]
<1>1. rows' = Over(Entry(id, row), rows)
  BY DEF Write
<1>2. /\ DOMAIN rows' = DOMAIN rows \cup {id} /\ rows'[id] = row
      /\ \A x \in DOMAIN rows : x # id => rows'[x] = rows[x]
  BY <1>1 DEF Over, Entry
<1>3. IsFiniteSet(DOMAIN rows')
  BY <1>2, FS_AddElement DEF IndexInv
<1>4. \A x \in DOMAIN rows' :
        rows'[x].entity \in Entities /\ rows'[x].values \in Possible(rows'[x].entity)
  BY <1>2 DEF IndexInv, Possible
<1>5. index' = [y \in Entities |-> IF y = e THEN {} ELSE index[y]] /\ model' = model
  BY DEF Write, IndexInv
<1>6. ASSUME NEW y \in Entities, NEW x \in index'[y]
      PROVE  KeysAreRight(y, x)'
  <2>1. y # e /\ x \in index[y]
    BY <1>5
  <2>2. KeysAreRight(y, x)
    BY <2>1 DEF IndexInv
  <2>3. IdsOf(y)' = IdsOf(y) /\ \A z \in IdsOf(y) : Raw(z)' = Raw(z)
    <3>1. id \in DOMAIN rows => rows[id].entity = e
      BY DEF Write
    <3> QED BY <1>2, <2>1, <3>1 DEF IdsOf, Raw
  <2>4. KeysAreRight(y, x)' =
          \A f \in DOMAIN x.keys : x.keys[f] = [z \in IdsOf(y)' |-> IdxKey(ValueAt(Raw(z)', f))]
    BY DEF KeysAreRight
  <2> QED BY <2>2, <2>3, <2>4 DEF KeysAreRight
<1>7. index' = [y \in Entities |-> index'[y]]
  BY <1>5
<1>8. model' \in Definitions
  BY <1>5 DEF IndexInv
<1> QED
  BY <1>3, <1>4, <1>6, <1>7, <1>8 DEF IndexInv

LEMMA LookKeepsIndexRight ==
  ASSUME IndexInv, NEW a \in Actors, NEW e \in Entities, Look(a, e)
  PROVE  IndexInv'
<1>1. index' = [y \in Entities |-> IF y = e THEN {GetIndex(e)} ELSE index[y]]
      /\ UNCHANGED <<model, rows>>
  BY DEF Look, IndexInv
<1>2. ASSUME NEW y \in Entities, NEW x \in index'[y]
      PROVE  KeysAreRight(y, x)
  <2>1. y = e => x = GetIndex(e)
    BY <1>1
  <2>2. y # e => x \in index[y]
    BY <1>1
  <2> QED BY <2>1, <2>2, IndexRight DEF IndexInv
<1>3. ASSUME NEW y \in Entities, NEW x \in index'[y]
      PROVE  KeysAreRight(y, x)'
  <2>1. KeysAreRight(y, x)
    BY <1>2
  <2> QED BY <1>1, <2>1 DEF KeysAreRight, IdsOf, Raw
<1>4. index' = [y \in Entities |-> index'[y]]
  BY <1>1
<1> QED
  BY <1>1, <1>3, <1>4 DEF IndexInv

LEMMA IndexStaysRight == Spec => []IndexInv
<1>1. IndexInv /\ [Next]_vars => IndexInv'
  <2> SUFFICES ASSUME IndexInv, [Next]_vars
               PROVE  IndexInv'
    OBVIOUS
  <2>1. CASE \E e \in Entities : \E id \in Ids[e], values \in Legal[e] : Write(e, id, values)
    BY <2>1, WriteKeepsIndexRight
  <2>2. CASE \E m \in Models : Apply(m)
    <3>1. model' \in Definitions /\ UNCHANGED <<rows, index>>
      BY <2>2 DEF Apply, Definitions
    <3> QED BY <3>1 DEF IndexInv, KeysAreRight, IdsOf, Raw
  <2>3. CASE \E a \in Actors, e \in Entities : Look(a, e)
    BY <2>3, LookKeepsIndexRight
  <2>4. CASE \/ \E token \in Tokens : Type(token)
             \/ Wait
             \/ UNCHANGED vars
    <3>1. UNCHANGED <<model, rows, index>>
      BY <2>4 DEF Type, Wait, vars
    <3> QED BY <3>1 DEF IndexInv, KeysAreRight, IdsOf, Raw
  <2> QED BY <2>1, <2>2, <2>3, <2>4 DEF Next
<1> QED
  BY <1>1, IndexStarts, PTL DEF Spec

-----------------------------------------------------------------------------
(* The candidates.  Where a plain condition holds of a record, so do its   *)
(* scope terms, and the record has the key of the actor.                   *)
LEMMA SubjectIsRead ==
  ASSUME NEW segments \in Seq(STRING), segments # <<>>, segments[1] = "$me", Len(segments) <= 2,
         NEW a, NEW c, c.me = a.id, c.attrs = a.attrs
  PROVE  LitValue(segments, c) = Subject(a, segments)
<1>1. Len(segments) = 1 \/ Len(segments) = 2
  <2>1. Len(segments) \in Nat /\ Len(segments) # 0
    OBVIOUS
  <2>2. \A n \in Nat : n # 0 /\ n <= 2 => n = 1 \/ n = 2
    OBVIOUS
  <2> QED BY <2>1, <2>2
<1>2. CASE Len(segments) = 1
  <2>1. segments = <<"$me">>
    BY <1>2
  <2> QED BY <1>2, <2>1 DEF LitValue, Subject
<1>3. CASE Len(segments) = 2
  <2>1. Head(segments) = "$me"
    OBVIOUS
  <2>2. \A s : Len(<<s>>) = 1
    OBVIOUS
  <2>3. \A s : segments # <<s>>
    <3> SUFFICES ASSUME NEW s, segments = <<s>>
                 PROVE  FALSE
      OBVIOUS
    <3>1. Len(<<s>>) = 2
      BY ONLY <1>3, segments = <<s>>
    <3> QED BY ONLY <2>2, <3>1
  <2>4. LitValue(segments, c) = IF segments[2] \in DOMAIN c.attrs THEN c.attrs[segments[2]] ELSE Nil
    BY ONLY <1>3, <2>1, <2>3 DEF LitValue
  <2>5. Subject(a, segments) = ValueAt(a.attrs, segments[2])
    BY ONLY <1>3 DEF Subject
  <2> QED BY <2>4, <2>5 DEF ValueAt
<1> QED
  BY <1>1, <1>2, <1>3

LEMMA LiteralIsRead ==
  ASSUME NEW segments, NEW c
  PROVE  Resolve(<<"lit", segments>>, c) = {LitValue(segments, c)}
<1> DEFINE o == <<"lit", segments>>
<1>1. o[1] = "lit" /\ o[2] = segments
  OBVIOUS
<1> HIDE DEF o
<1>2. Resolve(o, c) = {LitValue(o[2], c)}
  BY <1>1 DEF Resolve
<1> QED
  BY <1>1, <1>2 DEF o

LEMMA TermHolds ==
  ASSUME NEW where \in Seq(Token), where # <<>>, Plain(where), NEW i \in ScopeTerms(where),
         NEW self, NEW a, NEW values, EvalWhere(where, CtxFor(self, a, values)),
         where[i][2][1] \notin {"true", "false", "null"}
  PROVE  LET f == where[i][2][1]
         IN  ValuesEqual(IF f \in DOMAIN values THEN values[f] ELSE Text(f),
                         Subject(a, where[i + 2][2]))
<1> DEFINE c == CtxFor(self, a, values)
           f == where[i][2][1]
           subject == where[i + 2][2]
<1>1. /\ i \in 1..(Len(where) - 2) /\ Len(where) \in Nat /\ i \in Int
      /\ where[i][1] = "word" /\ Len(where[i][2]) = 1 /\ f \notin Reserved
      /\ where[i + 1] = Mark("=")
      /\ where[i + 2][1] = "word" /\ subject[1] = "$me" /\ Len(subject) <= 2
  BY DEF ScopeTerms
<1>2. where[i] \in Token /\ where[i + 2] \in Token
  BY <1>1
<1>3. where[i][2] \in Seq(STRING) /\ subject \in Seq(STRING) /\ subject # <<>>
  BY <1>1, <1>2 DEF Token
<1>4. where[i][2] = <<f>>
  BY <1>1, <1>3
<1>5. Says(where, c, i)
  <2>1. ScopeAt(where, i) /\ i \in 1..Len(where)
    BY <1>1 DEF ScopeAt, MarkAt
  <2> QED BY <1>1, <2>1, ScopesHold
<1>6. Operand(where, i) = {<<"path", <<f>>>>}
  <2>1. Head(where[i][2]) = f
    BY <1>3, <1>4
  <2>2. ~(i > Len(where))
    BY <1>1
  <2>3. where[i][2] \notin {<<"true">>, <<"false">>, <<"null">>}
    BY <1>4
  <2> QED BY <1>1, <1>4, <2>1, <2>2, <2>3 DEF Operand
<1>7. Operand(where, i + 2) = {<<"lit", subject>>}
  <2>1. Head(subject) = "$me" /\ "$me" \in Reserved
    BY <1>1, <1>3 DEF Reserved
  <2>2. ~(i + 2 > Len(where))
    BY <1>1
  <2> QED BY <1>1, <2>1, <2>2 DEF Operand
<1>8. Compare(<<"path", <<f>>>>, "=", <<"lit", subject>>, c) = "yes"
  BY <1>5, <1>6, <1>7 DEF Says
<1>9. ~IsNull(<<"path", <<f>>>>) /\ ~IsNull(<<"lit", subject>>)
  <2>1. <<"path", <<f>>>>[1] # <<"lit", <<"null">>>>[1]
    OBVIOUS
  <2>2. <<"lit", subject>>[2][1] # <<"lit", <<"null">>>>[2][1]
    BY <1>1
  <2> QED BY <2>1, <2>2 DEF IsNull
<1>10. Resolve(<<"path", <<f>>>>, c) = {IF f \in DOMAIN values THEN values[f] ELSE Text(f)}
  <2>1. c.values = values
    BY DEF CtxFor, Context
  <2>2. Len(<<"path", <<f>>>>[2]) = 1 /\ <<"path", <<f>>>>[2][1] = f /\ <<"path", <<f>>>>[1] = "path"
    OBVIOUS
  <2> HIDE DEF c, f
  <2> QED BY <2>1, <2>2 DEF Resolve
<1>11. Resolve(<<"lit", subject>>, c) = {Subject(a, subject)}
  <2>1. c.me = a.id /\ c.attrs = a.attrs
    BY DEF CtxFor, Context
  <2> HIDE DEF c, subject
  <2>2. LitValue(subject, c) = Subject(a, subject)
    BY <1>1, <1>3, <2>1, SubjectIsRead
  <2> QED BY <2>2, LiteralIsRead
<1>12. \E l \in Resolve(<<"path", <<f>>>>, c), r \in Resolve(<<"lit", subject>>, c) : ValuesEqual(l, r)
  <2> HIDE DEF c, f, subject
  <2> QED BY <1>8, <1>9 DEF Compare, Answers
<1> HIDE DEF c
<1> QED
  BY <1>10, <1>11, <1>12

LEMMA LeastOfIndices ==
  ASSUME NEW S \in SUBSET Nat, S # {}
  PROVE  Min(S) \in S
<1>1. \E x \in S : \A y \in S : x =< y
  BY LeastNumber
<1> QED
  BY <1>1 DEF Min

LEMMA PlainIsPlain ==
  ASSUME NEW where \in Seq(Token), \A i \in DOMAIN where : where[i] # Word(<<"not">>),
         ~Disjunctive(where)
  PROVE  Plain(where) /\ Len(where) \in Nat
<1>1. DOMAIN where = 1..Len(where) /\ Len(where) \in Nat
  OBVIOUS
<1>2. \A i \in 1..Len(where) : ~WordAt(where, i, "not")
  BY <1>1 DEF WordAt
<1>3. \A i \in 2..(Len(where) - 1) : ~WordAt(where, i, "or")
  BY DEF WordAt, Disjunctive
<1> QED
  BY <1>1, <1>2, <1>3 DEF Plain

(* The bucket of a term that is served holds the records it holds of.      *)
LEMMA BucketHolds ==
  ASSUME NEW where \in Seq(Token), where # <<>>, Plain(where),
         NEW a, NEW e, NEW x, KeysAreRight(e, x), Served(where, x) # {},
         NEW id \in IdsOf(e), Raw(id) \in Possible(e),
         \A i \in ScopeTerms(where) : Keyed(where[i][2][1], Subject(a, where[i + 2][2]), e),
         EvalWhere(where, CtxFor("", a, Raw(id)))
  PROVE  id \in Bucket(where, x, a)
<1> DEFINE i == Min(Served(where, x))
           f == where[i][2][1]
           subject == Subject(a, where[i + 2][2])
<1>1. i \in Served(where, x)
  <2>1. Served(where, x) \in SUBSET Nat
    <3>1. ScopeTerms(where) \in SUBSET Nat
      <4>1. \A z \in ScopeTerms(where) : z \in 1..(Len(where) - 2)
        BY DEF ScopeTerms
      <4>2. Len(where) \in Nat
        BY ONLY where \in Seq(Token)
      <4>3. \A z \in 1..(Len(where) - 2) : z \in Nat
        BY ONLY <4>2
      <4> QED BY <4>1, <4>3
    <3> QED BY <3>1 DEF Served
  <2> QED BY <2>1, LeastOfIndices
<1> HIDE DEF i
<1>2. i \in ScopeTerms(where) /\ f \in DOMAIN x.keys
  BY <1>1 DEF Served
<1>3. Keyed(f, subject, e)
  BY <1>2
<1>4. ValuesEqual(IF f \in DOMAIN Raw(id) THEN Raw(id)[f] ELSE Text(f), subject)
  <2>1. f \notin {"true", "false", "null"}
    BY <1>3 DEF Keyed
  <2> QED BY <1>2, <2>1, TermHolds
<1>5. IdxKey(ValueAt(Raw(id), f)) = IdxKey(subject)
  <2> HIDE DEF f, subject
  <2> QED BY <1>3, <1>4 DEF Keyed
<1>6. x.keys[f] = [z \in IdsOf(e) |-> IdxKey(ValueAt(Raw(z), f))]
  BY <1>2 DEF KeysAreRight
<1>7. id \in DOMAIN x.keys[f] /\ x.keys[f][id] = IdxKey(subject)
  <2> HIDE DEF f, subject
  <2> QED BY <1>5, <1>6
<1>8. Bucket(where, x, a) = {z \in DOMAIN x.keys[f] : x.keys[f][z] = IdxKey(subject)}
  BY DEF Bucket, i
<1> QED
  BY <1>7, <1>8

LEMMA CandidatesAreEnough ==
  ASSUME ScopesArePlain, IndexInv, NEW a \in Actors, NEW e \in Entities,
         NEW id \in IdsOf(e), Readable(a, e, id)
  PROVE  id \in CandidateIDs(a, e)
<1> DEFINE x == GetIndex(e)
           items == {item \in UNION {rule.items : rule \in ReadRules(a.role)} :
                       item.all \/ item.entity = e}
           narrows(item) == /\ ~item.all /\ item.where # <<>>
                            /\ ~Disjunctive(item.where) /\ Served(item.where, x) # {}
           all == a.role \notin DOMAIN model.perms \/ items = {} \/ \E item \in items : ~narrows(item)
           found == UNION {Bucket(item.where, x, a) : item \in items}
<1>1. CandidateIDs(a, e) =
        IF all THEN IdsOf(e) ELSE found \cap IdsOf(e)
  BY DEF CandidateIDs
<1>2. CASE all
  <2> HIDE DEF all, items, x, found
  <2> QED BY <1>1, <1>2
<1>3. CASE ~all
  <2>1. a.role \in DOMAIN model.perms /\ items # {} /\ \A item \in items : narrows(item)
    BY <1>3
  <2>2. ASSUME NEW item \in items
        PROVE  /\ item \in Narrowing(model, a.role, e)
               /\ item.where \in Seq(Token)
    <3>1. PICK rule \in ReadRules(a.role) : item \in rule.items
      OBVIOUS
    <3>2. PICK k \in DOMAIN model.perms[a.role] : rule = model.perms[a.role][k]
      BY <3>1 DEF ReadRules, Rules
    <3>3. rule.verb \in {"read", "full"}
      BY <3>1 DEF ReadRules
    <3>4. /\ ~item.all /\ item.entity = e /\ ~Disjunctive(item.where)
          /\ ScopeTerms(item.where) # {}
      <4>1. narrows(item)
        BY <2>1
      <4>2. item.all \/ item.entity = e
        OBVIOUS
      <4> QED BY <4>1, <4>2 DEF Served
    <3>5. item \in Narrowing(model, a.role, e)
      BY <3>1, <3>2, <3>3, <3>4 DEF Narrowing
    <3>6. item \in Items(model, a.role)
      BY <3>1, <3>2 DEF Items
    <3>7. item.where \in Seq(Token)
      BY <2>1, <3>6, AccessAssumption DEF IndexInv
    <3> QED BY <3>5, <3>7
  <2>3. ASSUME NEW item \in items
        PROVE  /\ e \notin CoreEntities /\ Plain(item.where)
               /\ \A i \in ScopeTerms(item.where) :
                    Keyed(item.where[i][2][1], Subject(a, item.where[i + 2][2]), e)
    <3>1. /\ e \notin CoreEntities
          /\ \A i \in DOMAIN item.where : item.where[i] # Word(<<"not">>)
          /\ \A i \in ScopeTerms(item.where), b \in Actors :
               b.role = a.role => Keyed(item.where[i][2][1], Subject(b, item.where[i + 2][2]), e)
      <4> HIDE DEF items
      <4> QED BY <2>1, <2>2 DEF ScopesArePlain, IndexInv
    <3>2. ~Disjunctive(item.where)
      BY <2>1
    <3> HIDE DEF items
    <3> QED BY <2>2, <3>1, <3>2, PlainIsPlain
  <2>4. Allowed(a, "read", e, "", {Raw(id)})
    <3>1. e \notin CoreEntities
      <4> HIDE DEF items
      <4> QED BY <2>1, <2>3
    <3> QED BY <3>1 DEF Readable, Can
  <2>5. PICK item \in items : Holds(item, a, {Raw(id)})
    <3>1. PICK rule \in Rules(a.role) :
            \E item \in rule.items : ItemMatches(item, rule.verb, "read", e, "") /\ Holds(item, a, {Raw(id)})
      BY <2>4 DEF Allowed
    <3>2. PICK item \in rule.items : ItemMatches(item, rule.verb, "read", e, "") /\ Holds(item, a, {Raw(id)})
      BY <3>1
    <3>3. rule \in ReadRules(a.role) /\ (item.all \/ item.entity = e)
      BY <3>1, <3>2 DEF ItemMatches, ReadRules
    <3> QED BY <3>2, <3>3
  <2>6. narrows(item)
    BY <2>1
  <2>7. EvalWhere(item.where, CtxFor("", a, Raw(id)))
    BY <2>5, <2>6 DEF Holds
  <2>8. Raw(id) \in Possible(e)
    BY DEF IndexInv, IdsOf, Raw
  <2>9. KeysAreRight(e, x)
    BY IndexRight
  <2>10. item.where # <<>> /\ Served(item.where, x) # {}
    BY <2>6
  <2>11. id \in Bucket(item.where, x, a)
    <3> HIDE DEF items, x
    <3> QED BY <2>2, <2>3, <2>5, <2>7, <2>8, <2>9, <2>10, BucketHolds
  <2>12. id \in found
    <3> HIDE DEF items, x
    <3> QED BY <2>5, <2>11
  <2> HIDE DEF x, items, all, found
  <2> QED BY <1>1, <1>3, <2>12
<1> QED
  BY <1>2, <1>3

LEMMA QueryIsGet ==
  ASSUME ScopesArePlain, IndexInv, NEW a \in Actors, NEW e \in Entities
  PROVE  Query(a, e, text) =
           {x \in UNION {Get(a, e, id) : id \in IdsOf(e)} : Matches(a, x.id, text)}
<1>1. \A id : Answer(a, e, id).id = id
  BY DEF Answer
<1>2. CandidateIDs(a, e) \subseteq IdsOf(e)
  BY DEF CandidateIDs
<1>3. {id \in CandidateIDs(a, e) : Readable(a, e, id) /\ Matches(a, id, text)}
        = {id \in IdsOf(e) : Readable(a, e, id) /\ Matches(a, id, text)}
  BY <1>2, CandidatesAreEnough
<1>4. ASSUME NEW x
      PROVE  x \in UNION {Get(a, e, id) : id \in IdsOf(e)}
               <=> \E id \in IdsOf(e) : Readable(a, e, id) /\ x = Answer(a, e, id)
  BY DEF Get
<1>5. Query(a, e, text) =
        {Answer(a, e, id) : id \in {id \in IdsOf(e) : Readable(a, e, id) /\ Matches(a, id, text)}}
  BY <1>3 DEF Query
<1>6. ASSUME NEW x
      PROVE  x \in Query(a, e, text)
               <=> x \in UNION {Get(a, e, id) : id \in IdsOf(e)} /\ Matches(a, x.id, text)
  BY <1>1, <1>4, <1>5
<1> QED
  BY <1>6

-----------------------------------------------------------------------------
(* A dashboard.  The groups of a tile are a partition of what it counts.   *)
LEMMA GroupsAddUp ==
  ASSUME NEW S, IsFiniteSet(S), NEW g, NEW tile, DOMAIN tile = {g[id] : id \in S},
         \A k \in DOMAIN tile : tile[k][1] = Cardinality({id \in S : g[id] = k})
  PROVE  Total(tile) = Cardinality(S)
<1> DEFINE K == {g[id] : id \in S}
           of(s) == {id \in S : g[id] \in s}
           one(s) == CHOOSE x \in s : TRUE
           Step(h, s) == IF s = {} THEN 0 ELSE tile[one(s)][1] + h[s \ {one(s)}]
           Summed(h) == h = [s \in SUBSET K |-> Step(h, s)]
           sum == CHOOSE h : Summed(h)
           count == [s \in SUBSET K |-> Cardinality(of(s))]
<1>1. IsFiniteSet(K)
  <2> DEFINE f == [id \in S |-> g[id]]
  <2>1. f \in Surjection(S, K)
    BY DEF Surjection
  <2> HIDE DEF f
  <2> QED BY <2>1, FS_Surjection
<1>2. ASSUME NEW s
      PROVE  IsFiniteSet(of(s)) /\ Cardinality(of(s)) \in Nat
  <2>1. of(s) \in SUBSET S
    OBVIOUS
  <2> HIDE DEF of
  <2> QED BY <2>1, FS_Subset, FS_CardinalityType
<1>3. ASSUME NEW s \in SUBSET K, NEW x \in s
      PROVE  Cardinality(of(s)) = tile[x][1] + Cardinality(of(s \ {x}))
  <2>1. of(s) = of({x}) \cup of(s \ {x}) /\ of({x}) \cap of(s \ {x}) = {}
    OBVIOUS
  <2>2. tile[x][1] = Cardinality(of({x}))
    <3>1. x \in K /\ of({x}) = {id \in S : g[id] = x}
      OBVIOUS
    <3> HIDE DEF of
    <3> QED BY <3>1
  <2> HIDE DEF of
  <2>3. Cardinality(of({x}) \cup of(s \ {x})) =
          Cardinality(of({x})) + Cardinality(of(s \ {x})) - Cardinality(of({x}) \cap of(s \ {x}))
    BY <1>2, FS_Union
  <2>4. Cardinality(of({x}) \cap of(s \ {x})) = 0
    BY <2>1, FS_EmptySet
  <2>5. Cardinality(of({x})) \in Nat /\ Cardinality(of(s \ {x})) \in Nat
    BY <1>2
  <2>6. Cardinality(of(s)) = Cardinality(of({x})) + Cardinality(of(s \ {x}))
    <3>1. Cardinality(of(s)) =
            Cardinality(of({x})) + Cardinality(of(s \ {x})) - Cardinality(of({x}) \cap of(s \ {x}))
      BY <2>1, <2>3
    <3> QED BY ONLY <2>4, <2>5, <3>1
  <2> QED BY <2>2, <2>6
<1>4. Cardinality(of({})) = 0
  <2>1. of({}) = {}
    OBVIOUS
  <2> HIDE DEF of
  <2> QED BY <2>1, FS_EmptySet
<1>5. Summed(count)
  <2>1. ASSUME NEW s \in SUBSET K
        PROVE  count[s] = Step(count, s)
    <3>1. CASE s = {}
      <4> HIDE DEF of
      <4> QED BY <1>4, <3>1
    <3>2. CASE s # {}
      <4>1. one(s) \in s /\ s \ {one(s)} \in SUBSET K
        BY <3>2
      <4> HIDE DEF one, of
      <4>2. count[s] = tile[one(s)][1] + Cardinality(of(s \ {one(s)}))
        BY <1>3, <4>1
      <4> HIDE DEF K
      <4> QED BY <3>2, <4>1, <4>2
    <3> QED BY <3>1, <3>2
  <2>2. count = [s \in SUBSET K |-> count[s]]
    OBVIOUS
  <2> HIDE DEF count, Step, K
  <2> QED BY <2>1, <2>2
<1>6. Summed(sum)
  <2> HIDE DEF Summed, count
  <2> QED BY <1>5
<1>7. Total(tile) = sum[K]
  BY DEF Total, MapThenSumSet, MapThenFoldSet
<1> HIDE DEF sum
<1>8. ASSUME NEW s \in SUBSET K
      PROVE  sum[s] = Cardinality(of(s))
  <2> DEFINE Bad == {n \in Nat : \E z \in SUBSET K : Cardinality(z) = n /\ sum[z] # Cardinality(of(z))}
  <2>1. \A z \in SUBSET K : IsFiniteSet(z) /\ Cardinality(z) \in Nat
    <3> HIDE DEF K
    <3> QED BY <1>1, FS_Subset, FS_CardinalityType
  <2> SUFFICES ASSUME Bad # {}
               PROVE  FALSE
    <3> HIDE DEF of, K
    <3> QED BY <2>1
  <2>2. PICK n \in Bad : \A m \in Bad : n <= m
    <3>1. Bad \in SUBSET Nat
      OBVIOUS
    <3> HIDE DEF Bad
    <3> QED BY <3>1, LeastNumber
  <2>3. PICK z \in SUBSET K : Cardinality(z) = n /\ sum[z] # Cardinality(of(z))
    <3> HIDE DEF of, K
    <3> QED OBVIOUS
  <2>4. sum[z] = Step(sum, z)
    <3> HIDE DEF Step, K
    <3> QED BY <1>6
  <2>5. CASE z = {}
    <3> HIDE DEF of
    <3> QED BY <1>4, <2>3, <2>4, <2>5
  <2>6. CASE z # {}
    <3> DEFINE x == one(z)
               rest == z \ {x}
    <3>1. x \in z /\ rest \in SUBSET K
      BY <2>6
    <3>2. sum[z] = tile[x][1] + sum[rest]
      BY <2>4, <2>6
    <3> HIDE DEF x
    <3>3. Cardinality(of(z)) = tile[x][1] + Cardinality(of(rest))
      <4> HIDE DEF of, K
      <4> QED BY <1>3, <3>1
    <3>4. Cardinality(rest) = n - 1
      BY <2>1, <2>3, <3>1, FS_RemoveElement
    <3> HIDE DEF rest, of, K
    <3>5. Cardinality(rest) \in Nat /\ n \in Nat
      BY <2>1, <3>1
    <3>6. Cardinality(rest) \notin Bad
      <4> HIDE DEF Bad
      <4> QED BY <2>2, <3>4, <3>5
    <3>7. sum[rest] = Cardinality(of(rest))
      BY <3>1, <3>5, <3>6
    <3> QED BY <2>3, <3>2, <3>3, <3>7
  <2> QED BY <2>5, <2>6
<1>9. of(K) = S
  OBVIOUS
<1>10. sum[K] = Cardinality(of(K))
  <2>1. K \in SUBSET K
    OBVIOUS
  <2> HIDE DEF K, of
  <2> QED BY <1>8, <2>1
<1> HIDE DEF of
<1> QED
  BY <1>7, <1>9, <1>10

LEMMA GroupsAreCounted ==
  ASSUME NEW counted
  PROVE  LET tile == Grouped(counted, "count", "", "region")
         IN  \E g : /\ DOMAIN tile = {g[id] : id \in DOMAIN counted}
                   /\ \A k \in DOMAIN tile :
                        tile[k][1] = Cardinality({id \in DOMAIN counted : g[id] = k})
<1> DEFINE tile == Grouped(counted, "count", "", "region")
           g == [id \in DOMAIN counted |-> GroupKey(ValueAt(counted[id], "region"))]
           number == [id \in DOMAIN counted |-> ToFloat(ValueAt(counted[id], ""))]
<1>1. \A S, n : RollUp("count", S, n)[1] = Cardinality(S)
  BY DEF RollUp
<1>2. tile = [k \in {GroupKey(ValueAt(counted[id], "region")) : id \in DOMAIN counted} |->
                RollUp("count", {id \in DOMAIN counted : GroupKey(ValueAt(counted[id], "region")) = k}, number)]
  BY DEF Grouped
<1>3. \A id \in DOMAIN counted : g[id] = GroupKey(ValueAt(counted[id], "region"))
  OBVIOUS
<1> HIDE DEF g, number
<1>4. /\ {GroupKey(ValueAt(counted[id], "region")) : id \in DOMAIN counted} = {g[id] : id \in DOMAIN counted}
      /\ \A k : {id \in DOMAIN counted : GroupKey(ValueAt(counted[id], "region")) = k}
                 = {id \in DOMAIN counted : g[id] = k}
  BY <1>3
<1>5. DOMAIN tile = {g[id] : id \in DOMAIN counted}
  BY <1>2, <1>4
<1>6. ASSUME NEW k \in DOMAIN tile
      PROVE  tile[k][1] = Cardinality({id \in DOMAIN counted : g[id] = k})
  <2>1. tile[k] = RollUp("count", {id \in DOMAIN counted : GroupKey(ValueAt(counted[id], "region")) = k}, number)
    <3> HIDE DEF tile
    <3> QED BY <1>2
  <2> HIDE DEF tile
  <2> QED BY <1>1, <1>4, <2>1
<1> QED
  BY <1>5, <1>6

LEMMA TileCounts ==
  ASSUME IndexInv, NEW a, NEW e
  PROVE  LET given == UNION {Get(a, e, id) : id \in IdsOf(e)}
             found == {x \in given : Matches(a, x.id, text)}
             tile == Tile(a, e, "count", "", text, "region")
         IN  Cardinality(found) = Total(tile)
<1> DEFINE given == UNION {Get(a, e, id) : id \in IdsOf(e)}
           found == {x \in given : Matches(a, x.id, text)}
           counted == {id \in IdsOf(e) : Readable(a, e, id) /\ Matches(a, id, text)}
           values == [id \in counted |-> WithComputed(id)]
           tile == Grouped(values, "count", "", "region")
<1>1. Tile(a, e, "count", "", text, "region") = tile
  BY DEF Tile
<1>2. IsFiniteSet(counted)
  <2>1. counted \in SUBSET DOMAIN rows
    BY DEF IdsOf
  <2> HIDE DEF counted
  <2> QED BY <2>1, FS_Subset DEF IndexInv
<1>3. Cardinality(found) = Cardinality(counted)
  <2> DEFINE f == [id \in counted |-> Answer(a, e, id)]
  <2>1. \A id : Answer(a, e, id).id = id
    BY DEF Answer
  <2>2. ASSUME NEW x
        PROVE  x \in found <=> \E id \in counted : x = Answer(a, e, id)
    BY <2>1 DEF Get
  <2> HIDE DEF found, counted
  <2>3. f \in Bijection(counted, found)
    <3>1. f \in [counted -> found] /\ \A id \in counted : f[id].id = id
      BY <2>1, <2>2
    <3>2. \A x \in found : \E id \in counted : f[id] = x
      BY <2>2
    <3> HIDE DEF f
    <3>3. f \in Injection(counted, found)
      BY <3>1 DEF Injection, IsInjective
    <3>4. f \in Surjection(counted, found)
      BY <3>1, <3>2 DEF Surjection
    <3> QED BY <3>3, <3>4 DEF Bijection
  <2> HIDE DEF f
  <2>4. ExistsBijection(counted, found)
    BY <2>3 DEF ExistsBijection
  <2> QED BY <1>2, <2>4, FS_Bijection
<1>4. PICK g : /\ DOMAIN tile = {g[id] : id \in DOMAIN values}
               /\ \A k \in DOMAIN tile : tile[k][1] = Cardinality({id \in DOMAIN values : g[id] = k})
  <2> HIDE DEF values
  <2> QED BY GroupsAreCounted
<1>5. DOMAIN values = counted
  OBVIOUS
<1> HIDE DEF counted, values, found, tile
<1>6. Total(tile) = Cardinality(DOMAIN values)
  <2>1. IsFiniteSet(DOMAIN values)
    BY <1>2, <1>5
  <2> QED BY <1>4, <2>1, GroupsAddUp
<1>7. Cardinality(found) = Total(tile)
  BY <1>3, <1>5, <1>6
<1> QED
  BY <1>1, <1>7 DEF found

-----------------------------------------------------------------------------
(* What comes back is shown by the interface, and its files open.          *)
LEMMA WhatIsReadIsShown ==
  ASSUME NEW a, NEW e, NEW field, NEW record, Can(a, "read", e, field, record)
  PROVE  MetaReads(a, e, field)
<1>1. CASE e \in CoreEntities
  BY <1>1 DEF MetaReads, Can
<1>2. CASE e \notin CoreEntities
  <2>1. a.role \in DOMAIN model.perms /\ Allowed(a, "read", e, field, record)
    BY <1>2 DEF Can
  <2>2. PICK rule \in Rules(a.role) : \E item \in rule.items : ItemMatches(item, rule.verb, "read", e, field)
    BY <2>1 DEF Allowed
  <2>3. PICK item \in rule.items : ItemMatches(item, rule.verb, "read", e, field)
    BY <2>2
  <2>4. rule.verb \in {"read", "full"} /\ (item.all \/ item.entity = e)
    BY <2>3 DEF ItemMatches
  <2> QED BY <2>1, <2>4 DEF MetaReads, HasAnyRule
<1> QED
  BY <1>1, <1>2

(* Computed fields give numbers and leave the rest as it is.               *)
Adds(raw, values) ==
  \A f \in DOMAIN values : (f \in DOMAIN raw /\ values[f] = raw[f]) \/ values[f][1] = "num"

IsExtended(fields, id, n, g) ==
  g = [i \in 0..n |-> IF i = 0 THEN Raw(id) ELSE Extended(fields[i], id, g[i - 1])]

LEMMA FieldAdds ==
  ASSUME NEW raw, NEW values, Adds(raw, values), NEW field, NEW id
  PROVE  Adds(raw, Extended(field, id, values))
<1>1. ASSUME NEW name, NEW found
      PROVE  Adds(raw, WithField(name, found, values))
  <2>1. CASE found = {}
    BY <2>1 DEF WithField
  <2>2. CASE found # {}
    <3> DEFINE v == Num(CHOOSE n \in found : TRUE)
               new == Over(Entry(name, v), values)
    <3>1. v[1] = "num"
      BY DEF Num
    <3> HIDE DEF v
    <3>2. DOMAIN new = DOMAIN values \cup {name} /\ new[name] = v
          /\ \A f \in DOMAIN values : f # name => new[f] = values[f]
      BY DEF Over, Entry
    <3> HIDE DEF new
    <3>3. Adds(raw, new)
      BY <3>1, <3>2 DEF Adds
    <3>4. WithField(name, found, values) = new
      BY <2>2 DEF WithField, new, v
    <3> QED BY <3>3, <3>4
  <2> QED BY <2>1, <2>2
<1> QED
  BY <1>1 DEF Extended

LEMMA ExtendedExists ==
  ASSUME NEW fields, NEW id, NEW n \in Nat
  PROVE  \E g : IsExtended(fields, id, n, g) /\ Adds(Raw(id), g[n])
<1> DEFINE Fine(m) == \E g : IsExtended(fields, id, m, g) /\ Adds(Raw(id), g[m])
           Bad == {m \in Nat : ~Fine(m)}
           Step(f, i) == IF i = 0 THEN Raw(id) ELSE Extended(fields[i], id, f[i - 1])
<1> SUFFICES ASSUME Bad # {}
             PROVE  FALSE
  OBVIOUS
<1>1. PICK m \in Bad : \A x \in Bad : m <= x
  <2>1. Bad \in SUBSET Nat
    OBVIOUS
  <2> HIDE DEF Bad
  <2> QED BY <2>1, LeastNumber
<1>2. m # 0
  <2> DEFINE g == [i \in 0..0 |-> Raw(id)]
  <2>1. g = [i \in 0..0 |-> Step(g, i)] /\ g[0] = Raw(id)
    OBVIOUS
  <2> HIDE DEF g
  <2>2. IsExtended(fields, id, 0, g) /\ Adds(Raw(id), g[0])
    BY <2>1 DEF IsExtended, Adds
  <2> QED BY <1>1, <2>2
<1>3. PICK g : IsExtended(fields, id, m - 1, g) /\ Adds(Raw(id), g[m - 1])
  <2>1. m - 1 \in Nat /\ m - 1 \notin Bad
    BY <1>1, <1>2
  <2> QED BY <2>1
<1> DEFINE h == [i \in 0..m |-> IF i < m THEN g[i] ELSE Step(g, i)]
<1>4. ASSUME NEW i \in 0..m
      PROVE  h[i] = Step(h, i)
  <2>1. m \in Nat /\ i \in Int
    BY <1>1
  <2>2. i # 0 => i - 1 \in 0..m /\ i - 1 < m
    BY <2>1
  <2>3. Step(h, i) = Step(g, i)
    BY <2>2
  <2>4. i < m => g[i] = Step(g, i)
    <3>1. i < m => i \in 0..(m - 1)
      BY <2>1
    <3>2. g = [x \in 0..(m - 1) |-> Step(g, x)]
      BY <1>3 DEF IsExtended
    <3> HIDE DEF Step
    <3> QED BY <3>1, <3>2
  <2> QED BY <2>3, <2>4
<1>5. h = [i \in 0..m |-> Step(h, i)]
  <2>1. h = [i \in 0..m |-> h[i]]
    OBVIOUS
  <2> HIDE DEF h, Step
  <2> QED BY <1>4, <2>1
<1>6. IsExtended(fields, id, m, h)
  <2> HIDE DEF h
  <2> QED BY <1>5 DEF IsExtended
<1>7. Adds(Raw(id), h[m])
  <2>1. m \in 0..m /\ h[m] = Extended(fields[m], id, g[m - 1])
    BY <1>1, <1>2
  <2> HIDE DEF h
  <2> QED BY <1>3, <2>1, FieldAdds
<1> QED
  <2> HIDE DEF h
  <2> QED BY <1>1, <1>6, <1>7

LEMMA ComputedAdds ==
  ASSUME IndexInv, NEW id \in DOMAIN rows
  PROVE  Adds(Raw(id), WithComputed(id))
<1> DEFINE fields == model.fields[rows[id].entity]
           n == Len(fields)
           extended == CHOOSE g : IsExtended(fields, id, n, g)
<1>1. n \in Nat
  BY AccessAssumption DEF IndexInv
<1>2. WithComputed(id) = extended[n]
  BY DEF WithComputed, IsExtended
<1> HIDE DEF fields, n
<1>3. PICK g : IsExtended(fields, id, n, g) /\ Adds(Raw(id), g[n])
  BY <1>1, ExtendedExists
<1>4. IsExtended(fields, id, n, extended)
  BY <1>3
<1> HIDE DEF extended
<1> DEFINE Bad == {m \in Nat : m <= n /\ ~Adds(Raw(id), extended[m])}
<1>5. ASSUME NEW m \in 0..n
      PROVE  extended[m] = IF m = 0 THEN Raw(id) ELSE Extended(fields[m], id, extended[m - 1])
  BY <1>4 DEF IsExtended
<1>6. Bad = {}
  <2> SUFFICES ASSUME Bad # {}
               PROVE  FALSE
    OBVIOUS
  <2>1. PICK m \in Bad : \A x \in Bad : m <= x
    <3>1. Bad \in SUBSET Nat
      OBVIOUS
    <3> HIDE DEF Bad
    <3> QED BY <3>1, LeastNumber
  <2>2. m \in 0..n /\ m \in Nat
    BY <1>1
  <2>3. m # 0
    <3>1. m = 0 => extended[m] = Raw(id)
      BY <1>5, <2>2
    <3>2. Adds(Raw(id), Raw(id))
      BY DEF Adds
    <3> QED BY <3>1, <3>2
  <2>4. m - 1 \in Nat /\ m - 1 <= n /\ ~(m <= m - 1)
    BY <1>1, <2>2, <2>3
  <2>5. m - 1 \notin Bad
    <3> HIDE DEF Bad
    <3> QED BY <2>1, <2>4
  <2>6. Adds(Raw(id), extended[m - 1])
    BY <2>4, <2>5
  <2>7. extended[m] = Extended(fields[m], id, extended[m - 1])
    BY <1>5, <2>2, <2>3
  <2>8. Adds(Raw(id), extended[m])
    BY <2>6, <2>7, FieldAdds
  <2> QED BY <2>8
<1>7. Adds(Raw(id), extended[n])
  <2>1. n <= n
    BY <1>1
  <2> QED BY <1>1, <1>6, <2>1
<1> QED
  BY <1>2, <1>7

LEMMA FilesOpen ==
  ASSUME FilesAreDeclared, IndexInv, NEW a, NEW e \in Entities, NEW id \in IdsOf(e),
         Readable(a, e, id), NEW f \in DOMAIN WithComputed(id), WithComputed(id)[f][1] = "file"
  PROVE  ActorCanReadFile(a, WithComputed(id)[f][2])
<1>1. id \in DOMAIN rows /\ rows[id].entity = e /\ Raw(id) = rows[id].values
  BY DEF IdsOf, Raw
<1>2. f \in DOMAIN Raw(id) /\ WithComputed(id)[f] = Raw(id)[f]
  <2>1. Adds(Raw(id), WithComputed(id))
    BY <1>1, ComputedAdds
  <2> QED BY <2>1 DEF Adds
<1>3. Raw(id) \in Possible(e) /\ model \in Definitions
  BY <1>1 DEF IndexInv
<1>4. Raw(id)[f][1] = "file"
  BY <1>2
<1>5. Raw(id)[f] = <<"file", Raw(id)[f][2]>> /\ HasFileField(e)
  BY <1>2, <1>3, <1>4 DEF FilesAreDeclared, HasFileField
<1> QED
  BY <1>1, <1>2, <1>5 DEF ActorCanReadFile

LEMMA IndexIsOneView ==
  ASSUME ScopesArePlain, FilesAreDeclared, IndexInv
  PROVE  OneVisibility
<1> SUFFICES ASSUME NEW a \in Actors, NEW e \in Entities
             PROVE  LET given == UNION {Get(a, e, id) : id \in IdsOf(e)}
                        found == {x \in given : Matches(a, x.id, text)}
                        shown == Query(a, e, text)
                        tile == Tile(a, e, "count", "", text, "region")
                    IN  /\ shown = found
                        /\ Cardinality(found) = Total(tile)
                        /\ \A x \in given :
                             /\ MetaReads(a, e, "")
                             /\ \A f \in DOMAIN x.values :
                                  /\ MetaReads(a, e, f)
                                  /\ x.values[f][1] = "file" => ActorCanReadFile(a, x.values[f][2])
  BY DEF OneVisibility
<1> DEFINE given == UNION {Get(a, e, id) : id \in IdsOf(e)}
           found == {x \in given : Matches(a, x.id, text)}
           shown == Query(a, e, text)
           tile == Tile(a, e, "count", "", text, "region")
<1>1. shown = found
  BY QueryIsGet
<1>2. Cardinality(found) = Total(tile)
  BY TileCounts
<1>3. ASSUME NEW x \in given
      PROVE  /\ MetaReads(a, e, "")
             /\ \A f \in DOMAIN x.values :
                  /\ MetaReads(a, e, f)
                  /\ x.values[f][1] = "file" => ActorCanReadFile(a, x.values[f][2])
  <2>1. PICK id \in IdsOf(e) : Readable(a, e, id) /\ x = Answer(a, e, id)
    BY DEF Get
  <2>2. MetaReads(a, e, "")
    BY <2>1, WhatIsReadIsShown DEF Readable
  <2> DEFINE values == WithComputed(id)
             readable == {f \in DOMAIN values : Can(a, "read", e, f, {values})}
  <2>3. x.values = [f \in readable |-> values[f]]
    BY <2>1 DEF Answer, MaskFields
  <2>4. ASSUME NEW f \in DOMAIN x.values
        PROVE  /\ MetaReads(a, e, f)
               /\ x.values[f][1] = "file" => ActorCanReadFile(a, x.values[f][2])
    <3> HIDE DEF values
    <3>1. f \in readable /\ x.values[f] = values[f]
      BY <2>3
    <3>2. f \in DOMAIN values /\ Can(a, "read", e, f, {values})
      BY <3>1
    <3>3. MetaReads(a, e, f)
      BY <3>2, WhatIsReadIsShown
    <3>4. x.values[f][1] = "file" => ActorCanReadFile(a, x.values[f][2])
      BY <2>1, <3>1, <3>2, FilesOpen DEF values
    <3> QED BY <3>3, <3>4
  <2> HIDE DEF values
  <2> QED BY <2>2, <2>4
<1> HIDE DEF given, found, shown, tile
<1>4. /\ shown = found
      /\ Cardinality(found) = Total(tile)
      /\ \A x \in given :
           /\ MetaReads(a, e, "")
           /\ \A f \in DOMAIN x.values :
                /\ MetaReads(a, e, f)
                /\ x.values[f][1] = "file" => ActorCanReadFile(a, x.values[f][2])
  BY <1>1, <1>2, <1>3
<1> QED
  BY <1>4 DEF given, found, shown, tile

(* In a pack whose looked-up conditions are plain and whose files keep a   *)
(* field of their type, every way to read agrees on what an actor sees,    *)
(* whatever was written, applied and looked up in between (index.go,       *)
(* candidateIDs, getIndex and dropIndex; permissions.go, can).             *)
THEOREM EveryReadAgrees ==
  ASSUME ScopesArePlain, FilesAreDeclared
  PROVE  Spec => []OneVisibility
<1>1. IndexInv => OneVisibility
  BY IndexIsOneView
<1> QED
  BY <1>1, IndexStaysRight, PTL

(* In such a pack the comment on candidateIDs is true: the candidates are  *)
(* a superset of the permitted records (index.go:96-97).                   *)
THEOREM PlainPacksOnlyNarrow ==
  ASSUME ScopesArePlain
  PROVE  Spec => []CandidatesCoverPermitted
<1>1. IndexInv => CandidatesCoverPermitted
  BY CandidatesAreEnough DEF CandidatesCoverPermitted
<1> QED
  BY <1>1, IndexStaysRight, PTL

-----------------------------------------------------------------------------
(* The grammar.  Trees of a span are derived from those of shorter spans   *)
(* and of tighter kinds, so there is a language that the rules describe.   *)
SpanKinds == {"list", "unary", "and", "or"}

SpansOf(t) == (1..(Len(t) + 1)) \X (0..Len(t)) \X SpanKinds

Looseness(kind) == CASE kind = "list" -> 0 [] kind = "unary" -> 1 [] kind = "and" -> 2 [] OTHER -> 3

Rank(t, i, j, kind) == 4 * (j - i + Len(t) + 1) + Looseness(kind)

LEMMA KindsInOrder ==
  /\ \A kind \in SpanKinds : Looseness(kind) \in 0..3
  /\ Looseness("list") = 0 /\ Looseness("unary") = 1 /\ Looseness("and") = 2 /\ Looseness("or") = 3
  /\ Tighter("and") = "unary" /\ Tighter("or") = "and"
  /\ \A word \in {"and", "or"} :
       word \in SpanKinds /\ Tighter(word) \in SpanKinds /\ Looseness(Tighter(word)) < Looseness(word)
<1>1. Looseness("list") = 0 /\ Looseness("unary") = 1 /\ Looseness("and") = 2 /\ Looseness("or") = 3
  BY DEF Looseness
<1>2. Tighter("and") = "unary" /\ Tighter("or") = "and"
  BY DEF Tighter
<1> QED
  BY <1>1, <1>2 DEF SpanKinds

LowerAgree(t, i, j, kind, p, q) ==
  \A x \in 1..(Len(t) + 1), y \in 0..Len(t), z \in SpanKinds :
    Rank(t, x, y, z) < Rank(t, i, j, kind) => p[<<x, y, z>>] = q[<<x, y, z>>]

LEMMA ShorterIsLower ==
  ASSUME NEW t, Len(t) \in Nat, NEW i \in Int, NEW j \in Int, NEW kind \in SpanKinds,
         NEW x \in Int, NEW y \in Int, NEW z \in SpanKinds,
         y - x < j - i \/ (y - x = j - i /\ Looseness(z) < Looseness(kind))
  PROVE  Rank(t, x, y, z) < Rank(t, i, j, kind)
<1>1. Looseness(z) \in 0..3 /\ Looseness(kind) \in 0..3
  BY KindsInOrder
<1> QED
  BY <1>1 DEF Rank

LEMMA DerivedAgrees ==
  ASSUME NEW t, Len(t) \in Nat, NEW i \in 1..(Len(t) + 1), NEW j \in 0..Len(t), NEW kind \in SpanKinds,
         NEW p, NEW q, LowerAgree(t, i, j, kind, p, q)
  PROVE  Derived(t, i, j, kind, p) = Derived(t, i, j, kind, q)
<1>1. ASSUME NEW x \in 1..(Len(t) + 1), NEW y \in 0..Len(t), NEW z \in SpanKinds,
             y - x < j - i \/ (y - x = j - i /\ Looseness(z) < Looseness(kind))
      PROVE  p[<<x, y, z>>] = q[<<x, y, z>>]
  <2>1. Rank(t, x, y, z) < Rank(t, i, j, kind)
    BY <1>1, ShorterIsLower
  <2> QED BY <2>1 DEF LowerAgree
<1>2. "list" \in SpanKinds /\ "unary" \in SpanKinds /\ "or" \in SpanKinds
  BY DEF SpanKinds
<1>3. CASE kind = "list"
  <2>1. CASE i > j
    BY <1>3, <2>1 DEF Derived, Members
  <2>2. CASE ~(i > j)
    <3>1. p[<<i, j - 1, "list">>] = q[<<i, j - 1, "list">>]
      <4>1. j - 1 \in 0..Len(t) /\ (j - 1) - i < j - i
        BY <2>2
      <4> QED BY <1>1, <1>2, <4>1
    <3>2. j > i => p[<<i, j - 2, "list">>] = q[<<i, j - 2, "list">>]
      <4>1. j > i => j - 2 \in 0..Len(t) /\ (j - 2) - i < j - i
        OBVIOUS
      <4> QED BY <1>1, <1>2, <4>1
    <3> DEFINE more(S, o) == {Append(m, x) : m \in S, x \in Operand(t, o)}
    <3>3. \A f : Derived(t, i, j, kind, f) =
                  more(f[<<i, j - 1, "list">>], j)
                    \cup IF j > i /\ MarkAt(t, j, ",") THEN more(f[<<i, j - 2, "list">>], j - 1) ELSE {}
      BY ONLY <1>3, <2>2 DEF Derived, Members
    <3> HIDE DEF more
    <3> QED BY ONLY <3>1, <3>2, <3>3
  <2> QED BY <2>1, <2>2
<1>4. CASE kind = "unary"
  <2>1. j >= i + 3 => p[<<i + 3, j - 1, "list">>] = q[<<i + 3, j - 1, "list">>]
    <3>1. j >= i + 3 => i + 3 \in 1..(Len(t) + 1) /\ j - 1 \in 0..Len(t) /\ (j - 1) - (i + 3) < j - i
      OBVIOUS
    <3> QED BY <1>1, <1>2, <3>1
  <2>2. i < j => p[<<i + 1, j, "unary">>] = q[<<i + 1, j, "unary">>]
    <3>1. i < j => i + 1 \in 1..(Len(t) + 1) /\ j - (i + 1) < j - i
      OBVIOUS
    <3> QED BY <1>1, <1>2, <3>1
  <2>3. i + 1 < j => p[<<i + 1, j - 1, "or">>] = q[<<i + 1, j - 1, "or">>]
    <3>1. i + 1 < j => i + 1 \in 1..(Len(t) + 1) /\ j - 1 \in 0..Len(t) /\ (j - 1) - (i + 1) < j - i
      OBVIOUS
    <3> QED BY <1>1, <1>2, <3>1
  <2>4. Comparisons(t, i, j, p) = Comparisons(t, i, j, q)
    <3> DEFINE ins(S) == {<<"in", l, m>> : l \in Operand(t, i), m \in S}
               rest == {<<"truthy", o>> : o \in IF i = j THEN Operand(t, i) ELSE {}}
                         \cup (IF j = i + 2
                               THEN {<<"cmp", l, op, r>> :
                                       l \in Operand(t, i),
                                       op \in {op \in Compares : MarkAt(t, i + 1, op)},
                                       r \in Operand(t, j)}
                               ELSE {})
               D == j >= i + 3 /\ WordAt(t, i + 1, "in") /\ MarkAt(t, i + 2, "[") /\ MarkAt(t, j, "]")
    <3>1. \A f : Comparisons(t, i, j, f) =
                  IF i > j \/ WordAt(t, i, "not") THEN {}
                  ELSE rest \cup (IF D THEN ins(f[<<i + 3, j - 1, "list">>]) ELSE {})
      BY ONLY DEF Comparisons
    <3>2. D => p[<<i + 3, j - 1, "list">>] = q[<<i + 3, j - 1, "list">>]
      BY <2>1
    <3> HIDE DEF ins, rest, D
    <3> QED BY ONLY <3>1, <3>2
  <2>5. Unaries(t, i, j, p) = Unaries(t, i, j, q)
    BY <2>2, <2>3, <2>4 DEF Unaries
  <2> QED BY <1>4, <2>5 DEF Derived
<1>5. CASE kind \in {"and", "or"}
  <2>1. Tighter(kind) \in SpanKinds /\ Looseness(Tighter(kind)) < Looseness(kind)
    BY <1>5, KindsInOrder
  <2> DEFINE of(k, f) ==
               {<<kind, l, r>> : l \in f[<<i, k - 1, kind>>], r \in f[<<k + 1, j, Tighter(kind)>>]}
             K == {k \in (i + 1)..(j - 1) : WordAt(t, k, kind)}
  <2>2. p[<<i, j, Tighter(kind)>>] = q[<<i, j, Tighter(kind)>>]
    BY <1>1, <2>1
  <2>3. ASSUME NEW k \in K
        PROVE  of(k, p) = of(k, q)
    <3>1. /\ k - 1 \in 0..Len(t) /\ (k - 1) - i < j - i
          /\ k + 1 \in 1..(Len(t) + 1) /\ j - (k + 1) < j - i
      OBVIOUS
    <3>2. p[<<i, k - 1, kind>>] = q[<<i, k - 1, kind>>]
      BY <1>1, <3>1
    <3>3. p[<<k + 1, j, Tighter(kind)>>] = q[<<k + 1, j, Tighter(kind)>>]
      BY <1>1, <2>1, <3>1
    <3> QED BY ONLY <3>2, <3>3
  <2>4. \A f : Derived(t, i, j, kind, f) = f[<<i, j, Tighter(kind)>>] \cup UNION {of(k, f) : k \in K}
    BY <1>5 DEF Derived, Chains
  <2> HIDE DEF of, K
  <2>5. {of(k, p) : k \in K} = {of(k, q) : k \in K}
    BY ONLY <2>3
  <2> QED BY <2>2, <2>4, <2>5
<1> QED
  BY <1>3, <1>4, <1>5 DEF SpanKinds

Below(t, n) == {k \in SpansOf(t) : Rank(t, k[1], k[2], k[3]) < n}

IsLanguage(t, n, g) == g = [k \in Below(t, n) |-> Derived(t, k[1], k[2], k[3], g)]

LEMMA SpanOf ==
  ASSUME NEW t, NEW k \in SpansOf(t)
  PROVE  k[1] \in 1..(Len(t) + 1) /\ k[2] \in 0..Len(t) /\ k[3] \in SpanKinds /\ k = <<k[1], k[2], k[3]>>
BY DEF SpansOf

LEMMA RankIs ==
  ASSUME NEW t, Len(t) \in Nat, NEW i \in 1..(Len(t) + 1), NEW j \in 0..Len(t), NEW kind \in SpanKinds
  PROVE  Rank(t, i, j, kind) \in 0..(8 * Len(t) + 8)
<1>1. Looseness(kind) \in 0..3
  BY KindsInOrder
<1>2. j - i + Len(t) + 1 \in 0..(2 * Len(t))
  OBVIOUS
<1> QED
  BY ONLY <1>1, <1>2, Len(t) \in Nat DEF Rank

LEMMA LanguageExtends ==
  ASSUME NEW t, Len(t) \in Nat, NEW n \in Nat, NEW p, IsLanguage(t, n, p)
  PROVE  \E q : IsLanguage(t, n + 1, q)
<1> DEFINE of(k, f) == Derived(t, k[1], k[2], k[3], f)
           q == [k \in Below(t, n + 1) |-> IF k \in Below(t, n) THEN p[k] ELSE of(k, p)]
<1>1. ASSUME NEW k \in Below(t, n)
      PROVE  q[k] = p[k] /\ p[k] = of(k, p)
  <2>1. Rank(t, k[1], k[2], k[3]) \in Int /\ Rank(t, k[1], k[2], k[3]) < n /\ k \in SpansOf(t)
    BY SpanOf, RankIs DEF Below
  <2>2. k \in Below(t, n + 1)
    BY <2>1 DEF Below
  <2>3. p = [x \in Below(t, n) |-> of(x, p)]
    BY DEF IsLanguage
  <2> HIDE DEF of
  <2>4. p[k] = of(k, p)
    BY ONLY <2>3, k \in Below(t, n)
  <2> QED BY <2>2, <2>4
<1>2. ASSUME NEW k \in Below(t, n + 1)
      PROVE  of(k, p) = of(k, q)
  <2>1. /\ k[1] \in 1..(Len(t) + 1) /\ k[2] \in 0..Len(t) /\ k[3] \in SpanKinds
        /\ Rank(t, k[1], k[2], k[3]) < n + 1
    BY SpanOf DEF Below
  <2>2. ASSUME NEW x \in 1..(Len(t) + 1), NEW y \in 0..Len(t), NEW z \in SpanKinds,
               Rank(t, x, y, z) < Rank(t, k[1], k[2], k[3])
        PROVE  p[<<x, y, z>>] = q[<<x, y, z>>]
    <3>1. Rank(t, x, y, z) \in Int /\ Rank(t, k[1], k[2], k[3]) \in Int
      <4>1. \A r : r \in 0..(8 * Len(t) + 8) => r \in Int
        OBVIOUS
      <4>2. Rank(t, x, y, z) \in 0..(8 * Len(t) + 8)
        BY ONLY <2>2, Len(t) \in Nat, RankIs
      <4>3. Rank(t, k[1], k[2], k[3]) \in 0..(8 * Len(t) + 8)
        BY ONLY <2>1, Len(t) \in Nat, RankIs
      <4> QED BY ONLY <4>1, <4>2, <4>3
    <3>2. Rank(t, x, y, z) < n
      <4>1. \A a, b \in Int : a < b /\ b < n + 1 => a < n
        OBVIOUS
      <4> QED BY ONLY <2>1, <2>2, <3>1, <4>1
    <3>3. <<x, y, z>> \in Below(t, n)
      BY <3>2 DEF Below, SpansOf
    <3> HIDE DEF q
    <3> QED BY <1>1, <3>3
  <2>3. LowerAgree(t, k[1], k[2], k[3], p, q)
    <3> HIDE DEF q
    <3> QED BY <2>2 DEF LowerAgree
  <2> HIDE DEF q
  <2> QED BY <2>1, <2>3, DerivedAgrees
<1>3. ASSUME NEW k \in Below(t, n + 1)
      PROVE  q[k] = of(k, q)
  <2>1. k \notin Below(t, n) => q[k] = of(k, p)
    <3> HIDE DEF of
    <3> QED OBVIOUS
  <2> HIDE DEF q, of
  <2> QED BY <1>1, <1>2, <2>1
<1>4. q = [k \in Below(t, n + 1) |-> q[k]]
  <2> HIDE DEF of
  <2> QED OBVIOUS
<1> HIDE DEF q
<1>5. q = [k \in Below(t, n + 1) |-> of(k, q)]
  <2> HIDE DEF of
  <2> QED BY <1>3, <1>4
<1> QED
  BY <1>5 DEF IsLanguage

LEMMA LanguageExists ==
  ASSUME NEW t, Len(t) \in Nat, NEW n \in Nat
  PROVE  \E g : IsLanguage(t, n, g)
<1> DEFINE Bad == {m \in Nat : ~ \E g : IsLanguage(t, m, g)}
<1> SUFFICES ASSUME Bad # {}
             PROVE  FALSE
  OBVIOUS
<1>1. PICK m \in Bad : \A x \in Bad : m <= x
  <2>1. Bad \in SUBSET Nat
    OBVIOUS
  <2> HIDE DEF Bad
  <2> QED BY <2>1, LeastNumber
<1>2. m \in Nat /\ ~ \E g : IsLanguage(t, m, g)
  OBVIOUS
<1>3. CASE m = 0
  <2> DEFINE of(k, f) == Derived(t, k[1], k[2], k[3], f)
             e == [k \in Below(t, 0) |-> {}]
  <2>1. Below(t, 0) = {}
    <3> SUFFICES ASSUME NEW k \in Below(t, 0)
                 PROVE  FALSE
      OBVIOUS
    <3>1. Rank(t, k[1], k[2], k[3]) \in Nat /\ Rank(t, k[1], k[2], k[3]) < 0
      BY SpanOf, RankIs DEF Below
    <3> QED BY <3>1
  <2>2. e = [k \in Below(t, 0) |-> of(k, e)]
    BY <2>1
  <2> HIDE DEF e
  <2>3. IsLanguage(t, 0, e)
    BY <2>2 DEF IsLanguage
  <2> QED BY <1>2, <1>3, <2>3
<1>4. CASE m # 0
  <2>1. m - 1 \in Nat /\ ~(m <= m - 1) /\ (m - 1) + 1 = m
    BY <1>2, <1>4
  <2>2. \E g : IsLanguage(t, m - 1, g)
    <3>1. m - 1 \notin Bad
      <4> HIDE DEF Bad
      <4> QED BY <1>1, <2>1
    <3> QED BY <2>1, <3>1
  <2>3. \E g : IsLanguage(t, (m - 1) + 1, g)
    BY ONLY <2>1, <2>2, Len(t) \in Nat, LanguageExtends
  <2> QED BY <1>2, <2>1, <2>3
<1> QED
  BY <1>3, <1>4

LEMMA LanguageIs ==
  ASSUME NEW t, Len(t) \in Nat
  PROVE  \A i \in 1..(Len(t) + 1), j \in 0..Len(t), kind \in SpanKinds :
           Language(t)[<<i, j, kind>>] = Derived(t, i, j, kind, Language(t))
<1> DEFINE of(k, f) == Derived(t, k[1], k[2], k[3], f)
           Is(g) == g = [k \in SpansOf(t) |-> of(k, g)]
           G == CHOOSE g : Is(g)
<1>1. Below(t, 8 * Len(t) + 9) = SpansOf(t)
  <2>1. ASSUME NEW k \in SpansOf(t)
        PROVE  Rank(t, k[1], k[2], k[3]) < 8 * Len(t) + 9
    <3>1. Rank(t, k[1], k[2], k[3]) \in 0..(8 * Len(t) + 8)
      BY SpanOf, RankIs
    <3> QED BY <3>1
  <2> QED BY <2>1 DEF Below
<1>2. \E g : Is(g)
  <2>1. 8 * Len(t) + 9 \in Nat
    OBVIOUS
  <2>2. PICK g : IsLanguage(t, 8 * Len(t) + 9, g)
    BY <2>1, LanguageExists
  <2>3. Is(g)
    BY <1>1, <2>2 DEF IsLanguage
  <2> HIDE DEF Is
  <2> QED BY <2>3
<1>3. Is(G)
  <2> HIDE DEF Is
  <2> QED BY <1>2
<1>4. Language(t) = G
  BY DEF Language, SpansOf, SpanKinds
<1> HIDE DEF G
<1>5. ASSUME NEW i \in 1..(Len(t) + 1), NEW j \in 0..Len(t), NEW kind \in SpanKinds
      PROVE  G[<<i, j, kind>>] = Derived(t, i, j, kind, G)
  <2> DEFINE k == <<i, j, kind>>
  <2>1. k \in SpansOf(t) /\ k[1] = i /\ k[2] = j /\ k[3] = kind
    BY DEF SpansOf
  <2>2. of(k, G) = Derived(t, i, j, kind, G)
    BY <2>1
  <2> HIDE DEF k, of
  <2>3. G[k] = of(k, G)
    BY <1>3, <2>1
  <2> QED BY <2>2, <2>3 DEF k
<1> QED
  BY <1>4, <1>5

-----------------------------------------------------------------------------
(* Nodes joined from the left. *)
JoinUp(a, b, d) ==
  /\ IsNodes(a \o b) /\ (a \o b) \o d = a \o (b \o d)

LEMMA NodesAppend ==
  \A a, b, d : IsNodes(a) /\ IsNodes(b) /\ IsNodes(d) => JoinUp(a, b, d)
<1> SUFFICES ASSUME NEW a, NEW b, NEW d, IsNodes(a), IsNodes(b), IsNodes(d)
             PROVE  JoinUp(a, b, d)
  OBVIOUS
<1>1. PICK A, B, D : a \in Seq(A) /\ b \in Seq(B) /\ d \in Seq(D) /\ a # <<>>
  BY DEF IsNodes
<1> DEFINE S == A \cup B \cup D
<1>2. a \in Seq(S) /\ b \in Seq(S) /\ d \in Seq(S)
  BY <1>1
<1> HIDE DEF S
<1>3. a \o b \in Seq(S) /\ Len(a \o b) = Len(a) + Len(b)
  BY <1>2
<1>4. a \o b # <<>>
  BY <1>1, <1>2, <1>3
<1>5. (a \o b) \o d = a \o (b \o d)
  BY <1>2
<1> QED
  BY <1>3, <1>4, <1>5 DEF IsNodes, JoinUp

LEMMA JoinedIs ==
  ASSUME NEW word, NEW nodes, Len(nodes) \in Nat
  PROVE  \E g : IsUpTo(word, nodes, Len(nodes), g) /\ Joined(word, nodes) = g[Len(nodes)]
<1> DEFINE g == CHOOSE g : IsUpTo(word, nodes, Len(nodes), g)
<1>1. IsUpTo(word, nodes, Len(nodes), g)
  <2>1. \E h : IsUpTo(word, nodes, Len(nodes), h)
    BY UpToExists
  <2> QED BY <2>1
<1>2. Joined(word, nodes) = g[Len(nodes)]
  BY DEF Joined, IsUpTo
<1> HIDE DEF g
<1> QED
  BY <1>1, <1>2

LEMMA UpToStep ==
  \A word, nodes, f : \A n \in Nat : IsUpTo(word, nodes, n, f) =>
    \A k \in 1..n :
      (k = 1 => f[k] = nodes[1]) /\ (k # 1 => f[k] = Join(word, f[k - 1], nodes[k]))
BY DEF IsUpTo

LEMMA UpToAgrees ==
  \A word, nodes, more, f, g : \A n, m \in Nat :
    /\ n <= m /\ \A k \in 1..n : nodes[k] = more[k]
    /\ IsUpTo(word, nodes, n, f) /\ IsUpTo(word, more, m, g)
    => \A k \in 1..n : f[k] = g[k]
<1> SUFFICES ASSUME NEW word, NEW nodes, NEW more, NEW f, NEW g, NEW n \in Nat, NEW m \in Nat,
                    n <= m, \A k \in 1..n : nodes[k] = more[k],
                    IsUpTo(word, nodes, n, f), IsUpTo(word, more, m, g)
             PROVE  \A k \in 1..n : f[k] = g[k]
  OBVIOUS
<1>0. /\ \A k \in 1..n :
           (k = 1 => f[k] = nodes[1]) /\ (k # 1 => f[k] = Join(word, f[k - 1], nodes[k]))
      /\ \A k \in 1..m :
           (k = 1 => g[k] = more[1]) /\ (k # 1 => g[k] = Join(word, g[k - 1], more[k]))
  BY UpToStep
<1> DEFINE Bad == {k \in Nat : k \in 1..n /\ f[k] # g[k]}
<1> SUFFICES ASSUME Bad # {}
             PROVE  FALSE
  OBVIOUS
<1>1. PICK k \in Bad : \A x \in Bad : k <= x
  <2>1. Bad \in SUBSET Nat
    OBVIOUS
  <2> HIDE DEF Bad
  <2> QED BY <2>1, LeastNumber
<1>2. k \in 1..n /\ k \in 1..m /\ f[k] # g[k] /\ nodes[k] = more[k] /\ k \in Int
  OBVIOUS
<1>4. CASE k = 1
  BY ONLY <1>0, <1>2, <1>4
<1>5. CASE k # 1
  <2>1. k - 1 \in 1..n /\ k - 1 \in Nat /\ ~(k <= k - 1)
    BY <1>2, <1>5
  <2>2. f[k - 1] = g[k - 1]
    <3>1. k - 1 \notin Bad
      <4> HIDE DEF Bad
      <4> QED BY <1>1, <2>1
    <3> QED BY <2>1, <3>1
  <2> QED BY ONLY <1>0, <1>2, <1>5, <2>2
<1> QED
  BY <1>4, <1>5

LEMMA JoinedMore ==
  ASSUME NEW word, NEW nodes, IsNodes(nodes), NEW x
  PROVE  Joined(word, nodes \o <<x>>) = Join(word, Joined(word, nodes), x)
<1> DEFINE n == Len(nodes)
           more == nodes \o <<x>>
<1>1. /\ n \in Nat \ {0} /\ Len(more) = n + 1 /\ more[n + 1] = x
      /\ \A k \in 1..n : nodes[k] = more[k]
  <2>1. PICK S : nodes \in Seq(S) /\ nodes # <<>>
    BY DEF IsNodes
  <2> QED BY <2>1
<1> HIDE DEF more
<1>2. PICK f : IsUpTo(word, nodes, n, f) /\ Joined(word, nodes) = f[n]
  BY <1>1, JoinedIs
<1>3. PICK g : IsUpTo(word, more, n + 1, g) /\ Joined(word, more) = g[n + 1]
  <2>1. Len(more) \in Nat /\ Len(more) = n + 1
    BY <1>1
  <2>2. \E g : IsUpTo(word, more, Len(more), g) /\ Joined(word, more) = g[Len(more)]
    BY ONLY <2>1, JoinedIs
  <2> QED BY ONLY <2>1, <2>2
<1> HIDE DEF n
<1>4. f[n] = g[n]
  <2>1. n \in Nat /\ n + 1 \in Nat /\ n <= n + 1 /\ n \in 1..n
    BY <1>1
  <2>2. \A k \in 1..n : f[k] = g[k]
    <3>1. IsUpTo(word, nodes, n, f) /\ IsUpTo(word, more, n + 1, g)
      BY ONLY <1>2, <1>3
    <3>2. \A k \in 1..n : nodes[k] = more[k]
      BY ONLY <1>1
    <3> QED BY ONLY <2>1, <3>1, <3>2, UpToAgrees
  <2> QED BY <2>1, <2>2
<1>5. g[n + 1] = Join(word, g[n], x)
  <2>1. n + 1 \in 1..(n + 1) /\ n + 1 # 1 /\ (n + 1) - 1 = n /\ n + 1 \in Nat
    BY <1>1
  <2>2. g[n + 1] = Join(word, g[(n + 1) - 1], more[n + 1])
    <3>1. \A k \in 1..(n + 1) : k # 1 => g[k] = Join(word, g[k - 1], more[k])
      BY ONLY <1>3, <2>1, UpToStep
    <3> QED BY ONLY <2>1, <3>1
  <2> QED BY <1>1, <2>1, <2>2
<1> QED
  BY <1>2, <1>3, <1>4, <1>5 DEF more

LEMMA JoinedOne ==
  ASSUME NEW word, NEW x
  PROVE  Joined(word, <<x>>) = x
<1>1. Len(<<x>>) = 1 /\ <<x>>[1] = x /\ 1 \in 1..1 /\ 1 \in Nat
  OBVIOUS
<1> DEFINE nodes == <<x>>
<1>2. PICK g : IsUpTo(word, nodes, 1, g) /\ Joined(word, nodes) = g[1]
  <2> HIDE DEF nodes
  <2>1. Len(nodes) = 1 /\ Len(nodes) \in Nat
    BY <1>1 DEF nodes
  <2>2. \E g : IsUpTo(word, nodes, Len(nodes), g) /\ Joined(word, nodes) = g[Len(nodes)]
    BY ONLY <2>1, JoinedIs
  <2> QED BY <2>1, <2>2
<1>3. g[1] = nodes[1]
  BY ONLY <1>1, <1>2, UpToStep
<1> QED
  BY <1>1, <1>2, <1>3

(* The tree of a joined node. *)
LEMMA JoinTree ==
  ASSUME NEW word \in {"and", "or"}, NEW l, NEW r
  PROVE  Join(word, l, r).tree = <<word, l.tree, r.tree>>
BY DEF Join, And, Or, Node

-----------------------------------------------------------------------------
(* Induction over positions, from the back of a text and from the front.   *)
LEMMA FromTheBack ==
  ASSUME NEW N \in Nat, NEW S,
         \A i \in 1..N : (\A j \in (i + 1)..N : j \in S) => i \in S
  PROVE  \A i \in 1..N : i \in S
<1> DEFINE Bad == {m \in Nat : m < N /\ N - m \notin S}
<1>1. ASSUME Bad # {}
      PROVE  FALSE
  <2>1. PICK m \in Bad : \A x \in Bad : m <= x
    <3>1. Bad \in SUBSET Nat
      OBVIOUS
    <3> HIDE DEF Bad
    <3> QED BY <1>1, <3>1, LeastNumber
  <2>2. m \in Nat /\ m < N /\ N - m \notin S /\ N - m \in 1..N
    OBVIOUS
  <2>3. ASSUME NEW j \in ((N - m) + 1)..N
        PROVE  j \in S
    <3>1. N - j \in Nat /\ N - j < N /\ N - (N - j) = j /\ ~(m <= N - j)
      BY <2>2
    <3>2. N - j \notin Bad
      BY ONLY <2>1, <3>1
    <3> QED BY <3>1, <3>2
  <2> HIDE DEF Bad
  <2> QED BY <2>2, <2>3
<1>2. ASSUME NEW i \in 1..N
      PROVE  i \in S
  <2>1. N - i \in Nat /\ N - i < N /\ N - (N - i) = i
    OBVIOUS
  <2>2. N - i \notin Bad
    BY <1>1
  <2> QED BY <2>1, <2>2
<1> QED
  BY <1>2

LEMMA FromTheFront ==
  ASSUME NEW a \in Nat, NEW b \in Nat, NEW S,
         \A j \in a..b : (\A x \in a..(j - 1) : x \in S) => j \in S
  PROVE  \A j \in a..b : j \in S
<1> DEFINE Bad == {m \in Nat : m \in a..b /\ m \notin S}
<1>1. ASSUME Bad # {}
      PROVE  FALSE
  <2>1. PICK m \in Bad : \A x \in Bad : m <= x
    <3>1. Bad \in SUBSET Nat
      OBVIOUS
    <3> HIDE DEF Bad
    <3> QED BY <1>1, <3>1, LeastNumber
  <2>2. m \in a..b /\ m \notin S /\ m \in Nat
    OBVIOUS
  <2>3. ASSUME NEW x \in a..(m - 1)
        PROVE  x \in S
    <3>1. x \in Nat /\ x \in a..b /\ ~(m <= x)
      BY <2>2
    <3>2. x \notin Bad
      BY ONLY <2>1, <3>1
    <3> QED BY <3>1, <3>2
  <2> HIDE DEF Bad
  <2> QED BY <2>2, <2>3
<1>2. ASSUME NEW j \in a..b
      PROVE  j \in S
  <2>1. j \in Nat /\ j \notin Bad
    BY <1>1
  <2> QED BY <2>1
<1> QED
  BY <1>2

(* Members of a list, added at the end or in front.                        *)
IsSeq(x) == \E S : x \in Seq(S)

LEMMA NoneAppended ==
  IsSeq(<<>>) /\ \A x : IsSeq(x) => x \o <<>> = x /\ <<>> \o x = x
<1>1. ASSUME NEW x, IsSeq(x)
      PROVE  x \o <<>> = x /\ <<>> \o x = x
  <2>1. PICK S : x \in Seq(S)
    BY <1>1 DEF IsSeq
  <2> QED BY <2>1
<1> QED
  BY <1>1 DEF IsSeq

MayFollow(x, o, y) ==
  /\ IsSeq(Append(x, o)) /\ IsSeq(<<o>> \o y) /\ IsSeq(x \o y)
  /\ Append(x, o) \o y = x \o (<<o>> \o y)

LEMMA SeqsAppend ==
  \A x, y, o : IsSeq(x) /\ IsSeq(y) => MayFollow(x, o, y)
<1> SUFFICES ASSUME NEW x, NEW y, NEW o, IsSeq(x), IsSeq(y)
             PROVE  MayFollow(x, o, y)
  OBVIOUS
<1>1. PICK A, B : x \in Seq(A) /\ y \in Seq(B)
  BY DEF IsSeq
<1> DEFINE S == A \cup B \cup {o}
<1>2. x \in Seq(S) /\ y \in Seq(S) /\ o \in S
  BY <1>1
<1> HIDE DEF S
<1>3. Append(x, o) \in Seq(S) /\ <<o>> \o y \in Seq(S) /\ x \o y \in Seq(S)
  BY <1>2
<1>4. Append(x, o) \o y = x \o (<<o>> \o y)
  BY <1>2
<1> QED
  BY <1>3, <1>4 DEF IsSeq, MayFollow

LEMMA GrammarRules ==
  ASSUME NEW t, Len(t) \in Nat, NEW i \in 1..(Len(t) + 1), NEW j \in 0..Len(t)
  PROVE  /\ Language(t)[<<i, j, "list">>] = Members(t, i, j, Language(t))
         /\ Language(t)[<<i, j, "unary">>] = Unaries(t, i, j, Language(t))
         /\ \A word \in {"and", "or"} :
              Language(t)[<<i, j, word>>] = Chains(t, word, i, j, Language(t))
<1> DEFINE G == Language(t)
<1>1. \A kind \in SpanKinds : G[<<i, j, kind>>] = Derived(t, i, j, kind, G)
  BY LanguageIs
<1> HIDE DEF G
<1>2. /\ Derived(t, i, j, "list", G) = Members(t, i, j, G)
      /\ Derived(t, i, j, "unary", G) = Unaries(t, i, j, G)
      /\ \A word \in {"and", "or"} : Derived(t, i, j, word, G) = Chains(t, word, i, j, G)
  BY DEF Derived
<1>3. "list" \in SpanKinds /\ "unary" \in SpanKinds /\ "and" \in SpanKinds /\ "or" \in SpanKinds
  BY DEF SpanKinds
<1> QED
  BY <1>1, <1>2, <1>3 DEF G

LEMMA OperandBeginsNoMark ==
  ASSUME NEW t, Len(t) \in Nat, NEW i \in Int, NEW o \in Operand(t, i)
  PROVE  i <= Len(t) /\ \A s : ~MarkAt(t, i, s)
<1>1. ~(i > Len(t))
  BY DEF Operand
<1> QED
  BY <1>1, MarksAreNoOperands

LEMMA NoMembers ==
  ASSUME NEW t, Len(t) \in Nat, NEW i \in 1..(Len(t) + 1), NEW j \in 0..Len(t), i > j
  PROVE  Language(t)[<<i, j, "list">>] = {<<>>}
<1>1. Language(t)[<<i, j, "list">>] = Members(t, i, j, Language(t))
  BY GrammarRules
<1> QED
  BY ONLY <1>1, i > j DEF Members

IsMembers(t, i, j, x) ==
  \/ \E m \in Language(t)[<<i, j - 1, "list">>], o \in Operand(t, j) : x = Append(m, o)
  \/ /\ j > i /\ MarkAt(t, j, ",")
     /\ \E m \in Language(t)[<<i, j - 2, "list">>], o \in Operand(t, j - 1) : x = Append(m, o)

LEMMA MoreMembers ==
  ASSUME NEW t, Len(t) \in Nat, NEW i \in 1..(Len(t) + 1), NEW j \in 0..Len(t), i <= j, NEW x
  PROVE  x \in Language(t)[<<i, j, "list">>] <=> IsMembers(t, i, j, x)
<1>1. ~(i > j)
  OBVIOUS
<1> DEFINE G == Language(t)
           more(S, e) == {Append(m, o) : m \in S, o \in Operand(t, e)}
<1>2. G[<<i, j, "list">>] = Members(t, i, j, G)
  BY GrammarRules
<1>3. IsMembers(t, i, j, x) <=>
           \/ \E m \in G[<<i, j - 1, "list">>], o \in Operand(t, j) : x = Append(m, o)
           \/ /\ j > i /\ MarkAt(t, j, ",")
              /\ \E m \in G[<<i, j - 2, "list">>], o \in Operand(t, j - 1) : x = Append(m, o)
  BY DEF IsMembers
<1> SUFFICES x \in G[<<i, j, "list">>] <=> IsMembers(t, i, j, x)
  OBVIOUS
<1> HIDE DEF G
<1>4. Members(t, i, j, G) =
        more(G[<<i, j - 1, "list">>], j)
          \cup IF j > i /\ MarkAt(t, j, ",") THEN more(G[<<i, j - 2, "list">>], j - 1) ELSE {}
  BY ONLY <1>1 DEF Members
<1>5. \A S, e : x \in more(S, e) <=> \E m \in S, o \in Operand(t, e) : x = Append(m, o)
  BY ONLY TRUE
<1>6. IsMembers(t, i, j, x) <=>
           \/ x \in more(G[<<i, j - 1, "list">>], j)
           \/ j > i /\ MarkAt(t, j, ",") /\ x \in more(G[<<i, j - 2, "list">>], j - 1)
  <2> HIDE DEF more
  <2> QED BY ONLY <1>3, <1>5
<1> HIDE DEF more
<1> QED
  BY ONLY <1>2, <1>4, <1>6

LEMMA MembersAreSeqs ==
  ASSUME NEW t, Len(t) \in Nat, NEW i \in 1..(Len(t) + 1)
  PROVE  \A j \in 0..Len(t) : \A x \in Language(t)[<<i, j, "list">>] : IsSeq(x)
<1> DEFINE G(j) == Language(t)[<<i, j, "list">>]
           S == {j \in 0..Len(t) : \A x \in G(j) : IsSeq(x)}
<1>1. ASSUME NEW j \in 0..Len(t), \A y \in 0..(j - 1) : y \in S, NEW x \in G(j)
      PROVE  IsSeq(x)
  <2>1. CASE i > j
    <3>1. x = <<>>
      BY <2>1, NoMembers
    <3> QED BY <3>1 DEF IsSeq
  <2>2. CASE i <= j
    <3>1. \/ \E m \in G(j - 1), o \in Operand(t, j) : x = Append(m, o)
          \/ j > i /\ \E m \in G(j - 2), o \in Operand(t, j - 1) : x = Append(m, o)
      <4>1. IsMembers(t, i, j, x)
        BY <2>2, MoreMembers
      <4> QED BY ONLY <4>1 DEF IsMembers
    <3>2. j - 1 \in 0..(j - 1) /\ (j > i => j - 2 \in 0..(j - 1))
      BY <2>2
    <3>3. \E m, o : x = Append(m, o) /\ IsSeq(m)
      <4>1. \A y \in 0..(j - 1) : \A m \in G(y) : IsSeq(m)
        BY <1>1
      <4> HIDE DEF G
      <4> QED BY ONLY <3>1, <3>2, <4>1
    <3>4. PICK m, o : x = Append(m, o) /\ IsSeq(m)
      BY <3>3
    <3>5. MayFollow(m, o, <<>>)
      BY <3>4, NoneAppended, SeqsAppend
    <3> QED BY <3>4, <3>5 DEF MayFollow
  <2> QED BY <2>1, <2>2
<1>2. \A j \in 0..Len(t) : (\A y \in 0..(j - 1) : y \in S) => j \in S
  <2> HIDE DEF G
  <2> QED BY <1>1
<1>3. \A j \in 0..Len(t) : j \in S
  <2> HIDE DEF S
  <2> QED BY <1>2, FromTheFront
<1> QED
  BY <1>3

(* What is read of a list, behind the members before it, is a list.        *)
ListFits(t, i, r) ==
  /\ IsSeq(r.node)
  /\ \A a \in 1..i : \A x \in Language(t)[<<a, i - 1, "list">>] :
       x \o r.node \in Language(t)[<<a, r.next - 2, "list">>]

LEMMA ListRule ==
  ASSUME NEW t, Len(t) \in Nat, NEW i \in 1..(Len(t) + 2)
  PROVE  Lists(t)[i] = ListStep(t, Lists(t), i)
<1> DEFINE f == Lists(t)
<1>1. f = [k \in 1..(Len(t) + 2) |-> ListStep(t, f, k)]
  BY ListsExist DEF IsLists
<1> HIDE DEF f
<1> QED
  BY <1>1 DEF f

LEMMA BehindIs ==
  ASSUME NEW t, NEW i
  PROVE  /\ MarkAt(t, i + 1, ",") => Behind(t, i) = i + 2
         /\ ~MarkAt(t, i + 1, ",") => Behind(t, i) = i + 1
BY DEF Behind

LEMMA OneMemberMore ==
  ASSUME NEW t, Len(t) \in Nat, NEW i \in 1..Len(t), NEW o \in Operand(t, i), NEW a \in 1..i,
         NEW x \in Language(t)[<<a, i - 1, "list">>]
  PROVE  Append(x, o) \in Language(t)[<<a, Behind(t, i) - 1, "list">>]
<1>1. CASE MarkAt(t, i + 1, ",")
  <2>1. i + 1 \in 0..Len(t) /\ a <= i + 1 /\ i + 1 > a /\ (i + 1) - 2 = i - 1 /\ (i + 1) - 1 = i
        /\ a \in 1..(Len(t) + 1)
    <3>1. i + 1 <= Len(t)
      BY <1>1 DEF MarkAt
    <3> QED BY ONLY <3>1, i \in 1..Len(t), a \in 1..i, Len(t) \in Nat
  <2>2. Behind(t, i) - 1 = i + 1
    <3>1. Behind(t, i) = i + 2
      BY <1>1, BehindIs
    <3> QED BY ONLY <3>1, i \in 1..Len(t)
  <2>3. IsMembers(t, a, i + 1, Append(x, o))
    BY <1>1, <2>1 DEF IsMembers
  <2> QED BY <2>1, <2>2, <2>3, MoreMembers
<1>2. CASE ~MarkAt(t, i + 1, ",")
  <2>1. i \in 0..Len(t) /\ a <= i /\ a \in 1..(Len(t) + 1)
    OBVIOUS
  <2>2. Behind(t, i) - 1 = i
    <3>1. Behind(t, i) = i + 1
      BY <1>2, BehindIs
    <3> QED BY ONLY <3>1, i \in 1..Len(t)
  <2>3. IsMembers(t, a, i, Append(x, o))
    BY DEF IsMembers
  <2> QED BY <2>1, <2>2, <2>3, MoreMembers
<1> QED
  BY <1>1, <1>2

LEMMA ListStepFits ==
  ASSUME NEW t, Len(t) \in Nat, NEW i \in 1..(Len(t) + 2),
         \A z \in (i + 1)..(Len(t) + 2) : \A s \in Lists(t)[z] : ListFits(t, z, s),
         NEW r \in Lists(t)[i]
  PROVE  ListFits(t, i, r)
<1>1. r \in ListStep(t, Lists(t), i)
  BY ListRule
<1>2. CASE MarkAt(t, i, "]")
  <2>1. r = Found(<<>>, i + 1)
    BY <1>1, <1>2 DEF ListStep, ListFrom
  <2>2. r.node = <<>> /\ r.next - 2 = i - 1 /\ i \in 1..Len(t)
    BY <1>2, <2>1 DEF Found, MarkAt
  <2>3. ASSUME NEW a \in 1..i, NEW x \in Language(t)[<<a, i - 1, "list">>]
        PROVE  x \o r.node = x
    <3>1. IsSeq(x)
      <4>1. a \in 1..(Len(t) + 1) /\ i - 1 \in 0..Len(t)
        BY <2>2
      <4> QED BY <4>1, MembersAreSeqs
    <3> QED BY <2>2, <3>1, NoneAppended
  <2>4. IsSeq(r.node)
    BY <2>2 DEF IsSeq
  <2>5. \A a \in 1..i : \A x \in Language(t)[<<a, i - 1, "list">>] :
          x \o r.node \in Language(t)[<<a, r.next - 2, "list">>]
    BY <2>2, <2>3
  <2> QED BY <2>4, <2>5 DEF ListFits
<1>3. CASE ~MarkAt(t, i, "]")
  <2> DEFINE z == Behind(t, i)
  <2>1. PICK o \in Operand(t, i), s \in Lists(t)[z] : r = Found(<<o>> \o s.node, s.next)
    BY <1>1, <1>3 DEF ListStep, ListFrom
  <2>2. r.node = <<o>> \o s.node /\ r.next = s.next
    BY <2>1 DEF Found
  <2>3. i \in 1..Len(t) /\ i \in Int
    BY OperandBeginsNoMark
  <2>4. z \in (i + 1)..(Len(t) + 2) /\ z - 1 \in 0..(Len(t) + 1)
    <3>1. z = i + 1 \/ z = i + 2
      BY BehindIs
    <3> HIDE DEF z
    <3> QED BY ONLY <2>3, <3>1, Len(t) \in Nat
  <2> HIDE DEF z
  <2>5. ListFits(t, z, s)
    BY <2>4
  <2>6. IsSeq(r.node)
    <3>1. IsSeq(s.node)
      BY <2>5 DEF ListFits
    <3>2. MayFollow(<<>>, o, s.node)
      BY ONLY <3>1, NoneAppended, SeqsAppend
    <3> QED BY ONLY <2>2, <3>2 DEF MayFollow
  <2>7. ASSUME NEW a \in 1..i, NEW x \in Language(t)[<<a, i - 1, "list">>]
        PROVE  x \o r.node \in Language(t)[<<a, r.next - 2, "list">>]
    <3>1. IsSeq(x)
      <4>1. a \in 1..(Len(t) + 1) /\ i - 1 \in 0..Len(t)
        BY <2>3
      <4> QED BY <4>1, MembersAreSeqs
    <3>2. Append(x, o) \in Language(t)[<<a, z - 1, "list">>]
      BY <2>3, OneMemberMore DEF z
    <3>3. a \in 1..z
      BY <2>3, <2>4
    <3>4. Append(x, o) \o s.node \in Language(t)[<<a, s.next - 2, "list">>]
      BY ONLY <2>5, <3>2, <3>3 DEF ListFits
    <3>5. Append(x, o) \o s.node = x \o (<<o>> \o s.node)
      <4>1. IsSeq(s.node)
        BY <2>5 DEF ListFits
      <4>2. MayFollow(x, o, s.node)
        BY ONLY <3>1, <4>1, SeqsAppend
      <4> QED BY ONLY <4>2 DEF MayFollow
    <3> QED BY <2>2, <3>4, <3>5
  <2> QED BY <2>6, <2>7 DEF ListFits
<1> QED
  BY <1>2, <1>3

LEMMA ListsFit ==
  ASSUME NEW t, Len(t) \in Nat
  PROVE  \A i \in 1..(Len(t) + 2) : \A r \in Lists(t)[i] : ListFits(t, i, r)
<1> DEFINE N == Len(t) + 2
           S == {i \in 1..N : \A r \in Lists(t)[i] : ListFits(t, i, r)}
<1>1. ASSUME NEW i \in 1..N, \A j \in (i + 1)..N : j \in S
      PROVE  i \in S
  <2>1. \A z \in (i + 1)..(Len(t) + 2) : \A s \in Lists(t)[z] : ListFits(t, z, s)
    BY <1>1
  <2> QED BY <2>1, ListStepFits
<1>2. \A i \in 1..N : i \in S
  <2>1. N \in Nat
    OBVIOUS
  <2> HIDE DEF S, N
  <2> QED BY <1>1, <2>1, FromTheBack
<1> QED
  BY <1>2

(* A list that the grammar derives is read, whatever is read behind it.    *)
ListIsRead(t, i, j) ==
  ~MarkAt(t, j + 1, ",") =>
    \A x \in Language(t)[<<i, j, "list">>] : \A r \in Lists(t)[j + 1] :
      IsSeq(r.node) => Found(x \o r.node, r.next) \in Lists(t)[i]

LEMMA OperandIsRead ==
  ASSUME NEW t, Len(t) \in Nat, NEW i \in 1..Len(t), NEW o \in Operand(t, i),
         NEW r \in Lists(t)[Behind(t, i)]
  PROVE  Found(<<o>> \o r.node, r.next) \in Lists(t)[i]
<1>1. ~MarkAt(t, i, "]")
  BY OperandBeginsNoMark
<1>2. Lists(t)[i] = ListStep(t, Lists(t), i)
  BY ListRule
<1> DEFINE L == Lists(t)
           z == Behind(t, i)
<1>3. ListStep(t, L, i) = UNION {{Found(<<e>> \o s.node, s.next) : s \in L[z]} : e \in Operand(t, i)}
  BY ONLY <1>1 DEF ListStep, ListFrom
<1> HIDE DEF L, z
<1>4. Found(<<o>> \o r.node, r.next) \in {Found(<<o>> \o s.node, s.next) : s \in L[z]}
  BY DEF L, z
<1>5. Found(<<o>> \o r.node, r.next) \in ListStep(t, L, i)
  BY ONLY <1>3, <1>4, o \in Operand(t, i)
<1> QED
  BY <1>2, <1>5 DEF L

LEMMA MembersAreRead ==
  ASSUME NEW t, Len(t) \in Nat, NEW i \in 1..(Len(t) + 1), NEW j \in 0..Len(t), i - 1 <= j,
         \A y \in (i - 1)..(j - 1) : ListIsRead(t, i, y), ~MarkAt(t, j + 1, ","),
         NEW x \in Language(t)[<<i, j, "list">>], NEW r \in Lists(t)[j + 1], IsSeq(r.node)
  PROVE  Found(x \o r.node, r.next) \in Lists(t)[i]
<1>0. i \in 1..(Len(t) + 1) /\ j \in 0..Len(t) /\ i - 1 <= j /\ Len(t) \in Nat
  OBVIOUS
<1>1. CASE i > j
  <2>1. x = <<>> /\ j + 1 = i
    <3>1. x = <<>>
      <4>1. Language(t)[<<i, j, "list">>] = {<<>>}
        BY ONLY <1>0, <1>1, NoMembers
      <4> QED BY ONLY <4>1, x \in Language(t)[<<i, j, "list">>]
    <3> QED BY ONLY <1>0, <1>1, <3>1
  <2>2. x \o r.node = r.node
    BY <2>1, NoneAppended
  <2>3. r = Found(r.node, r.next)
    <3>1. r \in ListStep(t, Lists(t), j + 1)
      <4>1. j + 1 \in 1..(Len(t) + 2)
        BY ONLY <1>0
      <4> QED BY <4>1, ListRule
    <3>2. \E n, e : r = Found(n, e)
      BY <3>1 DEF ListStep, ListFrom
    <3> QED BY <3>2 DEF Found
  <2> QED BY <2>1, <2>2, <2>3
<1>2. ASSUME i <= j, NEW e \in i..j, NEW m \in Language(t)[<<i, e - 1, "list">>], NEW o \in Operand(t, e),
             x = Append(m, o), Behind(t, e) = j + 1
      PROVE  Found(x \o r.node, r.next) \in Lists(t)[i]
  <2>1. e \in 1..Len(t) /\ e \in Int /\ e - 1 \in (i - 1)..(j - 1) /\ (e - 1) + 1 = e /\ e - 1 \in 0..Len(t)
    BY ONLY <1>0, <1>2, e \in i..j
  <2>2. Found(<<o>> \o r.node, r.next) \in Lists(t)[e]
    BY <1>2, <2>1, OperandIsRead
  <2>3. ~MarkAt(t, (e - 1) + 1, ",")
    BY <1>2, <2>1, OperandBeginsNoMark
  <2>4. IsSeq(m)
    BY <1>2, <2>1, MembersAreSeqs
  <2>5. IsSeq(<<o>> \o r.node) /\ x \o r.node = m \o (<<o>> \o r.node)
    <3>1. MayFollow(m, o, r.node)
      BY ONLY <2>4, IsSeq(r.node), SeqsAppend
    <3> QED BY ONLY <1>2, <3>1 DEF MayFollow
  <2> DEFINE s == Found(<<o>> \o r.node, r.next)
  <2>6. s.node = <<o>> \o r.node /\ s.next = r.next
    BY DEF Found
  <2>7. s \in Lists(t)[(e - 1) + 1]
    BY <2>1, <2>2
  <2> HIDE DEF s
  <2>8. ListIsRead(t, i, e - 1)
    BY <2>1
  <2>9. Found(m \o s.node, s.next) \in Lists(t)[i]
    BY <1>2, <2>3, <2>5, <2>6, <2>7, <2>8 DEF ListIsRead
  <2> QED BY <2>5, <2>6, <2>9
<1>3. CASE i <= j
  <2>1. IsMembers(t, i, j, x)
    BY <1>3, MoreMembers
  <2>2. CASE \E m \in Language(t)[<<i, j - 1, "list">>], o \in Operand(t, j) : x = Append(m, o)
    <3>1. j \in i..j
      BY ONLY <1>0, <1>3
    <3>2. Behind(t, j) = j + 1
      BY BehindIs
    <3> QED BY <1>2, <1>3, <2>2, <3>1, <3>2
  <2>3. CASE /\ j > i /\ MarkAt(t, j, ",")
             /\ \E m \in Language(t)[<<i, j - 2, "list">>], o \in Operand(t, j - 1) : x = Append(m, o)
    <3>1. j - 1 \in i..j /\ (j - 1) - 1 = j - 2 /\ (j - 1) + 1 = j
      <4>1. j > i
        BY <2>3
      <4> QED BY ONLY <1>0, <4>1
    <3>2. Behind(t, j - 1) = j + 1
      <4>1. Behind(t, j - 1) = (j - 1) + 2
        BY <2>3, <3>1, BehindIs
      <4> QED BY ONLY <4>1, j \in 0..Len(t)
    <3> QED BY <1>2, <1>3, <2>3, <3>1, <3>2
  <2> QED BY <2>1, <2>2, <2>3 DEF IsMembers
<1>4. i > j \/ i <= j
  BY ONLY <1>0
<1> QED
  BY ONLY <1>1, <1>3, <1>4

LEMMA ListsAreRead ==
  ASSUME NEW t, Len(t) \in Nat, NEW i \in 1..(Len(t) + 1)
  PROVE  \A j \in (i - 1)..Len(t) : ListIsRead(t, i, j)
<1> DEFINE a == i - 1
           b == Len(t)
           S == {j \in a..b : ListIsRead(t, i, j)}
<1>1. ASSUME NEW j \in a..b, \A y \in a..(j - 1) : y \in S
      PROVE  j \in S
  <2>1. j \in 0..Len(t) /\ i - 1 <= j
    OBVIOUS
  <2>2. \A y \in (i - 1)..(j - 1) : ListIsRead(t, i, y)
    BY <1>1
  <2>3. ASSUME ~MarkAt(t, j + 1, ","), NEW x \in Language(t)[<<i, j, "list">>],
               NEW r \in Lists(t)[j + 1], IsSeq(r.node)
        PROVE  Found(x \o r.node, r.next) \in Lists(t)[i]
    <3> HIDE DEF S, a, b
    <3> QED BY <2>1, <2>2, <2>3, MembersAreRead
  <2>4. ListIsRead(t, i, j)
    BY <2>3 DEF ListIsRead
  <2> QED BY <2>4
<1>2. \A j \in a..b : j \in S
  <2>1. a \in Nat /\ b \in Nat
    OBVIOUS
  <2> HIDE DEF S, a, b
  <2> QED BY <1>1, <2>1, FromTheFront
<1> QED
  BY <1>2

(* The rules of the grammar, for one tree.                                 *)
IsTruthy(t, i, j, T) == i = j /\ \E o \in Operand(t, i) : T = <<"truthy", o>>

IsCompared(t, i, j, T) ==
  j = i + 2 /\ \E l \in Operand(t, i), op \in Compares, r \in Operand(t, j) :
                 MarkAt(t, i + 1, op) /\ T = <<"cmp", l, op, r>>

IsListed(t, i, j, T) ==
  /\ j >= i + 3 /\ WordAt(t, i + 1, "in") /\ MarkAt(t, i + 2, "[") /\ MarkAt(t, j, "]")
  /\ \E l \in Operand(t, i), m \in Language(t)[<<i + 3, j - 1, "list">>] : T = <<"in", l, m>>

IsComparison(t, i, j, T) ==
  /\ i <= j /\ ~WordAt(t, i, "not")
  /\ IsTruthy(t, i, j, T) \/ IsCompared(t, i, j, T) \/ IsListed(t, i, j, T)

IsDenied(t, i, j, T) ==
  i < j /\ WordAt(t, i, "not") /\ \E n \in Language(t)[<<i + 1, j, "unary">>] : T = <<"not", n>>

IsBracketed(t, i, j, T) ==
  i + 1 < j /\ MarkAt(t, i, "(") /\ MarkAt(t, j, ")") /\ T \in Language(t)[<<i + 1, j - 1, "or">>]

IsUnary(t, i, j, T) ==
  IsComparison(t, i, j, T) \/ IsDenied(t, i, j, T) \/ IsBracketed(t, i, j, T)

IsChain(t, word, i, j, T) ==
  \/ T \in Language(t)[<<i, j, Tighter(word)>>]
  \/ \E k \in (i + 1)..(j - 1) :
       /\ WordAt(t, k, word)
       /\ \E l \in Language(t)[<<i, k - 1, word>>], r \in Language(t)[<<k + 1, j, Tighter(word)>>] :
            T = <<word, l, r>>

LEMMA ComparisonRule ==
  ASSUME NEW t, Len(t) \in Nat, NEW i \in 1..(Len(t) + 1), NEW j \in 0..Len(t), NEW T
  PROVE  T \in Comparisons(t, i, j, Language(t)) <=> IsComparison(t, i, j, T)
<1> DEFINE G == Language(t)
           A == {<<"truthy", o>> : o \in IF i = j THEN Operand(t, i) ELSE {}}
           B == {<<"cmp", l, op, r>> :
                   l \in Operand(t, i), op \in {op \in Compares : MarkAt(t, i + 1, op)}, r \in Operand(t, j)}
           M == G[<<i + 3, j - 1, "list">>]
           C == {<<"in", l, m>> : l \in Operand(t, i), m \in M}
           D == j >= i + 3 /\ WordAt(t, i + 1, "in") /\ MarkAt(t, i + 2, "[") /\ MarkAt(t, j, "]")
<1>1. Comparisons(t, i, j, G) =
        IF i > j \/ WordAt(t, i, "not") THEN {}
        ELSE A \cup (IF j = i + 2 THEN B ELSE {}) \cup (IF D THEN C ELSE {})
  <2> HIDE DEF G
  <2> QED BY ONLY DEF Comparisons
<1>2. T \in A <=> IsTruthy(t, i, j, T)
  BY ONLY DEF IsTruthy
<1>3. j = i + 2 => (T \in B <=> IsCompared(t, i, j, T))
  BY ONLY DEF IsCompared
<1>4. (D /\ T \in C) <=> IsListed(t, i, j, T)
  <2>1. T \in C <=> \E l \in Operand(t, i), m \in M : T = <<"in", l, m>>
    <3> HIDE DEF M
    <3> QED BY ONLY TRUE
  <2> QED BY ONLY <2>1 DEF IsListed
<1>5. IsCompared(t, i, j, T) => j = i + 2
  BY DEF IsCompared
<1>6. i <= j <=> ~(i > j)
  BY ONLY i \in 1..(Len(t) + 1), j \in 0..Len(t), Len(t) \in Nat
<1> HIDE DEF A, B, C, D, M
<1> QED
  BY ONLY <1>1, <1>2, <1>3, <1>4, <1>5, <1>6 DEF IsComparison

LEMMA UnaryRule ==
  ASSUME NEW t, Len(t) \in Nat, NEW i \in 1..(Len(t) + 1), NEW j \in 0..Len(t), NEW T
  PROVE  T \in Language(t)[<<i, j, "unary">>] <=> IsUnary(t, i, j, T)
<1> DEFINE G == Language(t)
           N == G[<<i + 1, j, "unary">>]
           O == G[<<i + 1, j - 1, "or">>]
           A == Comparisons(t, i, j, G)
           B == {<<"not", n>> : n \in N}
<1>1. G[<<i, j, "unary">>] = Unaries(t, i, j, G)
  BY GrammarRules
<1>2. Unaries(t, i, j, G) =
        A \cup (IF i < j /\ WordAt(t, i, "not") THEN B ELSE {})
          \cup (IF i + 1 < j /\ MarkAt(t, i, "(") /\ MarkAt(t, j, ")") THEN O ELSE {})
  <2> HIDE DEF G
  <2> QED BY ONLY DEF Unaries
<1>3. T \in A <=> IsComparison(t, i, j, T)
  BY ComparisonRule
<1>4. T \in B <=> \E n \in N : T = <<"not", n>>
  <2> HIDE DEF N
  <2> QED BY ONLY TRUE
<1>5. IsDenied(t, i, j, T) <=> i < j /\ WordAt(t, i, "not") /\ T \in B
  BY ONLY <1>4 DEF IsDenied
<1>6. IsBracketed(t, i, j, T) <=> i + 1 < j /\ MarkAt(t, i, "(") /\ MarkAt(t, j, ")") /\ T \in O
  BY ONLY DEF IsBracketed
<1>7. T \in Unaries(t, i, j, G) <=> IsUnary(t, i, j, T)
  <2> HIDE DEF A, B, O, G
  <2> QED BY ONLY <1>2, <1>3, <1>5, <1>6 DEF IsUnary
<1> QED
  BY ONLY <1>1, <1>7

LEMMA ChainRule ==
  ASSUME NEW t, Len(t) \in Nat, NEW i \in 1..(Len(t) + 1), NEW j \in 0..Len(t), NEW word \in {"and", "or"}, NEW T
  PROVE  T \in Language(t)[<<i, j, word>>] <=> IsChain(t, word, i, j, T)
<1> DEFINE G == Language(t)
           K == {k \in (i + 1)..(j - 1) : WordAt(t, k, word)}
           first(k) == G[<<i, k - 1, word>>]
           last(k) == G[<<k + 1, j, Tighter(word)>>]
           of(k) == {<<word, l, r>> : l \in first(k), r \in last(k)}
<1>1. G[<<i, j, word>>] = Chains(t, word, i, j, G)
  BY GrammarRules
<1>2. Chains(t, word, i, j, G) = G[<<i, j, Tighter(word)>>] \cup UNION {of(k) : k \in K}
  <2> HIDE DEF G
  <2> QED BY ONLY DEF Chains
<1>3. \A k : T \in of(k) <=> \E l \in first(k), r \in last(k) : T = <<word, l, r>>
  <2> HIDE DEF first, last
  <2> QED BY ONLY TRUE
<1>4. IsChain(t, word, i, j, T) <=> T \in G[<<i, j, Tighter(word)>>] \/ \E k \in K : T \in of(k)
  <2>1. IsChain(t, word, i, j, T) <=>
          \/ T \in G[<<i, j, Tighter(word)>>]
          \/ \E k \in K : \E l \in first(k), r \in last(k) : T = <<word, l, r>>
    BY ONLY DEF IsChain
  <2> HIDE DEF first, last, of, G, K
  <2> QED BY ONLY <1>3, <2>1
<1> HIDE DEF of, K, first, last
<1> QED
  BY ONLY <1>1, <1>2, <1>4

-----------------------------------------------------------------------------
(* What the parser reads, by its rules.                                    *)
Firsts(t, c, word, i) ==
  IF word = "and" THEN Reads(t, c)[<<i, "unary">>] ELSE Conjunctions(i, Reads(t, c))

LEMMA ReadsRule ==
  ASSUME NEW t, Len(t) \in Nat, NEW c, NEW i \in 1..(Len(t) + 1)
  PROVE  /\ Reads(t, c)[<<i, "unary">>] = ParseUnary(t, c, i, Reads(t, c))
         /\ \A word \in {"and", "or"} :
              Reads(t, c)[<<i, word>>] = Chain(t, word, Firsts(t, c, word, i), Reads(t, c), word)
<1> DEFINE p == Reads(t, c)
<1>1. p = [k \in Keys(t, 1) |-> ReadStep(t, c, k, p)]
  BY ReadsExist DEF IsReads
<1>2. /\ Firsts(t, c, "and", i) = p[<<i, "unary">>]
      /\ Firsts(t, c, "or", i) = Conjunctions(i, p)
  BY DEF Firsts
<1> SUFFICES /\ p[<<i, "unary">>] = ParseUnary(t, c, i, p)
             /\ \A word \in {"and", "or"} :
                  p[<<i, word>>] = Chain(t, word, Firsts(t, c, word, i), p, word)
  OBVIOUS
<1> HIDE DEF p
<1>3. \A kind \in Kinds : p[<<i, kind>>] = ReadStep(t, c, <<i, kind>>, p)
  <2>1. \A kind \in Kinds : <<i, kind>> \in Keys(t, 1)
    BY DEF Keys
  <2> QED BY <1>1, <2>1
<1>4. /\ ReadStep(t, c, <<i, "unary">>, p) = ParseUnary(t, c, i, p)
      /\ ReadStep(t, c, <<i, "and">>, p) = ParseAnd(t, i, p)
      /\ ReadStep(t, c, <<i, "or">>, p) = ParseOr(t, i, p)
  BY DEF ReadStep
<1>5. /\ p[<<i, "unary">>] = ParseUnary(t, c, i, p)
      /\ p[<<i, "and">>] = ParseAnd(t, i, p)
      /\ p[<<i, "or">>] = ParseOr(t, i, p)
  BY <1>3, <1>4 DEF Kinds
<1>6. /\ ParseAnd(t, i, p) = Chain(t, "and", Firsts(t, c, "and", i), p, "and")
      /\ ParseOr(t, i, p) = Chain(t, "or", Firsts(t, c, "or", i), p, "or")
  BY <1>2 DEF ParseAnd, ParseOr
<1> QED
  BY <1>5, <1>6

LEMMA FirstsAreFormed ==
  ASSUME NEW t, Len(t) \in Nat, NEW c, NEW i \in 1..(Len(t) + 1), NEW word \in {"and", "or"},
         \A kind \in Kinds : \A r \in Reads(t, c)[<<i, kind>>] : ReadTo(t, i, r.next)
  PROVE  \A r \in Firsts(t, c, word, i) : ReadTo(t, i, r.next)
<1>1. CASE word = "and"
  BY <1>1 DEF Firsts, Kinds
<1>2. CASE word = "or"
  <2> SUFFICES ASSUME NEW r \in Firsts(t, c, word, i)
               PROVE  ReadTo(t, i, r.next)
    OBVIOUS
  <2>1. PICK s \in Reads(t, c)[<<i, "and">>] : r = Found(Conjunction(s.node), s.next)
    BY <1>2 DEF Firsts, Conjunctions
  <2>2. ReadTo(t, i, s.next) /\ r.next = s.next
    BY <2>1 DEF Found, Kinds
  <2> QED BY <2>2
<1> QED
  BY <1>1, <1>2

LEMMA ReadsAreFormed ==
  ASSUME NEW t, Len(t) \in Nat, NEW c
  PROVE  AllFormed(t, 1, Reads(t, c))
<1> DEFINE N == Len(t) + 1
           p == Reads(t, c)
           S == {i \in 1..N : \A kind \in Kinds : \A r \in p[<<i, kind>>] : Formed(t, i, kind, r)}
<1>1. ASSUME NEW i \in 1..N, \A j \in (i + 1)..N : j \in S
      PROVE  i \in S
  <2>1. AllFormed(t, i + 1, p)
    BY <1>1 DEF AllFormed
  <2>2. i \in Int /\ 1 <= i /\ i \in 1..(Len(t) + 1)
    OBVIOUS
  <2> HIDE DEF S, N
  <2>3. ASSUME NEW r \in p[<<i, "unary">>]
        PROVE  ReadTo(t, i, r.next)
    <3>1. r \in ParseUnary(t, c, i, p)
      BY <2>2, ReadsRule
    <3> HIDE DEF p
    <3> QED BY <2>1, <2>2, <3>1, UnaryIsFormed
  <2>4. ASSUME NEW word \in {"and", "or"}, \A r \in Firsts(t, c, word, i) : ReadTo(t, i, r.next),
               NEW r \in p[<<i, word>>]
        PROVE  ReadTo(t, i, r.next) /\ IsNodes(r.node)
    <3> DEFINE firsts == Firsts(t, c, word, i)
    <3>1. r \in Chain(t, word, firsts, p, word)
      BY <2>2, ReadsRule
    <3>2. \A x \in firsts : ReadTo(t, i, x.next)
      BY <2>4
    <3> HIDE DEF firsts, p
    <3> QED BY <2>1, <2>2, <3>1, <3>2, ChainIsFormed
  <2>5. \A r \in p[<<i, "and">>] : ReadTo(t, i, r.next) /\ IsNodes(r.node)
    <3>1. \A r \in Firsts(t, c, "and", i) : ReadTo(t, i, r.next)
      BY <2>3 DEF Firsts
    <3> QED BY <2>4, <3>1
  <2>6. \A r \in p[<<i, "or">>] : ReadTo(t, i, r.next) /\ IsNodes(r.node)
    <3>1. ASSUME NEW r \in Firsts(t, c, "or", i)
          PROVE  ReadTo(t, i, r.next)
      <4>1. PICK s \in p[<<i, "and">>] : r = Found(Conjunction(s.node), s.next)
        BY DEF Firsts, Conjunctions
      <4>2. r.next = s.next
        BY <4>1 DEF Found
      <4> QED BY <2>5, <4>2
    <3> QED BY <2>4, <3>1
  <2>7. \A kind \in Kinds : \A r \in p[<<i, kind>>] : Formed(t, i, kind, r)
    BY <2>3, <2>5, <2>6 DEF Formed, Kinds
  <2> QED BY <2>7 DEF S
<1>2. \A i \in 1..N : i \in S
  <2>1. N \in Nat
    OBVIOUS
  <2> HIDE DEF S, N
  <2> QED BY <1>1, <2>1, FromTheBack
<1>3. \A i \in 1..(Len(t) + 1), kind \in Kinds : \A r \in p[<<i, kind>>] : Formed(t, i, kind, r)
  BY <1>2
<1> QED
  BY <1>3 DEF AllFormed

LEMMA ReadsReach ==
  ASSUME NEW t, Len(t) \in Nat, NEW c, NEW i \in 1..(Len(t) + 1)
  PROVE  /\ \A kind \in Kinds : \A r \in Reads(t, c)[<<i, kind>>] : ReadTo(t, i, r.next)
         /\ \A word \in {"and", "or"} : \A r \in Firsts(t, c, word, i) : ReadTo(t, i, r.next)
         /\ \A word \in {"and", "or"} : \A r \in Reads(t, c)[<<i, word>>] : IsNodes(r.node)
<1>1. \A kind \in Kinds : \A r \in Reads(t, c)[<<i, kind>>] : Formed(t, i, kind, r)
  BY ReadsAreFormed DEF AllFormed
<1>2. \A kind \in Kinds : \A r \in Reads(t, c)[<<i, kind>>] : ReadTo(t, i, r.next)
  BY <1>1 DEF Formed
<1>3. \A word \in {"and", "or"} : \A r \in Reads(t, c)[<<i, word>>] : IsNodes(r.node)
  BY <1>1 DEF Formed, Kinds
<1> QED
  BY <1>2, <1>3, FirstsAreFormed

(* The trees that are read are derived.                                    *)
TreeOf(kind, node) == IF kind = "unary" THEN node.tree ELSE Joined(kind, node).tree

Derives(t, c, i) ==
  \A kind \in Kinds : \A r \in Reads(t, c)[<<i, kind>>] :
    TreeOf(kind, r.node) \in Language(t)[<<i, r.next - 1, kind>>]

(* What is read behind a word goes on with what is derived before it.      *)
GoesOn(t, word, i, y) ==
  \A a \in 1..(i - 2) : \A ns :
    /\ WordAt(t, i - 1, word) /\ IsNodes(ns)
    /\ Joined(word, ns).tree \in Language(t)[<<a, i - 2, word>>]
    => Joined(word, ns \o y.node).tree \in Language(t)[<<a, y.next - 1, word>>]

GoOn(t, c, i) == \A word \in {"and", "or"} : \A y \in Reads(t, c)[<<i, word>>] : GoesOn(t, word, i, y)

LEMMA ReadSpan ==
  ASSUME NEW t, Len(t) \in Nat, NEW i \in 1..(Len(t) + 1), NEW next, ReadTo(t, i, next)
  PROVE  next - 1 \in 0..Len(t) /\ next - 1 \in Int /\ i <= next - 1 /\ next \in 2..(Len(t) + 1)
         /\ (next <= Len(t) => next + 1 \in (i + 1)..(Len(t) + 1)) /\ (next - 1) + 1 = next
         /\ i + 1 \in 1..(Len(t) + 1)
BY DEF ReadTo

LEMMA ComparisonIsDerived ==
  ASSUME NEW t, Len(t) \in Nat, NEW c, NEW i \in 1..(Len(t) + 1), ~WordAt(t, i, "not"),
         NEW r \in Comparison(t, i)
  PROVE  r.node \in Language(t)[<<i, r.next - 1, "unary">>]
<1>0. i \in Int /\ 1 <= i
  OBVIOUS
<1>1. ReadTo(t, i, r.next)
  BY <1>0, ComparisonReads
<1>2. r.next - 1 \in 0..Len(t) /\ i <= r.next - 1
  BY <1>1, ReadSpan
<1> SUFFICES IsTruthy(t, i, r.next - 1, r.node) \/ IsCompared(t, i, r.next - 1, r.node)
             \/ IsListed(t, i, r.next - 1, r.node)
  <2>1. IsUnary(t, i, r.next - 1, r.node)
    BY <1>2 DEF IsUnary, IsComparison
  <2> QED BY <1>2, <2>1, UnaryRule
<1>3. PICK left \in Operand(t, i) :
        r \in IF WordAt(t, i + 1, "in")
              THEN IF MarkAt(t, i + 2, "[")
                   THEN {Found(<<"in", left, x.node>>, x.next) : x \in Lists(t)[i + 3]}
                   ELSE {}
              ELSE IF \E op \in Compares : MarkAt(t, i + 1, op)
              THEN {Found(<<"cmp", left, t[i + 1][2], right>>, i + 3) : right \in Operand(t, i + 2)}
              ELSE {Found(<<"truthy", left>>, i + 1)}
  BY DEF Comparison
<1>4. CASE WordAt(t, i + 1, "in")
  <2>1. PICK x \in Lists(t)[i + 3] : r = Found(<<"in", left, x.node>>, x.next)
    BY <1>3, <1>4
  <2>2. MarkAt(t, i + 2, "[") /\ i + 2 <= Len(t)
    BY <1>3, <1>4 DEF MarkAt
  <2>3. i + 3 \in 1..(Len(t) + 2) /\ i + 3 \in 1..(Len(t) + 1) /\ (i + 3) - 1 = i + 2 /\ i + 2 \in 0..Len(t)
        /\ i + 3 > i + 2 /\ i + 3 \in 1..(i + 3)
    BY ONLY <1>0, <2>2, Len(t) \in Nat
  <2>4. ListEnds(t, i + 3, x)
    BY <2>1, <2>3, ListsEnd
  <2>5. ListFits(t, i + 3, x)
    BY <2>1, <2>3, ListsFit
  <2>6. r.next = x.next /\ r.node = <<"in", left, x.node>>
    BY <2>1 DEF Found
  <2>7. x.next \in Int /\ i + 3 < x.next /\ MarkAt(t, x.next - 1, "]")
    BY <2>4 DEF ListEnds
  <2>8. x.node \in Language(t)[<<i + 3, x.next - 2, "list">>]
    <3>1. <<>> \in Language(t)[<<i + 3, (i + 3) - 1, "list">>]
      <4>1. Language(t)[<<i + 3, i + 2, "list">>] = {<<>>}
        BY <2>3, NoMembers
      <4> QED BY <2>3, <4>1
    <3>2. <<>> \o x.node \in Language(t)[<<i + 3, x.next - 2, "list">>]
      BY ONLY <2>3, <2>5, <3>1 DEF ListFits
    <3>3. IsSeq(x.node)
      BY <2>5 DEF ListFits
    <3>4. <<>> \o x.node = x.node
      BY ONLY <3>3, NoneAppended
    <3> QED BY ONLY <3>2, <3>4
  <2>9. r.next - 1 >= i + 3 /\ (r.next - 1) - 1 = x.next - 2
    BY ONLY <1>0, <2>6, <2>7
  <2>10. IsListed(t, i, r.next - 1, r.node)
    BY <1>4, <2>2, <2>6, <2>7, <2>8, <2>9 DEF IsListed
  <2> QED BY <2>10
<1>5. CASE ~WordAt(t, i + 1, "in") /\ \E op \in Compares : MarkAt(t, i + 1, op)
  <2>1. PICK right \in Operand(t, i + 2) : r = Found(<<"cmp", left, t[i + 1][2], right>>, i + 3)
    BY <1>3, <1>5
  <2>2. PICK op \in Compares : MarkAt(t, i + 1, op)
    BY <1>5
  <2>3. t[i + 1][2] = op
    BY <2>2 DEF MarkAt, Mark
  <2>4. r.node = <<"cmp", left, op, right>> /\ r.next = i + 3
    BY <2>1, <2>3 DEF Found
  <2>5. r.next - 1 = i + 2
    BY ONLY <1>0, <2>4
  <2>6. IsCompared(t, i, r.next - 1, r.node)
    BY <2>2, <2>4, <2>5 DEF IsCompared
  <2> QED BY <2>6
<1>6. CASE ~WordAt(t, i + 1, "in") /\ ~ \E op \in Compares : MarkAt(t, i + 1, op)
  <2>1. r.node = <<"truthy", left>> /\ r.next = i + 1
    BY <1>3, <1>6 DEF Found
  <2>2. r.next - 1 = i
    BY ONLY <1>0, <2>1
  <2>3. IsTruthy(t, i, r.next - 1, r.node)
    BY <2>1, <2>2 DEF IsTruthy
  <2> QED BY <2>3
<1> QED
  BY <1>4, <1>5, <1>6

LEMMA UnaryIsDerived ==
  ASSUME NEW t, Len(t) \in Nat, NEW c, NEW i \in 1..(Len(t) + 1),
         \A j \in (i + 1)..(Len(t) + 1) : Derives(t, c, j), NEW y \in Reads(t, c)[<<i, "unary">>]
  PROVE  y.node.tree \in Language(t)[<<i, y.next - 1, "unary">>]
<1> DEFINE p == Reads(t, c)
<1>1. y \in ParseUnary(t, c, i, p)
  BY ReadsRule
<1>2. ReadTo(t, i, y.next)
  BY ReadsReach DEF Kinds
<1>3. y.next - 1 \in 0..Len(t) /\ y.next - 1 \in Int /\ i \in Int
  BY <1>2, ReadSpan
<1> SUFFICES IsUnary(t, i, y.next - 1, y.node.tree) \/ y.node.tree \in Language(t)[<<i, y.next - 1, "unary">>]
  BY <1>3, UnaryRule
<1>4. CASE WordAt(t, i, "not")
  <2>1. PICK r \in p[<<i + 1, "unary">>] : y = Found(Not(r.node), r.next)
    BY <1>1, <1>4 DEF ParseUnary
  <2>2. i + 1 \in (i + 1)..(Len(t) + 1) /\ i + 1 \in 1..(Len(t) + 1)
    <3>1. i <= Len(t)
      BY <1>4 DEF WordAt
    <3> QED BY ONLY <1>3, <3>1, i \in 1..(Len(t) + 1), Len(t) \in Nat
  <2>3. y.next = r.next /\ y.node.tree = <<"not", r.node.tree>>
    BY <2>1 DEF Found, Not, Node
  <2>4. r.node.tree \in Language(t)[<<i + 1, r.next - 1, "unary">>]
    BY <2>1, <2>2 DEF Derives, Kinds, TreeOf
  <2>5. i < y.next - 1
    <3>1. ReadTo(t, i + 1, r.next)
      BY <2>1, <2>2, ReadsReach DEF Kinds
    <3> QED BY ONLY <1>3, <2>3, <3>1 DEF ReadTo
  <2>6. IsDenied(t, i, y.next - 1, y.node.tree)
    BY <1>4, <2>3, <2>4, <2>5 DEF IsDenied
  <2> QED BY <2>6 DEF IsUnary
<1>5. CASE ~WordAt(t, i, "not") /\ MarkAt(t, i, "(")
  <2>1. PICK r \in p[<<i + 1, "or">>] :
          MarkAt(t, r.next, ")") /\ y = Found(Disjunction(r.node), r.next + 1)
    BY <1>1, <1>5 DEF ParseUnary
  <2>2. i + 1 \in (i + 1)..(Len(t) + 1) /\ i + 1 \in 1..(Len(t) + 1)
    <3>1. i <= Len(t)
      BY <1>5 DEF MarkAt
    <3> QED BY ONLY <1>3, <3>1, i \in 1..(Len(t) + 1), Len(t) \in Nat
  <2>3. ReadTo(t, i + 1, r.next)
    BY <2>1, <2>2, ReadsReach DEF Kinds
  <2>4. y.next = r.next + 1 /\ y.node.tree = TreeOf("or", r.node)
    BY <2>1 DEF Found, Disjunction, TreeOf
  <2>5. y.next - 1 = r.next /\ i + 1 < y.next - 1 /\ (y.next - 1) - 1 = r.next - 1
    BY ONLY <1>3, <2>3, <2>4 DEF ReadTo
  <2>6. y.node.tree \in Language(t)[<<i + 1, r.next - 1, "or">>]
    BY <2>1, <2>2, <2>4 DEF Derives, Kinds
  <2>7. IsBracketed(t, i, y.next - 1, y.node.tree)
    BY <1>5, <2>1, <2>5, <2>6 DEF IsBracketed
  <2> QED BY <2>7 DEF IsUnary
<1>6. CASE ~WordAt(t, i, "not") /\ ~MarkAt(t, i, "(")
  <2>1. PICK r \in Comparison(t, i) : y = Found(Leaf(r.node, c), r.next)
    BY <1>1, <1>6 DEF ParseUnary, ParseComparison
  <2>2. y.next = r.next /\ y.node.tree = r.node
    BY <2>1 DEF Found, Leaf, Node
  <2>3. r.node \in Language(t)[<<i, r.next - 1, "unary">>]
    BY <1>6, ComparisonIsDerived
  <2> QED BY <2>2, <2>3
<1> QED
  BY <1>4, <1>5, <1>6

LEMMA FirstTree ==
  ASSUME NEW t, Len(t) \in Nat, NEW word \in {"and", "or"}, NEW i \in 1..(Len(t) + 1), NEW e \in 0..Len(t),
         NEW n, n.tree \in Language(t)[<<i, e, Tighter(word)>>]
  PROVE  Joined(word, <<n>>).tree \in Language(t)[<<i, e, word>>]
<1>1. Joined(word, <<n>>) = n
  BY JoinedOne
<1>2. IsChain(t, word, i, e, n.tree)
  BY DEF IsChain
<1>3. n.tree \in Language(t)[<<i, e, word>>]
  BY <1>2, ChainRule
<1> QED
  BY ONLY <1>1, <1>3

LEMMA OneTreeMore ==
  ASSUME NEW t, Len(t) \in Nat, NEW word \in {"and", "or"}, NEW i \in 1..(Len(t) + 1), NEW e \in 0..Len(t),
         i <= e, WordAt(t, i - 1, word), NEW a \in 1..(i - 2), NEW ns, IsNodes(ns),
         Joined(word, ns).tree \in Language(t)[<<a, i - 2, word>>],
         NEW n, n.tree \in Language(t)[<<i, e, Tighter(word)>>]
  PROVE  Joined(word, ns \o <<n>>).tree \in Language(t)[<<a, e, word>>]
<1>0. a \in 1..(Len(t) + 1) /\ i - 1 \in (a + 1)..(e - 1) /\ (i - 1) - 1 = i - 2 /\ (i - 1) + 1 = i
  BY ONLY i \in 1..(Len(t) + 1), e \in 0..Len(t), i <= e, a \in 1..(i - 2), Len(t) \in Nat
<1>1. Joined(word, ns \o <<n>>) = Join(word, Joined(word, ns), n)
  BY JoinedMore
<1>2. Join(word, Joined(word, ns), n).tree = <<word, Joined(word, ns).tree, n.tree>>
  BY JoinTree
<1> DEFINE T == Joined(word, ns \o <<n>>).tree
<1>3. T = <<word, Joined(word, ns).tree, n.tree>>
  BY ONLY <1>1, <1>2
<1> HIDE DEF T
<1>4. IsChain(t, word, a, e, T)
  BY <1>0, <1>3 DEF IsChain
<1>5. T \in Language(t)[<<a, e, word>>]
  BY <1>0, <1>4, ChainRule
<1> QED
  BY <1>5 DEF T

LEMMA ChainIsDerived ==
  ASSUME NEW t, Len(t) \in Nat, NEW c, NEW i \in 1..(Len(t) + 1), NEW word \in {"and", "or"},
         \A r \in Firsts(t, c, word, i) : r.node.tree \in Language(t)[<<i, r.next - 1, Tighter(word)>>],
         \A j \in (i + 1)..(Len(t) + 1) : GoOn(t, c, j),
         NEW y \in Reads(t, c)[<<i, word>>]
  PROVE  /\ Joined(word, y.node).tree \in Language(t)[<<i, y.next - 1, word>>]
         /\ GoesOn(t, word, i, y)
<1> DEFINE firsts == Firsts(t, c, word, i)
           p == Reads(t, c)
<1>0. i \in Int /\ \A r \in firsts : ReadTo(t, i, r.next)
  <2>1. \A r \in firsts : ReadTo(t, i, r.next)
    BY ONLY i \in 1..(Len(t) + 1), word \in {"and", "or"}, Len(t) \in Nat, ReadsReach
  <2> QED BY ONLY <2>1, i \in 1..(Len(t) + 1)
<1>1. y \in Chain(t, word, firsts, p, word)
  BY ReadsRule
<1>2. Ends(t, word, firsts, y) \/ Continues(t, i, word, firsts, word, p, y)
  <2> HIDE DEF firsts, p
  <2> QED BY <1>0, <1>1, InChain
<1>3. CASE Ends(t, word, firsts, y)
  <2>1. PICK r \in firsts : y.node = <<r.node>> /\ y.next = r.next
    BY <1>3 DEF Ends
  <2>2. r.node.tree \in Language(t)[<<i, r.next - 1, Tighter(word)>>]
    BY <2>1
  <2>3. r.next - 1 \in 0..Len(t) /\ i <= r.next - 1
    BY <1>0, <2>1, ReadSpan
  <2>4. Joined(word, y.node).tree \in Language(t)[<<i, y.next - 1, word>>]
    <3>1. Joined(word, <<r.node>>).tree \in Language(t)[<<i, r.next - 1, word>>]
      BY <2>2, <2>3, FirstTree
    <3> QED BY ONLY <2>1, <3>1
  <2>5. ASSUME NEW a \in 1..(i - 2), NEW ns, WordAt(t, i - 1, word), IsNodes(ns),
               Joined(word, ns).tree \in Language(t)[<<a, i - 2, word>>]
        PROVE  Joined(word, ns \o y.node).tree \in Language(t)[<<a, y.next - 1, word>>]
    <3>1. Joined(word, ns \o <<r.node>>).tree \in Language(t)[<<a, r.next - 1, word>>]
      BY <2>2, <2>3, <2>5, OneTreeMore
    <3> QED BY ONLY <2>1, <3>1
  <2> QED BY <2>4, <2>5 DEF GoesOn
<1>4. CASE Continues(t, i, word, firsts, word, p, y)
  <2>1. PICK r \in firsts : \E s \in p[<<r.next + 1, word>>] :
              /\ WordAt(t, r.next, word) /\ y.node = <<r.node>> \o s.node /\ y.next = s.next
              /\ r.next \in Int /\ i < r.next /\ r.next <= Len(t)
    BY <1>4 DEF Continues
  <2>2. PICK s \in p[<<r.next + 1, word>>] :
              /\ WordAt(t, r.next, word) /\ y.node = <<r.node>> \o s.node /\ y.next = s.next
              /\ r.next \in Int /\ i < r.next /\ r.next <= Len(t)
    BY <2>1
  <2> DEFINE z == r.next + 1
  <2>3. /\ z \in (i + 1)..(Len(t) + 1) /\ z \in 1..(Len(t) + 1) /\ z - 1 = r.next /\ z - 2 = r.next - 1
        /\ r.next - 1 \in 0..Len(t) /\ i <= r.next - 1 /\ i \in 1..(z - 2)
        /\ \A a : a \in 1..(i - 2) => a \in 1..(z - 2)
    <3>1. r.next \in Int /\ i < r.next /\ r.next <= Len(t)
      BY <2>2
    <3> QED BY ONLY <3>1, i \in 1..(Len(t) + 1), Len(t) \in Nat
  <2>4. r.node.tree \in Language(t)[<<i, r.next - 1, Tighter(word)>>]
    BY <2>1
  <2>5. s \in p[<<z, word>>] /\ WordAt(t, z - 1, word)
    BY <2>2, <2>3
  <2> HIDE DEF z
  <2>6. GoesOn(t, word, z, s)
    BY <2>3, <2>5 DEF GoOn
  <2>7. Joined(word, y.node).tree \in Language(t)[<<i, y.next - 1, word>>]
    <3>1. Joined(word, <<r.node>>).tree \in Language(t)[<<i, r.next - 1, word>>]
      BY <2>3, <2>4, FirstTree
    <3>2. IsNodes(<<r.node>>)
      BY OneNode
    <3> DEFINE ns == <<r.node>>
    <3>3. /\ IsNodes(ns) /\ Joined(word, ns).tree \in Language(t)[<<i, z - 2, word>>]
      BY ONLY <2>3, <3>1, <3>2
    <3>4. y.node = ns \o s.node
      BY <2>2
    <3> HIDE DEF ns
    <3>5. Joined(word, ns \o s.node).tree \in Language(t)[<<i, s.next - 1, word>>]
      BY ONLY <2>3, <2>5, <2>6, <3>3 DEF GoesOn
    <3> QED BY ONLY <2>2, <3>4, <3>5
  <2>8. ASSUME NEW a \in 1..(i - 2), NEW ns, WordAt(t, i - 1, word), IsNodes(ns),
               Joined(word, ns).tree \in Language(t)[<<a, i - 2, word>>]
        PROVE  Joined(word, ns \o y.node).tree \in Language(t)[<<a, y.next - 1, word>>]
    <3> DEFINE one == <<r.node>>
               more == ns \o one
    <3>1. Joined(word, more).tree \in Language(t)[<<a, r.next - 1, word>>]
      BY <2>3, <2>4, <2>8, OneTreeMore
    <3>2. IsNodes(one) /\ IsNodes(s.node)
      <4>1. IsNodes(s.node)
        BY <2>3, <2>5, ReadsReach
      <4> QED BY <4>1, OneNode
    <3>3. y.node = one \o s.node
      BY <2>2
    <3> HIDE DEF one
    <3>4. IsNodes(more) /\ more \o s.node = ns \o y.node
      <4>1. JoinUp(ns, one, s.node)
        BY ONLY <2>8, <3>2, NodesAppend
      <4> QED BY ONLY <3>3, <4>1 DEF JoinUp
    <3> HIDE DEF more
    <3>5. Joined(word, more).tree \in Language(t)[<<a, z - 2, word>>] /\ a \in 1..(z - 2)
      BY ONLY <2>3, <3>1, a \in 1..(i - 2)
    <3>6. Joined(word, more \o s.node).tree \in Language(t)[<<a, s.next - 1, word>>]
      BY ONLY <2>5, <2>6, <3>4, <3>5 DEF GoesOn
    <3> QED BY ONLY <2>2, <3>4, <3>6
  <2> QED BY <2>7, <2>8 DEF GoesOn
<1> QED
  BY <1>2, <1>3, <1>4

LEMMA ReadsAreDerived ==
  ASSUME NEW t, Len(t) \in Nat, NEW c
  PROVE  \A i \in 1..(Len(t) + 1) : Derives(t, c, i)
<1> DEFINE N == Len(t) + 1
           S == {i \in 1..N : Derives(t, c, i) /\ GoOn(t, c, i)}
<1>1. ASSUME NEW i \in 1..N, \A j \in (i + 1)..N : j \in S
      PROVE  i \in S
  <2>1. \A j \in (i + 1)..(Len(t) + 1) : Derives(t, c, j) /\ GoOn(t, c, j)
    BY <1>1
  <2>2. i \in 1..(Len(t) + 1)
    OBVIOUS
  <2> HIDE DEF S, N
  <2>3. ASSUME NEW y \in Reads(t, c)[<<i, "unary">>]
        PROVE  y.node.tree \in Language(t)[<<i, y.next - 1, "unary">>]
    BY <2>1, <2>2, UnaryIsDerived
  <2>4. ASSUME NEW word \in {"and", "or"}, NEW y \in Reads(t, c)[<<i, word>>],
               \A r \in Firsts(t, c, word, i) : r.node.tree \in Language(t)[<<i, r.next - 1, Tighter(word)>>]
        PROVE  /\ Joined(word, y.node).tree \in Language(t)[<<i, y.next - 1, word>>]
               /\ GoesOn(t, word, i, y)
    BY <2>1, <2>2, <2>4, ChainIsDerived
  <2>5. \A r \in Firsts(t, c, "and", i) : r.node.tree \in Language(t)[<<i, r.next - 1, Tighter("and")>>]
    BY <2>3 DEF Firsts, Tighter
  <2>6. \A y \in Reads(t, c)[<<i, "and">>] :
          /\ Joined("and", y.node).tree \in Language(t)[<<i, y.next - 1, "and">>]
          /\ GoesOn(t, "and", i, y)
    BY <2>4, <2>5
  <2>7. \A r \in Firsts(t, c, "or", i) : r.node.tree \in Language(t)[<<i, r.next - 1, Tighter("or")>>]
    <3> SUFFICES ASSUME NEW r \in Firsts(t, c, "or", i)
                 PROVE  r.node.tree \in Language(t)[<<i, r.next - 1, "and">>]
      BY DEF Tighter
    <3>1. PICK s \in Reads(t, c)[<<i, "and">>] : r = Found(Conjunction(s.node), s.next)
      BY DEF Firsts, Conjunctions
    <3>2. r.node = Joined("and", s.node) /\ r.next = s.next
      BY <3>1 DEF Found, Conjunction
    <3> QED BY <2>6, <3>2
  <2>8. \A y \in Reads(t, c)[<<i, "or">>] :
          /\ Joined("or", y.node).tree \in Language(t)[<<i, y.next - 1, "or">>]
          /\ GoesOn(t, "or", i, y)
    BY <2>4, <2>7
  <2>9. Derives(t, c, i)
    BY <2>3, <2>6, <2>8 DEF Derives, Kinds, TreeOf
  <2>10. GoOn(t, c, i)
    BY <2>6, <2>8 DEF GoOn
  <2> QED BY <1>1, <2>9, <2>10 DEF S
<1>2. \A i \in 1..N : i \in S
  <2>1. N \in Nat
    OBVIOUS
  <2> HIDE DEF S, N
  <2> QED BY <1>1, <2>1, FromTheBack
<1> QED
  BY <1>2

-----------------------------------------------------------------------------
(* The trees that the grammar derives are read, where what follows them    *)
(* does not go on with them: the end, a bracket, or a word between.        *)
Follows(t, kind, i) ==
  \/ i = Len(t) + 1
  \/ MarkAt(t, i, ")")
  \/ WordAt(t, i, "or")
  \/ kind # "or" /\ WordAt(t, i, "and")

LEMMA NoComparisonFollows ==
  ASSUME NEW t, Len(t) \in Nat, NEW kind, NEW i \in Int, Follows(t, kind, i)
  PROVE  ~WordAt(t, i, "in") /\ \A op \in Compares : ~MarkAt(t, i, op)
<1>1. CASE i = Len(t) + 1
  BY <1>1 DEF WordAt, MarkAt
<1>2. CASE MarkAt(t, i, ")")
  <2>1. \A op \in Compares : op # ")"
    BY DEF Compares
  <2> QED BY <1>2, <2>1, MarksAreNoOperands, OneMark
<1>3. ASSUME NEW w \in {"and", "or"}, WordAt(t, i, w)
      PROVE  ~WordAt(t, i, "in") /\ \A op \in Compares : ~MarkAt(t, i, op)
  <2>1. \A s : ~MarkAt(t, i, s)
    BY <1>3, MarksAreNoOperands
  <2>2. ~WordAt(t, i, "in")
    <3>1. \A a, b : Word(<<a>>) = Word(<<b>>) => a = b
      <4>1. \A a : Word(<<a>>)[2][1] = a
        BY DEF Word
      <4> QED BY <4>1
    <3>2. w # "in"
      OBVIOUS
    <3> QED BY <1>3, <3>1, <3>2 DEF WordAt
  <2> QED BY <2>1, <2>2
<1> QED
  BY <1>1, <1>2, <1>3 DEF Follows

(* A tree is read as a unary, and as the first of a chain.                 *)
UnaryIsRead(t, c, i) ==
  \A j \in i..Len(t) : \A T : T \in Language(t)[<<i, j, "unary">>] /\ Follows(t, "unary", j + 1) =>
    \E r \in Reads(t, c)[<<i, "unary">>] : r.next = j + 1 /\ r.node.tree = T

FirstIsRead(t, c, word, i) ==
  \A j \in i..Len(t) : \A T : T \in Language(t)[<<i, j, Tighter(word)>>] /\ Follows(t, word, j + 1) =>
    \E r \in Firsts(t, c, word, i) : r.next = j + 1 /\ r.node.tree = T

(* Nodes are read from i to j: alone, or in front of what is read behind.  *)
NodesRead(t, c, word, i, j, ns) ==
  /\ IsNodes(ns)
  /\ ~WordAt(t, j + 1, word) => Found(ns, j + 1) \in Reads(t, c)[<<i, word>>]
  /\ WordAt(t, j + 1, word) =>
       \A s \in Reads(t, c)[<<j + 2, word>>] : Found(ns \o s.node, s.next) \in Reads(t, c)[<<i, word>>]

ChainIsRead(t, c, word, i, j) ==
  \A T : T \in Language(t)[<<i, j, word>>] /\ Follows(t, word, j + 1) =>
    \E ns : NodesRead(t, c, word, i, j, ns) /\ Joined(word, ns).tree = T

LEMMA FirstNodeRead ==
  ASSUME NEW t, Len(t) \in Nat, NEW c, NEW word \in {"and", "or"}, NEW i \in 1..Len(t), NEW j \in i..Len(t),
         NEW r \in Firsts(t, c, word, i), r.next = j + 1
  PROVE  NodesRead(t, c, word, i, j, <<r.node>>)
<1> DEFINE p == Reads(t, c)
           firsts == Firsts(t, c, word, i)
           of(x) == IF WordAt(t, x.next, word)
                    THEN {Found(<<x.node>> \o s.node, s.next) : s \in p[<<x.next + 1, word>>]}
                    ELSE {Found(<<x.node>>, x.next)}
<1>1. p[<<i, word>>] = Chain(t, word, firsts, p, word)
  <2>1. i \in 1..(Len(t) + 1)
    OBVIOUS
  <2> QED BY <2>1, ReadsRule
<1>2. Chain(t, word, firsts, p, word) = UNION {of(x) : x \in firsts}
  BY DEF Chain
<1>3. (j + 1) + 1 = j + 2
  BY ONLY j \in i..Len(t), i \in 1..Len(t)
<1>4. of(r) \subseteq p[<<i, word>>]
  <2> HIDE DEF of, firsts
  <2> QED BY <1>1, <1>2 DEF firsts
<1>5. IsNodes(<<r.node>>)
  BY OneNode
<1>6. ~WordAt(t, j + 1, word) => of(r) = {Found(<<r.node>>, j + 1)}
  OBVIOUS
<1>7. WordAt(t, j + 1, word) => of(r) = {Found(<<r.node>> \o s.node, s.next) : s \in p[<<j + 2, word>>]}
  BY <1>3
<1> HIDE DEF of
<1>8. ASSUME WordAt(t, j + 1, word), NEW s \in p[<<j + 2, word>>]
      PROVE  Found(<<r.node>> \o s.node, s.next) \in p[<<i, word>>]
  <2>1. Found(<<r.node>> \o s.node, s.next) \in of(r)
    BY <1>7, <1>8
  <2> QED BY ONLY <1>4, <2>1
<1>9. ~WordAt(t, j + 1, word) => Found(<<r.node>>, j + 1) \in p[<<i, word>>]
  BY <1>4, <1>6
<1> QED
  BY <1>5, <1>8, <1>9 DEF NodesRead

LEMMA OneMoreNodeRead ==
  ASSUME NEW t, Len(t) \in Nat, NEW c, NEW word \in {"and", "or"}, NEW i \in 1..Len(t), NEW j \in i..Len(t),
         NEW k \in (i + 1)..(j - 1), WordAt(t, k, word),
         NEW ns, NodesRead(t, c, word, i, k - 1, ns),
         NEW n, NodesRead(t, c, word, k + 1, j, <<n>>)
  PROVE  NodesRead(t, c, word, i, j, ns \o <<n>>)
<1> DEFINE one == <<n>>
           more == ns \o one
           R(x) == Reads(t, c)[<<x, word>>]
<1>0. (k - 1) + 1 = k /\ (k - 1) + 2 = k + 1 /\ j + 2 \in Int
  BY ONLY i \in 1..Len(t), j \in i..Len(t), k \in (i + 1)..(j - 1)
<1>1. /\ IsNodes(one)
      /\ ~WordAt(t, j + 1, word) => Found(one, j + 1) \in R(k + 1)
      /\ WordAt(t, j + 1, word) => \A s \in R(j + 2) : Found(one \o s.node, s.next) \in R(k + 1)
  BY DEF NodesRead
<1>2. IsNodes(ns) /\ \A s \in R(k + 1) : Found(ns \o s.node, s.next) \in R(i)
  BY <1>0 DEF NodesRead
<1>3. \A node, next : Found(node, next).node = node /\ Found(node, next).next = next
  BY DEF Found
<1> SUFFICES NodesRead(t, c, word, i, j, more)
  OBVIOUS
<1> HIDE DEF one
<1>4. ASSUME NEW s, IsNodes(s.node)
      PROVE  IsNodes(more) /\ ns \o (one \o s.node) = more \o s.node
  <2>1. JoinUp(ns, one, s.node)
    BY ONLY <1>1, <1>2, <1>4, NodesAppend
  <2> QED BY ONLY <2>1 DEF JoinUp
<1>5. IsNodes(more)
  <2>1. JoinUp(ns, one, one)
    BY ONLY <1>1, <1>2, NodesAppend
  <2> QED BY ONLY <2>1 DEF JoinUp
<1>6. ASSUME ~WordAt(t, j + 1, word)
      PROVE  Found(more, j + 1) \in R(i)
  <2> DEFINE s == Found(one, j + 1)
  <2>1. s \in R(k + 1) /\ s.node = one /\ s.next = j + 1
    BY <1>1, <1>3, <1>6
  <2> HIDE DEF s, R
  <2> QED BY ONLY <1>2, <2>1
<1>7. ASSUME WordAt(t, j + 1, word), NEW s \in R(j + 2)
      PROVE  Found(more \o s.node, s.next) \in R(i)
  <2> DEFINE q == Found(one \o s.node, s.next)
  <2>1. q \in R(k + 1) /\ q.node = one \o s.node /\ q.next = s.next
    BY <1>1, <1>3, <1>7
  <2>2. IsNodes(s.node)
    <3>1. j + 2 \in 1..(Len(t) + 1)
      <4>1. j + 1 <= Len(t)
        BY <1>7 DEF WordAt
      <4> QED BY ONLY <4>1, i \in 1..Len(t), j \in i..Len(t), Len(t) \in Nat
    <3> QED BY ONLY <3>1, s \in R(j + 2), word \in {"and", "or"}, Len(t) \in Nat, ReadsReach
  <2> HIDE DEF q, R
  <2>3. Found(ns \o q.node, q.next) \in R(i)
    BY ONLY <1>2, <2>1
  <2>4. ns \o q.node = more \o s.node
    BY ONLY <1>4, <2>1, <2>2
  <2> QED BY ONLY <2>1, <2>3, <2>4
<1> QED
  BY <1>5, <1>6, <1>7 DEF NodesRead

LEMMA ChainsAreRead ==
  ASSUME NEW t, Len(t) \in Nat, NEW c, NEW word \in {"and", "or"}, NEW i \in 1..Len(t),
         \A x \in i..Len(t) : FirstIsRead(t, c, word, x)
  PROVE  \A j \in i..Len(t) : ChainIsRead(t, c, word, i, j)
<1> DEFINE b == Len(t)
           S == {j \in i..b : ChainIsRead(t, c, word, i, j)}
<1>1. ASSUME NEW j \in i..b, \A y \in i..(j - 1) : y \in S,
             NEW T \in Language(t)[<<i, j, word>>], Follows(t, word, j + 1)
      PROVE  \E ns : NodesRead(t, c, word, i, j, ns) /\ Joined(word, ns).tree = T
  <2>0. i \in 1..(Len(t) + 1) /\ j \in 0..Len(t) /\ i \in i..Len(t)
    BY ONLY i \in 1..Len(t), j \in i..b, Len(t) \in Nat
  <2>1. IsChain(t, word, i, j, T)
    BY <1>1, <2>0, ChainRule
  <2>2. CASE T \in Language(t)[<<i, j, Tighter(word)>>]
    <3>1. PICK r \in Firsts(t, c, word, i) : r.next = j + 1 /\ r.node.tree = T
      BY <1>1, <2>0, <2>2 DEF FirstIsRead
    <3>2. NodesRead(t, c, word, i, j, <<r.node>>)
      BY <3>1, FirstNodeRead
    <3>3. Joined(word, <<r.node>>).tree = T
      <4>1. Joined(word, <<r.node>>) = r.node
        BY JoinedOne
      <4> QED BY ONLY <3>1, <4>1
    <3> QED BY ONLY <3>2, <3>3
  <2>3. ASSUME NEW k \in (i + 1)..(j - 1), WordAt(t, k, word), NEW l \in Language(t)[<<i, k - 1, word>>],
               NEW m \in Language(t)[<<k + 1, j, Tighter(word)>>], T = <<word, l, m>>
        PROVE  \E ns : NodesRead(t, c, word, i, j, ns) /\ Joined(word, ns).tree = T
    <3>0. k - 1 \in i..(j - 1) /\ (k - 1) + 1 = k /\ k + 1 \in i..Len(t) /\ k + 1 \in 1..Len(t)
          /\ j \in (k + 1)..Len(t)
      BY ONLY i \in 1..Len(t), j \in i..b, k \in (i + 1)..(j - 1), Len(t) \in Nat
    <3>1. ChainIsRead(t, c, word, i, k - 1)
      BY <1>1, <3>0
    <3>2. Follows(t, word, (k - 1) + 1)
      BY ONLY <2>3, <3>0, word \in {"and", "or"} DEF Follows
    <3>3. PICK ns : NodesRead(t, c, word, i, k - 1, ns) /\ Joined(word, ns).tree = l
      BY ONLY <3>1, <3>2, l \in Language(t)[<<i, k - 1, word>>] DEF ChainIsRead
    <3>4. FirstIsRead(t, c, word, k + 1)
      BY <3>0
    <3>5. PICK r \in Firsts(t, c, word, k + 1) : r.next = j + 1 /\ r.node.tree = m
      BY ONLY <1>1, <3>0, <3>4, m \in Language(t)[<<k + 1, j, Tighter(word)>>] DEF FirstIsRead
    <3>6. NodesRead(t, c, word, k + 1, j, <<r.node>>)
      BY <3>0, <3>5, FirstNodeRead
    <3>7. NodesRead(t, c, word, i, j, ns \o <<r.node>>)
      BY <2>3, <3>3, <3>6, OneMoreNodeRead
    <3>8. Joined(word, ns \o <<r.node>>).tree = T
      <4>1. Joined(word, ns \o <<r.node>>) = Join(word, Joined(word, ns), r.node)
        BY <3>3, JoinedMore DEF NodesRead
      <4>2. Join(word, Joined(word, ns), r.node).tree = <<word, Joined(word, ns).tree, r.node.tree>>
        BY JoinTree
      <4> QED BY ONLY <2>3, <3>3, <3>5, <4>1, <4>2
    <3> QED BY ONLY <3>7, <3>8
  <2> HIDE DEF S, b
  <2> QED BY ONLY <2>1, <2>2, <2>3 DEF IsChain
<1>2. ASSUME NEW j \in i..b, \A y \in i..(j - 1) : y \in S
      PROVE  j \in S
  <2>1. ChainIsRead(t, c, word, i, j)
    <3> HIDE DEF S, b
    <3> QED BY <1>1, <1>2 DEF ChainIsRead
  <2> QED BY <2>1
<1>3. \A j \in i..b : j \in S
  <2>1. i \in Nat /\ b \in Nat
    OBVIOUS
  <2> HIDE DEF S, b
  <2> QED BY <1>2, <2>1, FromTheFront
<1> QED
  BY <1>3

LEMMA ComparisonIsRead ==
  ASSUME NEW t, Len(t) \in Nat, NEW i \in 1..Len(t), NEW j \in i..Len(t), NEW T,
         IsComparison(t, i, j, T), Follows(t, "unary", j + 1)
  PROVE  Found(T, j + 1) \in Comparison(t, i)
<1> DEFINE of(left) ==
             IF WordAt(t, i + 1, "in")
             THEN IF MarkAt(t, i + 2, "[")
                  THEN {Found(<<"in", left, r.node>>, r.next) : r \in Lists(t)[i + 3]}
                  ELSE {}
             ELSE IF \E op \in Compares : MarkAt(t, i + 1, op)
             THEN {Found(<<"cmp", left, t[i + 1][2], right>>, i + 3) : right \in Operand(t, i + 2)}
             ELSE {Found(<<"truthy", left>>, i + 1)}
<1>1. Comparison(t, i) = UNION {of(left) : left \in Operand(t, i)}
  BY DEF Comparison
<1>2. ~WordAt(t, j + 1, "in") /\ \A op \in Compares : ~MarkAt(t, j + 1, op)
  <2>1. j + 1 \in Int
    BY ONLY j \in i..Len(t), i \in 1..Len(t)
  <2> QED BY <2>1, NoComparisonFollows
<1>3. ASSUME NEW left \in Operand(t, i), Found(T, j + 1) \in of(left)
      PROVE  Found(T, j + 1) \in Comparison(t, i)
  <2> HIDE DEF of
  <2> QED BY ONLY <1>1, <1>3
<1>4. CASE IsTruthy(t, i, j, T)
  <2>1. PICK left \in Operand(t, i) : T = <<"truthy", left>>
    BY <1>4 DEF IsTruthy
  <2>2. i = j
    BY <1>4 DEF IsTruthy
  <2>3. Found(T, j + 1) \in of(left)
    BY <1>2, <2>1, <2>2
  <2> QED BY <1>3, <2>3
<1>5. CASE IsCompared(t, i, j, T)
  <2>1. PICK left \in Operand(t, i), op \in Compares, right \in Operand(t, j) :
          MarkAt(t, i + 1, op) /\ T = <<"cmp", left, op, right>>
    BY <1>5 DEF IsCompared
  <2>2. j = i + 2 /\ j + 1 = i + 3
    <3>1. j = i + 2
      BY <1>5 DEF IsCompared
    <3> QED BY ONLY <3>1, i \in 1..Len(t)
  <2>3. t[i + 1][2] = op
    BY <2>1 DEF MarkAt, Mark
  <2>4. ~WordAt(t, i + 1, "in")
    <3>1. i + 1 \in Int
      BY ONLY i \in 1..Len(t)
    <3> QED BY <2>1, <3>1, MarksAreNoOperands
  <2>5. Found(T, j + 1) \in of(left)
    BY <2>1, <2>2, <2>3, <2>4
  <2> QED BY <1>3, <2>5
<1>6. CASE IsListed(t, i, j, T)
  <2>1. PICK left \in Operand(t, i), m \in Language(t)[<<i + 3, j - 1, "list">>] : T = <<"in", left, m>>
    BY <1>6 DEF IsListed
  <2>2. j >= i + 3 /\ WordAt(t, i + 1, "in") /\ MarkAt(t, i + 2, "[") /\ MarkAt(t, j, "]")
    BY <1>6 DEF IsListed
  <2>3. /\ i + 3 \in 1..(Len(t) + 1) /\ j - 1 \in ((i + 3) - 1)..Len(t) /\ (j - 1) + 1 = j
        /\ j \in 1..(Len(t) + 2) /\ j - 1 \in 0..Len(t) /\ j \in Int
    <3>1. j >= i + 3
      BY <2>2
    <3> QED BY ONLY <3>1, i \in 1..Len(t), j \in i..Len(t), Len(t) \in Nat
  <2>4. ListIsRead(t, i + 3, j - 1)
    BY ONLY <2>3, Len(t) \in Nat, ListsAreRead
  <2> DEFINE e == Found(<<>>, j + 1)
  <2>5. e \in Lists(t)[j] /\ e.node = <<>> /\ e.next = j + 1
    <3>1. Lists(t)[j] = ListStep(t, Lists(t), j)
      BY <2>3, ListRule
    <3>2. ListStep(t, Lists(t), j) = {e}
      BY <2>2 DEF ListStep, ListFrom
    <3> QED BY <3>1, <3>2 DEF Found
  <2>6. ~MarkAt(t, j, ",")
    <3>1. "]" # ","
      OBVIOUS
    <3> QED BY <2>2, <3>1, OneMark
  <2> HIDE DEF e
  <2>7. IsSeq(e.node)
    BY <2>5, NoneAppended
  <2>8. Found(m \o e.node, e.next) \in Lists(t)[i + 3]
    BY ONLY <2>1, <2>3, <2>4, <2>5, <2>6, <2>7 DEF ListIsRead
  <2>9. m \o e.node = m
    <3>1. IsSeq(m)
      BY <2>1, <2>3, MembersAreSeqs
    <3> QED BY ONLY <2>5, <3>1, NoneAppended
  <2>10. Found(m, j + 1) \in Lists(t)[i + 3]
    BY ONLY <2>5, <2>8, <2>9
  <2>11. Found(T, j + 1) \in of(left)
    <3> DEFINE q == Found(m, j + 1)
    <3>1. q.node = m /\ q.next = j + 1 /\ q \in Lists(t)[i + 3]
      BY <2>10 DEF Found
    <3> HIDE DEF q
    <3> QED BY <2>1, <2>2, <3>1
  <2> QED BY <1>3, <2>11
<1> QED
  BY <1>4, <1>5, <1>6 DEF IsComparison

LEMMA UnariesAreRead ==
  ASSUME NEW t, Len(t) \in Nat, NEW c, NEW i \in 1..Len(t),
         i + 1 <= Len(t) => UnaryIsRead(t, c, i + 1),
         i + 1 <= Len(t) => \A j \in (i + 1)..Len(t) : ChainIsRead(t, c, "or", i + 1, j)
  PROVE  UnaryIsRead(t, c, i)
<1> SUFFICES ASSUME NEW j \in i..Len(t), NEW T \in Language(t)[<<i, j, "unary">>], Follows(t, "unary", j + 1)
             PROVE  \E r \in Reads(t, c)[<<i, "unary">>] : r.next = j + 1 /\ r.node.tree = T
  BY DEF UnaryIsRead
<1> DEFINE p == Reads(t, c)
<1>0. i \in 1..(Len(t) + 1) /\ j \in 0..Len(t) /\ i \in Int
  BY ONLY i \in 1..Len(t), j \in i..Len(t), Len(t) \in Nat
<1>1. p[<<i, "unary">>] = ParseUnary(t, c, i, p)
  BY <1>0, ReadsRule
<1>2. IsUnary(t, i, j, T)
  BY <1>0, UnaryRule
<1>3. \A node, next : Found(node, next).node = node /\ Found(node, next).next = next
  BY DEF Found
<1>4. CASE IsComparison(t, i, j, T)
  <2>1. Found(T, j + 1) \in Comparison(t, i)
    BY <1>4, ComparisonIsRead
  <2>2. ~WordAt(t, i, "not") /\ ~MarkAt(t, i, "(")
    <3>1. PICK left : left \in Operand(t, i)
      BY <2>1 DEF Comparison
    <3> QED BY <1>0, <1>4, <3>1, OperandBeginsNoMark DEF IsComparison
  <2> DEFINE r == Found(Leaf(T, c), j + 1)
  <2>3. r \in p[<<i, "unary">>]
    <3>1. ParseUnary(t, c, i, p) = {Found(Leaf(x.node, c), x.next) : x \in Comparison(t, i)}
      BY <2>2 DEF ParseUnary, ParseComparison
    <3> DEFINE q == Found(T, j + 1)
    <3>2. q \in Comparison(t, i) /\ q.node = T /\ q.next = j + 1
      BY <1>3, <2>1
    <3> HIDE DEF q
    <3> QED BY <1>1, <3>1, <3>2
  <2>4. r.next = j + 1 /\ r.node.tree = T
    BY DEF Found, Leaf, Node
  <2> HIDE DEF r
  <2> QED BY ONLY <2>3, <2>4
<1>5. CASE IsDenied(t, i, j, T)
  <2>1. PICK n \in Language(t)[<<i + 1, j, "unary">>] : T = <<"not", n>>
    BY <1>5 DEF IsDenied
  <2>2. i < j /\ WordAt(t, i, "not")
    BY <1>5 DEF IsDenied
  <2>3. i + 1 <= Len(t) /\ j \in (i + 1)..Len(t)
    <3>1. i < j
      BY <2>2
    <3> QED BY ONLY <3>1, i \in 1..Len(t), j \in i..Len(t), Len(t) \in Nat
  <2>4. PICK s \in p[<<i + 1, "unary">>] : s.next = j + 1 /\ s.node.tree = n
    BY <2>1, <2>3 DEF UnaryIsRead
  <2> DEFINE r == Found(Not(s.node), s.next)
  <2>5. r \in p[<<i, "unary">>]
    BY <1>1, <2>2, <2>4 DEF ParseUnary
  <2>6. r.next = j + 1 /\ r.node.tree = T
    BY <2>1, <2>4 DEF Found, Not, Node
  <2> HIDE DEF r
  <2> QED BY ONLY <2>5, <2>6
<1>6. CASE IsBracketed(t, i, j, T)
  <2>1. i + 1 < j /\ MarkAt(t, i, "(") /\ MarkAt(t, j, ")") /\ T \in Language(t)[<<i + 1, j - 1, "or">>]
    BY <1>6 DEF IsBracketed
  <2>2. i + 1 <= Len(t) /\ j - 1 \in (i + 1)..Len(t) /\ (j - 1) + 1 = j /\ j \in Int
    <3>1. i + 1 < j
      BY <2>1
    <3> QED BY ONLY <3>1, i \in 1..Len(t), j \in i..Len(t), Len(t) \in Nat
  <2>3. ~WordAt(t, i, "not") /\ ~WordAt(t, j, "or")
    BY <1>0, <2>1, <2>2, MarksAreNoOperands
  <2>4. Follows(t, "or", (j - 1) + 1)
    BY ONLY <2>1, <2>2 DEF Follows
  <2>5. ChainIsRead(t, c, "or", i + 1, j - 1)
    BY <2>2
  <2>6. PICK ns : NodesRead(t, c, "or", i + 1, j - 1, ns) /\ Joined("or", ns).tree = T
    BY ONLY <2>1, <2>4, <2>5 DEF ChainIsRead
  <2> DEFINE s == Found(ns, j)
             r == Found(Disjunction(s.node), s.next + 1)
  <2>7. s \in p[<<i + 1, "or">>] /\ s.node = ns /\ s.next = j
    BY <1>3, <2>2, <2>3, <2>6 DEF NodesRead
  <2>8. r.next = j + 1 /\ r.node.tree = T
    <3>1. Disjunction(s.node).tree = T
      BY <2>6, <2>7 DEF Disjunction
    <3> HIDE DEF s
    <3> QED BY <1>3, <2>7, <3>1
  <2> HIDE DEF s
  <2>9. r \in p[<<i, "unary">>]
    <3>1. ParseUnary(t, c, i, p) = {Found(Disjunction(x.node), x.next + 1) :
                                     x \in {x \in p[<<i + 1, "or">>] : MarkAt(t, x.next, ")")}}
      BY <2>1, <2>3 DEF ParseUnary
    <3>2. s \in {x \in p[<<i + 1, "or">>] : MarkAt(t, x.next, ")")}
      BY <2>1, <2>7
    <3> QED BY <1>1, <3>1, <3>2
  <2> HIDE DEF r
  <2> QED BY ONLY <2>8, <2>9
<1> QED
  BY <1>2, <1>4, <1>5, <1>6 DEF IsUnary

LEMMA OrFirstsAreRead ==
  ASSUME NEW t, Len(t) \in Nat, NEW c, NEW i \in 1..Len(t),
         \A j \in i..Len(t) : ChainIsRead(t, c, "and", i, j)
  PROVE  FirstIsRead(t, c, "or", i)
<1> SUFFICES ASSUME NEW j \in i..Len(t), NEW T \in Language(t)[<<i, j, "and">>], Follows(t, "or", j + 1)
             PROVE  \E r \in Firsts(t, c, "or", i) : r.next = j + 1 /\ r.node.tree = T
  BY DEF FirstIsRead, Tighter
<1>0. j + 1 \in Int
  BY ONLY j \in i..Len(t), i \in 1..Len(t)
<1>1. Follows(t, "and", j + 1)
  BY DEF Follows
<1>2. ~WordAt(t, j + 1, "and")
  <2>1. CASE j + 1 = Len(t) + 1
    BY <2>1 DEF WordAt
  <2>2. CASE MarkAt(t, j + 1, ")")
    BY <1>0, <2>2, MarksAreNoOperands
  <2>3. CASE WordAt(t, j + 1, "or")
    <3>1. Word(<<"or">>)[2][1] = "or" /\ Word(<<"and">>)[2][1] = "and" /\ "or" # "and"
      BY DEF Word
    <3> QED BY <2>3, <3>1 DEF WordAt
  <2> QED BY <2>1, <2>2, <2>3 DEF Follows
<1>3. PICK ns : NodesRead(t, c, "and", i, j, ns) /\ Joined("and", ns).tree = T
  BY <1>1 DEF ChainIsRead
<1> DEFINE s == Found(ns, j + 1)
           r == Found(Conjunction(s.node), s.next)
<1>4. s \in Reads(t, c)[<<i, "and">>] /\ s.node = ns /\ s.next = j + 1
  BY <1>2, <1>3 DEF NodesRead, Found
<1> HIDE DEF s
<1>5. r \in Firsts(t, c, "or", i)
  BY <1>4 DEF Firsts, Conjunctions
<1>6. r.next = j + 1 /\ r.node.tree = T
  BY <1>3, <1>4 DEF Found, Conjunction
<1> HIDE DEF r
<1> QED
  BY ONLY <1>5, <1>6

LEMMA TreesAreRead ==
  ASSUME NEW t, Len(t) \in Nat, NEW c
  PROVE  \A i \in 1..Len(t) : FirstIsRead(t, c, "or", i)
<1> DEFINE N == Len(t)
           S == {i \in 1..N : /\ UnaryIsRead(t, c, i)
                              /\ \A word \in {"and", "or"} : FirstIsRead(t, c, word, i)}
<1>1. ASSUME NEW i \in 1..N, \A j \in (i + 1)..N : j \in S
      PROVE  i \in S
  <2>0. \A j \in (i + 1)..Len(t) :
          UnaryIsRead(t, c, j) /\ \A word \in {"and", "or"} : FirstIsRead(t, c, word, j)
    BY <1>1
  <2>1. i + 1 <= Len(t) => i + 1 \in (i + 1)..Len(t) /\ i + 1 \in 1..Len(t)
    BY ONLY i \in 1..N, Len(t) \in Nat
  <2>2. UnaryIsRead(t, c, i)
    <3>1. i + 1 <= Len(t) => UnaryIsRead(t, c, i + 1)
      BY <2>0, <2>1
    <3>2. ASSUME i + 1 <= Len(t)
          PROVE  \A j \in (i + 1)..Len(t) : ChainIsRead(t, c, "or", i + 1, j)
      <4>1. \A x \in (i + 1)..Len(t) : FirstIsRead(t, c, "or", x)
        BY <2>0
      <4> HIDE DEF S, N
      <4> QED BY ONLY <2>1, <3>2, <4>1, Len(t) \in Nat, ChainsAreRead
    <3> HIDE DEF S, N
    <3>3. i \in 1..Len(t)
      BY DEF N
    <3> QED BY ONLY <3>1, <3>2, <3>3, Len(t) \in Nat, UnariesAreRead
  <2>3. FirstIsRead(t, c, "and", i)
    <3>1. \A j : Follows(t, "and", j) => Follows(t, "unary", j)
      BY DEF Follows
    <3> QED BY <2>2, <3>1 DEF FirstIsRead, UnaryIsRead, Firsts, Tighter
  <2>4. \A x \in i..Len(t) : FirstIsRead(t, c, "and", x)
    <3>1. \A x \in i..Len(t) : x = i \/ x \in (i + 1)..Len(t)
      BY ONLY i \in 1..N, Len(t) \in Nat
    <3> QED BY ONLY <2>0, <2>3, <3>1
  <2>5. i \in 1..Len(t)
    OBVIOUS
  <2>6. \A j \in i..Len(t) : ChainIsRead(t, c, "and", i, j)
    BY ONLY <2>4, <2>5, Len(t) \in Nat, ChainsAreRead
  <2>7. FirstIsRead(t, c, "or", i)
    BY ONLY <2>5, <2>6, Len(t) \in Nat, OrFirstsAreRead
  <2> QED BY <2>2, <2>3, <2>7
<1>2. \A i \in 1..N : i \in S
  <2>1. N \in Nat
    OBVIOUS
  <2> HIDE DEF S, N
  <2> QED BY <1>1, <2>1, FromTheBack
<1> QED
  BY <1>2

LEMMA NoTreesOfNothing ==
  ASSUME NEW t, Len(t) = 0
  PROVE  Trees(t) = {}
<1>0. Len(t) \in Nat /\ 1 \in 1..(Len(t) + 1) /\ 0 \in 0..Len(t)
  OBVIOUS
<1>1. ASSUME NEW T \in Language(t)[<<1, 0, "unary">>]
      PROVE  FALSE
  <2>1. IsUnary(t, 1, 0, T)
    BY <1>0, UnaryRule
  <2> QED BY ONLY <2>1 DEF IsUnary, IsComparison, IsDenied, IsBracketed
<1>2. ASSUME NEW word \in {"and", "or"}, Language(t)[<<1, 0, Tighter(word)>>] = {},
             NEW T \in Language(t)[<<1, 0, word>>]
      PROVE  FALSE
  <2>1. IsChain(t, word, 1, 0, T)
    BY <1>0, ChainRule
  <2>2. (1 + 1)..(0 - 1) = {}
    OBVIOUS
  <2> QED BY ONLY <1>2, <2>1, <2>2 DEF IsChain
<1>3. Language(t)[<<1, 0, "and">>] = {}
  BY <1>1, <1>2 DEF Tighter
<1>4. Language(t)[<<1, 0, "or">>] = {}
  BY <1>2, <1>3 DEF Tighter
<1> QED
  BY <1>4 DEF Trees

(* Of every text, in every context, the parser makes the trees that the    *)
(* grammar derives, and refuses the text if there is none (expr.go,        *)
(* parseOr and below).                                                     *)
THEOREM ParserReadsTheGrammar ==
  ASSUME NEW t, Len(t) \in Nat, NEW c
  PROVE  ParsedTrees(t, c) = Trees(t)
<1> DEFINE R == Reads(t, c)[<<1, "or">>]
<1>0. 1 \in 1..(Len(t) + 1) /\ (Len(t) + 1) - 1 = Len(t) /\ Len(t) \in 0..Len(t)
  OBVIOUS
<1>1. \A T : T \in ParsedTrees(t, c) <=>
        \E r \in R : r.next = Len(t) + 1 /\ T = Joined("or", r.node).tree
  BY DEF ParsedTrees, Parsed, Disjunction
<1>2. ASSUME NEW r \in R, r.next = Len(t) + 1
      PROVE  Joined("or", r.node).tree \in Trees(t)
  <2>1. Derives(t, c, 1)
    BY <1>0, ReadsAreDerived
  <2>2. TreeOf("or", r.node) \in Language(t)[<<1, r.next - 1, "or">>]
    BY <2>1 DEF Derives, Kinds
  <2>3. r.next - 1 = Len(t)
    BY <1>0, <1>2
  <2> QED BY <2>2, <2>3 DEF TreeOf, Trees
<1>3. ASSUME NEW T \in Trees(t)
      PROVE  \E r \in R : r.next = Len(t) + 1 /\ T = Joined("or", r.node).tree
  <2>1. Len(t) # 0
    BY <1>3, NoTreesOfNothing
  <2>2. 1 \in 1..Len(t) /\ Len(t) \in 1..Len(t)
    BY <2>1
  <2>3. \A x \in 1..Len(t) : FirstIsRead(t, c, "or", x)
    BY TreesAreRead
  <2>4. \A j \in 1..Len(t) : ChainIsRead(t, c, "or", 1, j)
    BY ONLY <2>2, <2>3, Len(t) \in Nat, ChainsAreRead
  <2>5. Follows(t, "or", Len(t) + 1) /\ ~WordAt(t, Len(t) + 1, "or")
    BY DEF Follows, WordAt
  <2>6. T \in Language(t)[<<1, Len(t), "or">>]
    BY DEF Trees
  <2>7. PICK ns : NodesRead(t, c, "or", 1, Len(t), ns) /\ Joined("or", ns).tree = T
    BY ONLY <2>2, <2>4, <2>5, <2>6 DEF ChainIsRead
  <2>8. Found(ns, Len(t) + 1) \in R
    BY ONLY <2>5, <2>7 DEF NodesRead
  <2> DEFINE r == Found(ns, Len(t) + 1)
  <2>9. r.node = ns /\ r.next = Len(t) + 1
    BY DEF Found
  <2> HIDE DEF r, R
  <2> QED BY <2>7, <2>8, <2>9 DEF r
<1>4. \A T : T \in ParsedTrees(t, c) <=> T \in Trees(t)
  <2> HIDE DEF R
  <2> QED BY <1>1, <1>2, <1>3
<1> QED
  BY <1>4

TextIsTyped == text \in Seq(Tokens)

LEMMA TypingIsTyped == Spec => []TextIsTyped
<1>1. Init => TextIsTyped
  BY DEF Init, TextIsTyped
<1>2. TextIsTyped /\ [Next]_vars => TextIsTyped'
  <2> SUFFICES ASSUME TextIsTyped, [Next]_vars
               PROVE  text' \in Seq(Tokens)
    BY DEF TextIsTyped
  <2>1. CASE \E token \in Tokens : Type(token)
    <3>1. PICK token \in Tokens : text' = Append(text, token)
      BY <2>1 DEF Type
    <3> QED BY <3>1 DEF TextIsTyped
  <2>2. CASE ~ \E token \in Tokens : Type(token)
    BY <2>2 DEF TextIsTyped, Next, vars, Write, Apply, Look, Wait
  <2> QED BY <2>1, <2>2
<1> QED
  BY <1>1, <1>2, PTL DEF Spec

(* Whatever a caller types, the parser makes of it what the grammar of     *)
(* conditions says (expr.go:17-26; parseOr, parseAnd, parseUnary,          *)
(* parseComparison).                                                       *)
THEOREM ParserIsRight == Spec => []ParserIsTheGrammar
<1>1. TextIsTyped => ParserIsTheGrammar
  BY ParserReadsTheGrammar DEF TextIsTyped, ParserIsTheGrammar
<1> QED
  BY <1>1, TypingIsTyped, PTL
=============================================================================
