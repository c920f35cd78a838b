----------------------------- MODULE RoundsProofs -----------------------------
(***************************************************************************)
(* Proofs about Schedule and Rounds, for any calendar, polls, ballots and  *)
(* days, and for every number of rounds and responses.                     *)
(***************************************************************************)
EXTENDS Rounds, AnswersProofs, SequenceTheorems

(***************************************************************************)
(* The calendar.                                                           *)
(***************************************************************************)
\* Some lists of months are shorter than others: the shortest with a property
\* stands in for an induction.
LEMMA Least ==
    ASSUME NEW S, S \subseteq Nat, S # {}
    PROVE  \E m \in S : \A k \in S : m <= k
<1> DEFINE R == {p \in Nat \X Nat : p[1] < p[2]}
<1>1. IsWellFoundedOn(R, Nat)
  BY NatLessThanWellFounded DEF OpToRel
<1>2. PICK m \in S : \A k \in S : ~ (<<k, m>> \in R)
  <2> HIDE DEF R
  <2> QED BY <1>1, WFMin
<1>3. \A k \in S : ~ (k < m)
  BY <1>2
<1> QED BY <1>3

LEMMA MonthFacts ==
    /\ Months \in Nat /\ Months > 0 /\ MonthStart[1] = 0
    /\ \A m \in 1..(Months + 1) : MonthStart[m] \in Nat
    /\ \A m \in 1..Months : /\ m + 1 \in 1..(Months + 1)
                            /\ MonthStart[m] < MonthStart[m + 1]
                            /\ MonthLength(m) = MonthStart[m + 1] - MonthStart[m]
                            /\ MonthLength(m) \in 28..31
<1>1. /\ Months \in Nat /\ Months > 0 /\ MonthStart[1] = 0
      /\ \A m \in 1..(Months + 1) : MonthStart[m] \in Nat
      /\ \A m \in 1..Months : MonthLength(m) \in 28..31
  BY ScheduleAssumption
<1>2. ASSUME NEW m \in 1..Months
      PROVE  /\ m + 1 \in 1..(Months + 1)
             /\ MonthStart[m] < MonthStart[m + 1]
             /\ MonthLength(m) = MonthStart[m + 1] - MonthStart[m]
  <2>1. m \in 1..(Months + 1) /\ m + 1 \in 1..(Months + 1)
    BY <1>1
  <2>2. MonthStart[m] \in Nat /\ MonthStart[m + 1] \in Nat
    BY <1>1, <2>1
  <2> QED BY <1>1, <2>1, <2>2 DEF MonthLength
<1> QED BY <1>1, <1>2

\* A later month begins later: the first that did not would follow one that did.
LEMMA MonthsInOrder ==
    ASSUME NEW m \in 1..(Months + 1), NEW n \in 1..(Months + 1), m < n
    PROVE  MonthStart[m] < MonthStart[n]
<1> DEFINE Bad == {k \in (m + 1)..(Months + 1) : ~ (MonthStart[m] < MonthStart[k])}
<1> SUFFICES ASSUME Bad # {} PROVE FALSE
  BY MonthFacts
<1>1. PICK k \in Bad : \A l \in Bad : k <= l
  <2>1. Bad \subseteq Nat
    BY MonthFacts
  <2> HIDE DEF Bad
  <2> QED BY <2>1, Least
<1>2. k - 1 \in 1..Months /\ MonthStart[k - 1] < MonthStart[k]
  <2>1. k - 1 \in 1..Months /\ (k - 1) + 1 = k
    BY MonthFacts
  <2>2. MonthStart[k - 1] < MonthStart[(k - 1) + 1]
    BY <2>1, MonthFacts
  <2> QED BY <2>1, <2>2
<1>3. CASE k - 1 = m
  BY <1>2, <1>3
<1>4. CASE k - 1 # m
  <2>1. k - 1 \in (m + 1)..(Months + 1) /\ k - 1 \notin Bad
    BY <1>1, <1>2, <1>4, MonthFacts
  <2>2. MonthStart[m] < MonthStart[k - 1]
    BY <2>1
  <2>3. MonthStart[m] \in Nat /\ MonthStart[k - 1] \in Nat /\ MonthStart[k] \in Nat
    BY <1>1, <2>1, MonthFacts
  <2> QED BY <1>2, <2>2, <2>3
<1> QED BY <1>3, <1>4

\* A day is in one month only.
LEMMA OneMonth ==
    ASSUME NEW d \in Int, NEW m \in 1..Months, In(d, m)
    PROVE  MonthOf(d) = m
<1>1. \A n \in 1..Months : In(d, n) => n = m
  <2> SUFFICES ASSUME NEW n \in 1..Months, In(d, n), n # m PROVE FALSE
    OBVIOUS
  <2>1. /\ MonthStart[m] \in Nat /\ MonthStart[n] \in Nat
        /\ MonthStart[m + 1] \in Nat /\ MonthStart[n + 1] \in Nat
    BY MonthFacts
  <2>2. CASE n < m
    <3>1. n + 1 <= m /\ n + 1 \in 1..(Months + 1) /\ m \in 1..(Months + 1)
      BY <2>2, MonthFacts
    <3>2. MonthStart[n + 1] <= MonthStart[m]
      BY <2>1, <3>1, MonthsInOrder
    <3> QED BY <2>1, <3>2 DEF In
  <2>3. CASE m < n
    <3>1. m + 1 <= n /\ m + 1 \in 1..(Months + 1) /\ n \in 1..(Months + 1)
      BY <2>3, MonthFacts
    <3>2. MonthStart[m + 1] <= MonthStart[n]
      BY <2>1, <3>1, MonthsInOrder
    <3> QED BY <2>1, <3>2 DEF In
  <2> QED BY <2>2, <2>3, MonthFacts
<1> QED BY <1>1 DEF MonthOf

\* Every day of the calendar is in a month: the first that ends after it.
LEMMA SomeMonth ==
    ASSUME NEW d \in Days
    PROVE  MonthOf(d) \in 1..Months /\ In(d, MonthOf(d)) /\ d \in Int
<1> DEFINE Later == {m \in 1..Months : d < MonthStart[m + 1]}
<1>1. d \in Nat /\ d < MonthStart[Months + 1] /\ Months \in 1..Months
  BY MonthFacts DEF Days
<1>2. Later # {} /\ Later \subseteq Nat
  BY <1>1
<1>3. PICK m \in Later : \A k \in Later : m <= k
  <2> HIDE DEF Later
  <2> QED BY <1>2, Least
<1>4. MonthStart[m] <= d
  <2>1. CASE m = 1
    BY <1>1, <2>1, MonthFacts
  <2>2. CASE m # 1
    <3>1. m - 1 \in 1..Months /\ (m - 1) + 1 = m /\ m - 1 \notin Later /\ m \in 1..(Months + 1)
      BY <1>3, <2>2, MonthFacts
    <3>2. ~ (d < MonthStart[m])
      BY <3>1
    <3> QED BY <1>1, <3>1, <3>2, MonthFacts
  <2> QED BY <2>1, <2>2
<1>5. In(d, m) /\ m \in 1..Months
  BY <1>3, <1>4 DEF In
<1> QED BY <1>1, <1>5, OneMonth

(***************************************************************************)
(* addInterval.                                                            *)
(***************************************************************************)
\* A month on is the same day of the next month and, if that month is too short,
\* so many days after its end (Date.setMonth in addInterval).
THEOREM MonthOn ==
    ASSUME NEW d \in Days, AddInterval(d, "monthly") \in Days
    PROVE  LET m == MonthOf(d)
               e == AddInterval(d, "monthly") IN
           IF DayOfMonth(d) <= MonthLength(m + 1)
           THEN MonthOf(e) = m + 1 /\ DayOfMonth(e) = DayOfMonth(d)
           ELSE MonthOf(e) = m + 2 /\ DayOfMonth(e) = DayOfMonth(d) - MonthLength(m + 1)
<1> DEFINE m == MonthOf(d)
           e == AddInterval(d, "monthly")
<1>1. m \in 1..Months /\ In(d, m) /\ d \in Int
  BY SomeMonth
<1>2. e = d + MonthLength(m)
  BY DEF AddInterval
<1>3. DayOfMonth(d) = d - MonthStart[m] + 1
  BY DEF DayOfMonth
<1> HIDE DEF m, e
<1>4. /\ MonthStart[m] \in Nat /\ MonthStart[m + 1] \in Nat /\ m + 1 \in 1..(Months + 1)
      /\ MonthLength(m) = MonthStart[m + 1] - MonthStart[m]
      /\ MonthStart[Months + 1] \in Nat
  BY <1>1, MonthFacts
<1>5. MonthStart[m] <= d /\ d < MonthStart[m + 1]
  BY <1>1 DEF In
<1>6. MonthStart[m + 1] <= e /\ e < MonthStart[Months + 1] /\ e \in Int
  BY <1>1, <1>2, <1>4, <1>5 DEF Days, e
<1>7. m + 1 \in 1..Months
  BY <1>4, <1>6, MonthFacts
<1>8. /\ MonthStart[(m + 1) + 1] \in Nat
      /\ MonthLength(m + 1) = MonthStart[(m + 1) + 1] - MonthStart[m + 1]
      /\ MonthLength(m + 1) \in 28..31 /\ MonthLength(m) \in 28..31
  BY <1>1, <1>7, MonthFacts
<1>9. CASE DayOfMonth(d) <= MonthLength(m + 1)
  <2>1. e < MonthStart[(m + 1) + 1]
    BY <1>1, <1>2, <1>3, <1>4, <1>8, <1>9
  <2>2. MonthOf(e) = m + 1
    BY <1>6, <1>7, <2>1, OneMonth DEF In
  <2>3. DayOfMonth(e) = DayOfMonth(d)
    BY <1>1, <1>2, <1>3, <1>4, <2>2 DEF DayOfMonth
  <2> QED BY <1>9, <2>2, <2>3 DEF m, e
<1>10. CASE ~ (DayOfMonth(d) <= MonthLength(m + 1))
  <2>1. MonthStart[(m + 1) + 1] <= e
    BY <1>1, <1>2, <1>3, <1>4, <1>8, <1>10
  <2>2. m + 2 \in 1..Months /\ (m + 1) + 1 = m + 2
    <3>1. (m + 1) + 1 # Months + 1
      BY <1>4, <1>6, <1>8, <2>1
    <3>2. Months \in Nat /\ m \in Nat /\ m + 1 \in 1..Months
      BY <1>1, <1>7, ScheduleAssumption
    <3> QED BY <3>1, <3>2
  <2>3. /\ MonthStart[(m + 2) + 1] \in Nat
        /\ MonthLength(m + 2) = MonthStart[(m + 2) + 1] - MonthStart[m + 2]
        /\ MonthLength(m + 2) \in 28..31
    BY <2>2, MonthFacts
  <2>4. e < MonthStart[(m + 2) + 1]
    BY <1>1, <1>2, <1>4, <1>5, <1>8, <2>2, <2>3
  <2>5. MonthOf(e) = m + 2
    BY <1>6, <2>1, <2>2, <2>4, OneMonth DEF In
  <2>6. DayOfMonth(e) = DayOfMonth(d) - MonthLength(m + 1)
    BY <1>1, <1>2, <1>3, <1>4, <1>8, <2>2, <2>5 DEF DayOfMonth
  <2> QED BY <1>10, <2>5, <2>6 DEF m, e
<1> QED BY <1>9, <1>10

(***************************************************************************)
(* The walk of rollSeries.                                                 *)
(***************************************************************************)
LEMMA IntervalAdded ==
    ASSUME NEW interval \in Intervals, NEW d \in Days
    PROVE  LET e == AddInterval(d, interval) IN e \in Nat /\ d < e /\ e <= d + 31
<1>1. d \in Nat /\ MonthLength(MonthOf(d)) \in 28..31
  BY SomeMonth, MonthFacts DEF Days
<1>2. CASE interval = "daily"
  BY <1>1, <1>2 DEF AddInterval
<1>3. CASE interval = "weekly"
  BY <1>1, <1>3 DEF AddInterval
<1>4. CASE interval = "monthly"
  BY <1>1, <1>4 DEF AddInterval
<1> QED BY <1>2, <1>3, <1>4 DEF Intervals

\* The calendar has every day on which such a round would be over, and the month after it.
Reaches(length, time) == \A e \in Nat : e + length <= time => e \in Days /\ e + 31 \in Days

\* A function that walks as the code does from all days later than time - length - n.
Walks(g, interval, length, time, n) ==
    /\ g = [e \in Nat |-> g[e]]
    /\ \A e \in Nat : e > time - length - n =>
          g[e] = IF e + length > time THEN e ELSE g[AddInterval(e, interval)]

LEMMA WalkExists ==
    ASSUME NEW interval \in Intervals, NEW length \in Int, NEW time \in Int, Reaches(length, time)
    PROVE  \E g : g = [e \in Nat |-> IF e + length > time THEN e ELSE g[AddInterval(e, interval)]]
<1> DEFINE Good == {n \in Nat : \E g : Walks(g, interval, length, time, n)}
<1>1. 0 \in Good
  <2> DEFINE g == [e \in Nat |-> e]
  <2>1. Walks(g, interval, length, time, 0)
    BY DEF Walks
  <2> HIDE DEF g
  <2> QED BY <2>1
<1>2. ASSUME NEW n \in Nat, n \in Good
      PROVE  n + 1 \in Good
  <2>1. PICK g : Walks(g, interval, length, time, n)
    BY <1>2
  <2> DEFINE d == time - length - n
             h == [e \in Nat |-> IF e = d THEN g[AddInterval(d, interval)] ELSE g[e]]
  <2>2. h = [e \in Nat |-> h[e]]
    OBVIOUS
  <2>3. ASSUME NEW e \in Nat, e > time - length - (n + 1)
        PROVE  h[e] = IF e + length > time THEN e ELSE h[AddInterval(e, interval)]
    <3>1. e >= d /\ d \in Int
      BY <2>3
    <3>2. CASE e = d
      <4>1. e + length <= time
        BY <3>2
      <4>2. AddInterval(e, interval) \in Nat /\ e < AddInterval(e, interval)
        BY <4>1, IntervalAdded DEF Reaches
      <4>3. h[AddInterval(e, interval)] = g[AddInterval(e, interval)] /\ h[e] = g[AddInterval(d, interval)]
        BY <3>2, <4>2
      <4>4. ~ (e + length > time)
        BY <4>1
      <4> QED BY <3>2, <4>3, <4>4
    <3>3. CASE e # d
      <4>1. e > d /\ h[e] = g[e]
        BY <3>1, <3>3
      <4>2. g[e] = IF e + length > time THEN e ELSE g[AddInterval(e, interval)]
        BY <2>1, <4>1 DEF Walks
      <4>3. e + length <= time =>
               AddInterval(e, interval) \in Nat /\ e < AddInterval(e, interval)
        BY IntervalAdded DEF Reaches
      <4>4. e + length <= time => h[AddInterval(e, interval)] = g[AddInterval(e, interval)]
        BY <3>1, <4>1, <4>3
      <4>5. CASE e + length > time
        BY <4>1, <4>2, <4>5
      <4>6. CASE e + length <= time
        <5>1. ~ (e + length > time)
          BY <4>6
        <5> QED BY <4>1, <4>2, <4>4, <4>6, <5>1
      <4> QED BY <4>5, <4>6
    <3> QED BY <3>2, <3>3
  <2> HIDE DEF h
  <2>4. Walks(h, interval, length, time, n + 1)
    BY <2>2, <2>3 DEF Walks
  <2> QED BY <2>4
<1>3. \E n \in Nat : \A e \in Nat : e > time - length - n
  <2>1. CASE time - length \in Nat
    <3>1. time - length + 1 \in Nat /\ \A e \in Nat : e > time - length - (time - length + 1)
      BY <2>1
    <3> QED BY <3>1
  <2>2. CASE time - length \notin Nat
    <3>1. \A e \in Nat : e > time - length - 0
      BY <2>2
    <3> QED BY <3>1
  <2> QED BY <2>1, <2>2
<1>4. Nat \subseteq Good
  <2> HIDE DEF Good
  <2> QED BY <1>1, <1>2, Counting
<1>5. PICK n \in Nat : \A e \in Nat : e > time - length - n
  BY <1>3
<1>6. PICK g : Walks(g, interval, length, time, n)
  BY <1>4
<1>7. \A e \in Nat : g[e] = IF e + length > time THEN e ELSE g[AddInterval(e, interval)]
  BY <1>5, <1>6 DEF Walks
<1>8. g = [e \in Nat |-> g[e]]
  BY <1>6 DEF Walks
<1>9. g = [e \in Nat |-> IF e + length > time THEN e ELSE g[AddInterval(e, interval)]]
  BY <1>7, <1>8, Zenon
<1> QED BY <1>9

LEMMA WalkDef ==
    ASSUME NEW interval \in Intervals, NEW length \in Int, NEW time \in Int, Reaches(length, time),
           NEW d \in Nat
    PROVE  Walk(d, interval, length, time)
              = IF d + length > time THEN d
                ELSE Walk(AddInterval(d, interval), interval, length, time)
<1> DEFINE g == CHOOSE g : g = [e \in Nat |-> IF e + length > time THEN e
                                              ELSE g[AddInterval(e, interval)]]
<1>1. \A e : Walk(e, interval, length, time) = g[e]
  BY DEF Walk
<1>2. g = [e \in Nat |-> IF e + length > time THEN e ELSE g[AddInterval(e, interval)]]
  BY WalkExists, Zenon
<1> HIDE DEF g
<1>3. g[d] = IF d + length > time THEN d ELSE g[AddInterval(d, interval)]
  BY <1>2, Zenon
<1> QED BY <1>1, <1>3

\* From the last day on which a round would be over back to any other.
LEMMA WalkingBack ==
    ASSUME NEW length \in Int, NEW time \in Int, NEW interval \in Intervals, Reaches(length, time),
           NEW Good,
           \A e \in Nat : e + length > time => e \in Good,
           \A e \in Nat : e + length <= time /\ AddInterval(e, interval) \in Good => e \in Good
    PROVE  Nat \subseteq Good
<1> DEFINE From(n) == {e \in Nat : e > time - length - n}
           Done == {n \in Nat : From(n) \subseteq Good}
<1>1. 0 \in Done
  BY DEF From
<1>2. ASSUME NEW n \in Nat, n \in Done
      PROVE  n + 1 \in Done
  <2> SUFFICES ASSUME NEW e \in Nat, e > time - length - (n + 1), e \notin From(n), e + length <= time
               PROVE  e \in Good
    BY <1>2
  <2>1. AddInterval(e, interval) \in Nat /\ e < AddInterval(e, interval)
    BY IntervalAdded DEF Reaches
  <2>2. AddInterval(e, interval) \in From(n)
    BY <2>1
  <2> QED BY <1>2, <2>2
<1>3. Nat \subseteq Done
  <2> HIDE DEF Done
  <2> QED BY <1>1, <1>2, Counting
<1>4. ASSUME NEW d \in Nat PROVE d \in Good
  <2>1. CASE d + length > time
    BY <2>1
  <2>2. CASE d + length <= time
    <3>1. time - length + 1 \in Nat /\ d \in From(time - length + 1)
      BY <2>2
    <3> QED BY <1>3, <3>1
  <2> QED BY <2>1, <2>2
<1> QED BY <1>4

\* The walk ends, on a day that is not too early, and at most a month too late.
THEOREM WalkEnds ==
    ASSUME NEW length \in Int, NEW time \in Int, NEW interval \in Intervals, Reaches(length, time),
           NEW d \in Nat
    PROVE  LET w == Walk(d, interval, length, time) IN
           /\ w \in Nat /\ d <= w /\ w + length > time
           /\ w = d \/ w <= time - length + 31
<1> DEFINE W(e) == Walk(e, interval, length, time)
           Good == {e \in Nat : /\ W(e) \in Nat /\ e <= W(e) /\ W(e) + length > time
                                /\ W(e) = e \/ W(e) <= time - length + 31}
<1>1. \A e \in Nat : W(e) = IF e + length > time THEN e ELSE W(AddInterval(e, interval))
  BY WalkDef
<1> HIDE DEF W
<1>2. ASSUME NEW e \in Nat, e + length > time
      PROVE  e \in Good
  BY <1>1, <1>2
<1>3. ASSUME NEW e \in Nat, e + length <= time, AddInterval(e, interval) \in Good
      PROVE  e \in Good
  <2> DEFINE f == AddInterval(e, interval)
  <2>1. f \in Nat /\ e < f /\ f <= e + 31
    BY <1>3, IntervalAdded DEF Reaches
  <2>2. ~ (e + length > time)
    BY <1>3
  <2>3. W(e) = W(f)
    BY <1>1, <2>2
  <2>4. W(f) \in Nat /\ f <= W(f) /\ W(f) + length > time
        /\ (W(f) = f \/ W(f) <= time - length + 31)
    BY <1>3
  <2> HIDE DEF f
  <2> QED BY <1>3, <2>1, <2>3, <2>4
<1>4. Nat \subseteq Good
  <2> HIDE DEF Good
  <2> QED BY <1>2, <1>3, WalkingBack
<1> QED BY <1>4 DEF W

(***************************************************************************)
(* The slots of a series.                                                  *)
(***************************************************************************)
\* The interval after an opening or a slot leads to the next slot.
LEMMA NextSlot ==
    ASSUME NEW interval \in Intervals, NEW o \in Days, NEW e \in Days,
           interval # "monthly" \/ DayOfMonth(o) <= 28,
           e = o \/ Slot(e, o, interval),
           AddInterval(e, interval) \in Days
    PROVE  LET f == AddInterval(e, interval) IN
           /\ Slot(f, o, interval)
           /\ \A d \in (e + 1)..(f - 1) : ~ Slot(d, o, interval)
<1>1. o \in Nat /\ e \in Nat /\ o <= e
  BY DEF Days, Slot
<1>2. CASE interval = "daily"
  <2>1. AddInterval(e, interval) = e + 1
    BY <1>2 DEF AddInterval
  <2> QED BY <1>1, <1>2, <2>1 DEF Slot
<1>3. CASE interval = "weekly"
  <2>1. AddInterval(e, interval) = e + 7
    BY <1>3 DEF AddInterval
  <2>2. (e - o) % 7 = 0
    BY <1>1, <1>3 DEF Slot
  <2>3. (e + 7 - o) % 7 = 0
    BY <1>1, <2>2
  <2>4. \A d \in (e + 1)..(e + 7 - 1) : (d - o) % 7 # 0
    BY <1>1, <2>2
  <2> QED BY <1>1, <1>3, <2>1, <2>3, <2>4 DEF Slot
<1>4. CASE interval = "monthly"
  <2> DEFINE m == MonthOf(e)
             f == AddInterval(e, "monthly")
  <2>1. m \in 1..Months /\ In(e, m) /\ f = e + MonthLength(m)
    BY SomeMonth DEF AddInterval
  <2>2. f \in Days /\ f \in Nat
    BY <1>4 DEF Days
  <2>3. /\ MonthStart[m] \in Nat /\ MonthStart[m + 1] \in Nat
        /\ MonthLength(m) = MonthStart[m + 1] - MonthStart[m] /\ m + 1 \in 1..(Months + 1)
        /\ MonthStart[Months + 1] \in Nat
    BY <2>1, MonthFacts
  <2>4. MonthStart[m] <= e /\ e < MonthStart[m + 1]
    BY <2>1 DEF In
  <2>5. DayOfMonth(e) = e - MonthStart[m] + 1
    BY DEF DayOfMonth
  <2>6. DayOfMonth(e) = DayOfMonth(o) /\ DayOfMonth(o) <= 28
    BY <1>4 DEF Slot
  <2>7. m + 1 \in 1..Months
    <3>1. MonthStart[m + 1] <= f /\ f < MonthStart[Months + 1]
      BY <1>1, <2>1, <2>2, <2>3, <2>4 DEF Days
    <3>2. m + 1 # Months + 1
      BY <2>2, <2>3, <3>1
    <3> QED BY <2>1, <3>2, MonthFacts
  <2>8. MonthLength(m + 1) \in 28..31
    BY <2>7, MonthFacts
  <2>9. DayOfMonth(e) <= MonthLength(m + 1)
    BY <1>1, <2>3, <2>4, <2>5, <2>6, <2>8
  <2>10. MonthOf(f) = m + 1 /\ DayOfMonth(f) = DayOfMonth(e)
    BY <2>2, <2>9, MonthOn
  <2>11. Slot(f, o, interval)
    BY <1>1, <1>4, <2>1, <2>2, <2>3, <2>4, <2>6, <2>10 DEF Slot
  <2>12. ASSUME NEW d \in (e + 1)..(f - 1)
         PROVE  DayOfMonth(d) # DayOfMonth(e)
    <3>1. d \in Int /\ e < d /\ d < f
      BY <1>1, <2>2
    <3>2. CASE d < MonthStart[m + 1]
      <4>1. MonthOf(d) = m
        BY <1>1, <2>1, <2>3, <2>4, <3>1, <3>2, OneMonth DEF In
      <4>2. DayOfMonth(d) = d - MonthStart[m] + 1
        BY <4>1 DEF DayOfMonth
      <4> QED BY <1>1, <2>3, <2>5, <3>1, <4>2
    <3>3. CASE MonthStart[m + 1] <= d
      <4>1. MonthStart[(m + 1) + 1] \in Nat
            /\ MonthLength(m + 1) = MonthStart[(m + 1) + 1] - MonthStart[m + 1]
        BY <2>7, MonthFacts
      <4>2. DayOfMonth(f) = f - MonthStart[m + 1] + 1
        BY <2>10 DEF DayOfMonth
      <4>3. f < MonthStart[(m + 1) + 1]
        BY <1>1, <2>2, <2>3, <2>4, <2>5, <2>9, <2>10, <4>1, <4>2
      <4>4. MonthOf(d) = m + 1
        BY <2>2, <2>3, <2>7, <3>1, <3>3, <4>1, <4>3, OneMonth DEF In
      <4>5. DayOfMonth(d) = d - MonthStart[m + 1] + 1
        BY <4>4 DEF DayOfMonth
      <4> QED BY <2>2, <2>3, <2>10, <3>1, <4>2, <4>5
    <3> QED BY <2>3, <3>1, <3>2, <3>3
  <2>13. \A d \in (e + 1)..(f - 1) : ~ Slot(d, o, interval)
    BY <1>4, <2>6, <2>12 DEF Slot
  <2> QED BY <1>4, <2>11, <2>13
<1> QED BY <1>2, <1>3, <1>4 DEF Intervals

\* The walk ends in the first slot in which a round would not be over.
THEOREM WalkToSlot ==
    ASSUME NEW interval \in Intervals, NEW length \in Int, NEW time \in Int, Reaches(length, time),
           NEW o \in Days, interval # "monthly" \/ DayOfMonth(o) <= 28,
           AddInterval(o, interval) \in Days
    PROVE  LET w == Walk(AddInterval(o, interval), interval, length, time) IN
           /\ Slot(w, o, interval)
           /\ \A d \in o..(w - 1) : Slot(d, o, interval) => d + length <= time
<1> DEFINE W(e) == Walk(e, interval, length, time)
           Good == {e \in Nat : e \in Days /\ Slot(e, o, interval) =>
                       /\ Slot(W(e), o, interval)
                       /\ \A d \in e..(W(e) - 1) : Slot(d, o, interval) => d + length <= time}
<1>1. \A e \in Nat : /\ W(e) = IF e + length > time THEN e ELSE W(AddInterval(e, interval))
                     /\ W(e) \in Nat /\ e <= W(e)
  BY WalkDef, WalkEnds
<1> HIDE DEF W
<1>2. ASSUME NEW e \in Nat, e + length > time
      PROVE  e \in Good
  <2>1. W(e) = e
    BY <1>1, <1>2
  <2>2. \A d \in e..(e - 1) : FALSE
    OBVIOUS
  <2> QED BY <2>1, <2>2
<1>3. ASSUME NEW e \in Nat, e + length <= time, AddInterval(e, interval) \in Good
      PROVE  e \in Good
  <2> SUFFICES ASSUME e \in Days, Slot(e, o, interval)
               PROVE  /\ Slot(W(e), o, interval)
                      /\ \A d \in e..(W(e) - 1) : Slot(d, o, interval) => d + length <= time
    OBVIOUS
  <2> DEFINE f == AddInterval(e, interval)
  <2>1. f \in Nat /\ e < f /\ f <= e + 31
    BY IntervalAdded
  <2>2. f \in Days
    <3>1. e + 31 \in Days
      BY <1>3 DEF Reaches
    <3>2. Months + 1 \in 1..(Months + 1)
      BY MonthFacts
    <3>3. MonthStart[Months + 1] \in Nat
      BY <3>2, MonthFacts
    <3> HIDE DEF f
    <3> QED BY <2>1, <3>1, <3>3 DEF Days
  <2>3. Slot(f, o, interval) /\ \A d \in (e + 1)..(f - 1) : ~ Slot(d, o, interval)
    BY <2>2, NextSlot
  <2>4. ~ (e + length > time)
    BY <1>3
  <2>5. W(e) = W(f)
    BY <1>1, <2>4
  <2>6. /\ Slot(W(f), o, interval)
        /\ \A d \in f..(W(f) - 1) : Slot(d, o, interval) => d + length <= time
    BY <1>3, <2>2, <2>3
  <2> HIDE DEF f
  <2>7. W(f) \in Nat
    BY <1>1, <2>1
  <2>8. ASSUME NEW d \in e..(W(f) - 1), Slot(d, o, interval)
        PROVE  d + length <= time
    <3>1. d = e \/ d \in (e + 1)..(f - 1) \/ d \in f..(W(f) - 1)
      BY <2>1, <2>7
    <3> QED BY <1>3, <2>3, <2>6, <2>8, <3>1
  <2> QED BY <2>5, <2>6, <2>8
<1>4. Nat \subseteq Good
  <2> HIDE DEF Good
  <2> QED BY <1>2, <1>3, WalkingBack
<1> DEFINE first == AddInterval(o, interval)
           last == W(first)
<1>5. first \in Nat /\ first \in Days /\ o \in Nat
  BY DEF Days
<1>6. Slot(first, o, interval) /\ \A d \in (o + 1)..(first - 1) : ~ Slot(d, o, interval)
  BY NextSlot
<1>7. ~ Slot(o, o, interval)
  BY <1>5 DEF Slot
<1> HIDE DEF first
<1>8. /\ Slot(last, o, interval) /\ last \in Nat
      /\ \A d \in first..(last - 1) : Slot(d, o, interval) => d + length <= time
  BY <1>1, <1>4, <1>5, <1>6
<1> HIDE DEF last
<1>9. ASSUME NEW d \in o..(last - 1), Slot(d, o, interval)
      PROVE  d + length <= time
  <2>1. d = o \/ d \in (o + 1)..(first - 1) \/ d \in first..(last - 1)
    BY <1>5, <1>8
  <2> QED BY <1>6, <1>7, <1>8, <1>9, <2>1
<1> QED BY <1>8, <1>9 DEF last, first, W

(***************************************************************************)
(* The inductive invariant.  A round keeps the fields of its row; its      *)
(* dates lie as far from the last day that anyone names as the rounds      *)
(* before it can have carried them; its tallies and its count agree with   *)
(* its responses; its questions are those of the first round; and only the *)
(* last round may still be open.                                           *)
(***************************************************************************)
Horizon == CHOOSE horizon \in Days : Within(horizon)

\* The last day on which the n-th round can open.
LastOpening(n) == Horizon + 31 * (n - 1)

RoundFields == {"form", "interval", "status", "opens", "closes", "created", "published",
                "count", "responses", "tally"}

Formed(r) ==
    /\ r.form \in Seq(Questions) /\ ValidForm(r.form)
    /\ r.interval \in Intervals \cup {Null}
    /\ r.status \in {"draft", "published", "closed"}

Dated(r, n) ==
    /\ r.opens \in 0..LastOpening(n) \cup {Null}
    /\ r.published \in 0..Horizon \cup {Null}
    /\ r.created \in 0..Horizon
    /\ r.closes \in Nat \cup {Null}
    /\ r.closes # Null =>
          r.closes <= Horizon \/ (r.opens # Null /\ r.closes <= r.opens + Horizon)

RoundInv(r, n) ==
    /\ DOMAIN r = RoundFields
    /\ Formed(r)
    /\ Dated(r, n)
    /\ Kept(r.form, r.responses, r.tally, r.count)

Alike(form, first) ==
    /\ DOMAIN form = DOMAIN first
    /\ \A q \in DOMAIN form : /\ form[q].type = first[q].type
                              /\ form[q].required = first[q].required

IInv ==
    /\ now \in {0} \cup Instants
    /\ rounds \in Seq(Range(rounds))
    /\ Len(rounds) <= MaxRounds
    /\ \A n \in DOMAIN rounds : RoundInv(rounds[n], n)
    /\ \A n \in DOMAIN rounds : Alike(rounds[n].form, rounds[1].form)
    /\ \A n \in DOMAIN rounds : n < Len(rounds) => rounds[n].status = "closed"

(***************************************************************************)
(* The dates.                                                              *)
(***************************************************************************)
LEMMA HorizonIs ==
    /\ Horizon \in Nat
    /\ \A d \in Int : 0 <= d /\ d <= 2 * Horizon + 31 * MaxRounds => d \in Days
    /\ Instants \subseteq 0..Horizon
    /\ \A dated \in Polls \cup Moves :
          {dated.opens, dated.closes} \subseteq (0..Horizon) \cup {Null}
    /\ MaxRounds \in Nat /\ MaxRounds >= 1
    /\ \A n \in 1..MaxRounds : /\ LastOpening(n) \in Nat
                               /\ LastOpening(n + 1) = LastOpening(n) + 31
                               /\ Horizon <= LastOpening(n)
                               /\ LastOpening(n) + 31 <= Horizon + 31 * MaxRounds
<1>1. Horizon \in Days /\ Within(Horizon)
  BY CalendarAssumption DEF Horizon
<1>2. MaxRounds \in Nat /\ MaxRounds >= 1
  BY RoundsAssumption
<1>3. Months + 1 \in 1..(Months + 1)
  BY MonthFacts
<1>4. MonthStart[Months + 1] \in Nat
  BY <1>3, MonthFacts
<1> HIDE DEF Horizon
<1>5. Horizon \in Nat /\ 2 * Horizon + 31 * MaxRounds < MonthStart[Months + 1]
  BY <1>1, <1>2, <1>4 DEF Days, Within
<1>6. \A d \in Int : 0 <= d /\ d <= 2 * Horizon + 31 * MaxRounds => d \in Days
  BY <1>2, <1>4, <1>5 DEF Days
<1>7. /\ Instants \subseteq 0..Horizon
      /\ \A dated \in Polls \cup Moves :
            {dated.opens, dated.closes} \subseteq (0..Horizon) \cup {Null}
  BY <1>1 DEF Within
<1>8. \A n \in 1..MaxRounds : /\ LastOpening(n) \in Nat
                              /\ LastOpening(n + 1) = LastOpening(n) + 31
                              /\ Horizon <= LastOpening(n)
                              /\ LastOpening(n) + 31 <= Horizon + 31 * MaxRounds
  BY <1>2, <1>5 DEF LastOpening
<1> QED BY <1>2, <1>5, <1>6, <1>7, <1>8

LEMMA OpeningFacts ==
    ASSUME NEW r, NEW n \in 1..MaxRounds, Dated(r, n)
    PROVE  /\ OpeningOf(r) \in Nat /\ OpeningOf(r) <= LastOpening(n)
           /\ OpeningOf(r) \in Days
           /\ LengthOf(r) \in Int /\ LengthOf(r) <= Horizon
           /\ LengthOf(r) + LastOpening(n) >= 0
           /\ LengthOf(r) < 0 => r.closes # Null
<1>1. /\ Horizon \in Nat /\ LastOpening(n) \in Nat /\ Horizon <= LastOpening(n)
      /\ LastOpening(n) <= 2 * Horizon + 31 * MaxRounds /\ Null \notin Int
  BY HorizonIs, RoundsAssumption
<1>2. /\ r.opens \in 0..LastOpening(n) \cup {Null}
      /\ r.published \in 0..Horizon \cup {Null}
      /\ r.created \in 0..Horizon
      /\ r.closes \in Nat \cup {Null}
      /\ r.closes # Null =>
            r.closes <= Horizon \/ (r.opens # Null /\ r.closes <= r.opens + Horizon)
  BY DEF Dated
<1>3. OpeningOf(r) \in 0..LastOpening(n) /\ (r.opens # Null => OpeningOf(r) = r.opens)
  BY <1>1, <1>2 DEF OpeningOf
<1>4. OpeningOf(r) \in Days
  BY <1>1, <1>3, HorizonIs
<1>5. CASE r.closes = Null
  BY <1>1, <1>3, <1>4, <1>5 DEF LengthOf
<1>6. CASE r.closes # Null
  <2>1. LengthOf(r) = r.closes - OpeningOf(r) /\ r.closes \in Nat
    BY <1>2, <1>6 DEF LengthOf
  <2>2. r.closes <= Horizon \/ r.closes <= OpeningOf(r) + Horizon
    BY <1>2, <1>3, <1>6
  <2> QED BY <1>1, <1>3, <1>4, <1>6, <2>1, <2>2
<1> QED BY <1>5, <1>6

\* When the next round opens, and how long it is open.
LEMMA NextOpening ==
    ASSUME NEW r, NEW n \in 1..MaxRounds, Dated(r, n), r.interval \in Intervals, now \in 0..Horizon
    PROVE  LET next == NextRound(r)
               first == AddInterval(OpeningOf(r), r.interval) IN
           /\ Reaches(LengthOf(r), now)
           /\ first \in Days /\ first \in Nat
           /\ next.opens = Walk(first, r.interval, LengthOf(r), now)
           /\ next.opens \in Nat /\ next.opens + LengthOf(r) > now
           /\ next.closes = IF LengthOf(r) = 0 THEN Null ELSE next.opens + LengthOf(r)
           /\ LengthOf(r) >= 0 => next.opens <= LastOpening(n) + 31
           /\ Insertable(next) => LengthOf(r) >= 0
<1> DEFINE next == NextRound(r)
           first == AddInterval(OpeningOf(r), r.interval)
           length == LengthOf(r)
<1>1. /\ OpeningOf(r) \in Nat /\ OpeningOf(r) <= LastOpening(n)
      /\ OpeningOf(r) \in Days
      /\ length \in Int /\ length <= Horizon
      /\ length + LastOpening(n) >= 0
  BY OpeningFacts
<1>2. /\ Horizon \in Nat /\ LastOpening(n) \in Nat /\ Horizon <= LastOpening(n)
      /\ LastOpening(n) + 31 <= Horizon + 31 * MaxRounds
      /\ MaxRounds \in Nat /\ Null \notin Int /\ now \in Nat /\ now <= Horizon
  BY HorizonIs, RoundsAssumption
<1>3. first \in Nat /\ first <= OpeningOf(r) + 31
  BY <1>1, IntervalAdded
<1>4. /\ next.opens = Walk(first, r.interval, length, now)
      /\ next.closes = IF length = 0 THEN Null ELSE next.opens + length
  BY DEF NextRound, Published, NewRound
<1> HIDE DEF first, next, length
<1>5. first \in Days
  BY <1>1, <1>2, <1>3, HorizonIs
<1>6. Reaches(length, now)
  <2> SUFFICES ASSUME NEW e \in Nat, e + length <= now
               PROVE  e \in Days /\ e + 31 \in Days
    BY DEF Reaches
  <2>1. e <= Horizon + LastOpening(n)
    BY <1>1, <1>2
  <2>2. e + 31 <= 2 * Horizon + 31 * MaxRounds
    BY <1>2, <2>1
  <2> QED BY <2>2, <1>2, HorizonIs
<1>7. /\ next.opens \in Nat /\ next.opens + length > now
      /\ next.opens = first \/ next.opens <= now - length + 31
  BY <1>1, <1>2, <1>3, <1>4, <1>6, WalkEnds
<1>8. length >= 0 => next.opens <= LastOpening(n) + 31
  BY <1>1, <1>2, <1>3, <1>7
<1>9. Insertable(next) => length >= 0
  <2> SUFFICES ASSUME length < 0 PROVE ~ Ordered(next.opens, next.closes)
    BY <1>1 DEF Insertable
  <2>1. next.closes = next.opens + length
    BY <1>1, <1>4
  <2>2. next.opens # Null /\ next.closes # Null /\ ~ (next.closes > next.opens)
    BY <1>1, <1>2, <1>7, <2>1
  <2> QED BY <2>2 DEF Ordered
<1> QED BY <1>3, <1>4, <1>5, <1>6, <1>7, <1>8, <1>9 DEF first, next, length

(***************************************************************************)
(* A round as it is created, and as requests change it.                    *)
(***************************************************************************)
LEMMA NewRoundIs ==
    ASSUME NEW form, NEW interval, NEW opens, NEW closes
    PROVE  LET r == NewRound(form, interval, opens, closes) IN
           /\ DOMAIN r = RoundFields
           /\ r.form = form /\ r.interval = interval /\ r.status = "draft"
           /\ r.opens = opens /\ r.closes = closes /\ r.created = now /\ r.published = Null
           /\ r.count = 0 /\ r.responses = EmptyBag /\ r.tally = Seeded(form)
BY DEF NewRound, RoundFields

LEMMA PublishedIs ==
    ASSUME NEW r, DOMAIN r = RoundFields
    PROVE  LET p == Published(r) IN
           /\ DOMAIN p = RoundFields
           /\ p.form = r.form /\ p.interval = r.interval /\ p.status = "published"
           /\ p.opens = r.opens /\ p.closes = r.closes /\ p.created = r.created /\ p.published = now
           /\ p.count = r.count /\ p.responses = r.responses /\ p.tally = r.tally
BY DEF Published, RoundFields

LEMMA SameLength ==
    ASSUME NEW R, NEW s \in Seq(R), NEW T, NEW t, t = [i \in DOMAIN s |-> t[i]],
           \A i \in DOMAIN s : t[i] \in T
    PROVE  t \in Seq(T)
<1>1. DOMAIN s = 1..Len(s) /\ Len(s) \in Nat
  OBVIOUS
<1>2. t \in [1..Len(s) -> T]
  BY <1>1
<1> QED BY <1>1, <1>2

LEMMA CopiedForm ==
    ASSUME NEW form \in Seq(Questions)
    PROVE  Copied(form) \in Seq(Questions) /\ Alike(Copied(form), form)
<1> DEFINE copy(q) == [o \in DOMAIN form[q].options |->
                          [label |-> form[q].options[o].label, image |-> FALSE]]
           new(q) == [form[q] EXCEPT !.options = copy(q)]
<1>1. Copied(form) = [q \in DOMAIN form |-> new(q)]
  BY DEF Copied
<1>2. ASSUME NEW q \in DOMAIN form
      PROVE  /\ new(q) \in Questions
             /\ new(q).type = form[q].type /\ new(q).required = form[q].required
  <2>1. form[q] \in Questions
    BY Member
  <2>2. form[q].options \in Seq([label : BOOLEAN, image : BOOLEAN])
    BY <2>1 DEF Questions
  <2>3. \A o \in DOMAIN form[q].options : form[q].options[o] \in [label : BOOLEAN, image : BOOLEAN]
    BY <2>2, Member
  <2>4. copy(q) \in Seq([label : BOOLEAN, image : BOOLEAN])
    <3>1. \A o \in DOMAIN form[q].options :
             [label |-> form[q].options[o].label, image |-> FALSE] \in [label : BOOLEAN, image : BOOLEAN]
      BY <2>3
    <3> DEFINE s == form[q].options
               T == [label : BOOLEAN, image : BOOLEAN]
               t == copy(q)
    <3>2. t = [o \in DOMAIN s |-> t[o]] /\ \A o \in DOMAIN s : t[o] \in T
      BY <3>1
    <3>3. s \in Seq(T)
      BY <2>2
    <3> HIDE DEF s, T, t
    <3>4. t \in Seq(T)
      BY <3>2, <3>3, SameLength
    <3> QED BY <3>4 DEF t, T
  <2> HIDE DEF copy
  <2> QED BY <2>1, <2>4 DEF Questions
<1> HIDE DEF new
<1>3. Copied(form) \in Seq(Questions) /\ DOMAIN Copied(form) = DOMAIN form
  BY <1>1, <1>2
<1>4. \A q \in DOMAIN form : Copied(form)[q] = new(q)
  BY <1>1
<1> QED BY <1>2, <1>3, <1>4 DEF Alike

\* The round that rollSeries copies is one that createPoll could have made
\* (insertPoll, the constraints of the tables), with the questions of the old one.
THEOREM NextRoundInv ==
    ASSUME NEW r, NEW n \in 1..MaxRounds, RoundInv(r, n), r.interval \in Intervals,
           now \in 0..Horizon, Insertable(NextRound(r))
    PROVE  RoundInv(NextRound(r), n + 1) /\ Alike(NextRound(r).form, r.form)
<1> DEFINE next == NextRound(r)
           length == LengthOf(r)
           opens == Walk(AddInterval(OpeningOf(r), r.interval), r.interval, length, now)
           closes == IF length = 0 THEN Null ELSE opens + length
<1>1. /\ DOMAIN next = RoundFields
      /\ next.form = Copied(r.form) /\ next.interval = r.interval /\ next.status = "published"
      /\ next.created = now /\ next.published = now
      /\ next.count = 0 /\ next.responses = EmptyBag /\ next.tally = Seeded(next.form)
  <2>1. next = Published(NewRound(Copied(r.form), r.interval, opens, closes))
    BY DEF NextRound
  <2> HIDE DEF next, opens, closes
  <2> QED BY <2>1, NewRoundIs, PublishedIs
<1>2. /\ next.opens \in Nat /\ next.opens <= LastOpening(n) + 31
      /\ next.closes = IF length = 0 THEN Null ELSE next.opens + length
      /\ length >= 0
  BY NextOpening DEF RoundInv
<1>3. length \in Int /\ length <= Horizon
  BY OpeningFacts DEF RoundInv
<1>4. Insertable(next) /\ Formed(r)
  BY DEF RoundInv
<1> HIDE DEF next, length
<1>5. next.form \in Seq(Questions) /\ Alike(next.form, r.form)
  BY <1>1, <1>4, CopiedForm DEF Formed
<1>6. Formed(next)
  BY <1>1, <1>4, <1>5 DEF Formed, Insertable
<1>7. Dated(next, n + 1)
  <2>1. /\ Horizon \in Nat /\ LastOpening(n + 1) = LastOpening(n) + 31 /\ LastOpening(n) \in Nat
        /\ Null \notin Int
    BY HorizonIs, RoundsAssumption
  <2>2. next.opens \in 0..LastOpening(n + 1) /\ next.opens # Null
    BY <1>2, <2>1
  <2>3. CASE length = 0
    BY <1>1, <1>2, <2>2, <2>3 DEF Dated
  <2>4. CASE length # 0
    <3>1. next.closes = next.opens + length
      BY <1>2, <2>4
    <3>2. next.closes \in Nat /\ next.closes <= next.opens + Horizon
      BY <1>2, <1>3, <2>1, <3>1
    <3> QED BY <1>1, <2>2, <3>2 DEF Dated
  <2> QED BY <2>3, <2>4
<1>8. Kept(next.form, next.responses, next.tally, next.count)
  BY <1>1, <1>5, KeptStart
<1> QED BY <1>1, <1>5, <1>6, <1>7, <1>8 DEF RoundInv, next

(***************************************************************************)
(* The invariant is inductive.                                             *)
(***************************************************************************)
LEMMA SequenceIs ==
    ASSUME NEW s, s \in Seq(Range(s))
    PROVE  Len(s) \in Nat /\ DOMAIN s = 1..Len(s) /\ s = [i \in 1..Len(s) |-> s[i]]
OBVIOUS

LEMMA SequenceMade ==
    ASSUME NEW k \in Nat, NEW t, t = [i \in 1..k |-> t[i]]
    PROVE  t \in Seq(Range(t)) /\ Len(t) = k /\ DOMAIN t = 1..k
<1>1. DOMAIN t = 1..k /\ \A i \in 1..k : t[i] \in Range(t)
  BY DEF Range
<1>2. t \in [1..k -> Range(t)]
  BY <1>1
<1> QED BY <1>2

LEMMA Appended ==
    ASSUME NEW s, s \in Seq(Range(s)), NEW x
    PROVE  LET t == Append(s, x) IN
           /\ t \in Seq(Range(t)) /\ Len(t) = Len(s) + 1 /\ DOMAIN t = 1..(Len(s) + 1)
           /\ \A i \in 1..Len(s) : t[i] = s[i]
           /\ t[Len(s) + 1] = x
<1> DEFINE k == Len(s)
           t == Append(s, x)
<1>1. k \in Nat /\ DOMAIN s = 1..k
  BY SequenceIs
<1> DEFINE R == Range(s) \cup {x}
<1>2. s \in Seq(R) /\ x \in R
  <2>1. s \in [1..k -> R]
    BY <1>1, SequenceIs DEF Range
  <2> QED BY <1>1, <2>1
<1> HIDE DEF R, k
<1>3. /\ t \in Seq(R) /\ Len(t) = k + 1
      /\ \A i \in 1..k : t[i] = s[i]
      /\ t[k + 1] = x
  BY <1>2, AppendProperties DEF k
<1> HIDE DEF t
<1>4. t = [i \in 1..(k + 1) |-> t[i]]
  BY <1>3
<1>5. t \in Seq(Range(t)) /\ Len(t) = k + 1 /\ DOMAIN t = 1..(k + 1)
  BY <1>1, <1>4, SequenceMade
<1> QED BY <1>3, <1>5 DEF t, k

LEMMA Updated ==
    ASSUME NEW s, s \in Seq(Range(s)), NEW n \in DOMAIN s, NEW x
    PROVE  LET t == [s EXCEPT ![n] = x] IN
           /\ t \in Seq(Range(t)) /\ Len(t) = Len(s) /\ DOMAIN t = 1..Len(s)
           /\ \A i \in 1..Len(s) : i # n => t[i] = s[i]
           /\ t[n] = x
<1> DEFINE k == Len(s)
           t == [s EXCEPT ![n] = x]
<1>1. k \in Nat /\ DOMAIN s = 1..k
  BY SequenceIs
<1>2. t = [i \in 1..k |-> t[i]] /\ (\A i \in 1..k : i # n => t[i] = s[i]) /\ t[n] = x
  BY <1>1
<1> HIDE DEF t, k
<1>3. t \in Seq(Range(t)) /\ Len(t) = k /\ DOMAIN t = 1..k
  BY <1>1, <1>2, SequenceMade
<1> QED BY <1>2, <1>3 DEF t, k

LEMMA IInvFacts ==
    ASSUME IInv
    PROVE  /\ Len(rounds) \in Nat /\ DOMAIN rounds = 1..Len(rounds) /\ Len(rounds) <= MaxRounds
           /\ now \in 0..Horizon /\ now \in Nat
           /\ \A n \in DOMAIN rounds : n \in 1..MaxRounds /\ RoundInv(rounds[n], n)
<1>1. /\ Len(rounds) \in Nat /\ DOMAIN rounds = 1..Len(rounds)
  BY SequenceIs DEF IInv
<1>2. MaxRounds \in Nat /\ Instants \subseteq 0..Horizon /\ Horizon \in Nat
  BY HorizonIs
<1> QED BY <1>1, <1>2 DEF IInv

LEMMA InitInv == Init => IInv
<1> SUFFICES ASSUME Init PROVE IInv
  OBVIOUS
<1>1. rounds = <<>> /\ now = 0
  BY DEF Init
<1>2. Len(rounds) = 0 /\ DOMAIN rounds = {} /\ rounds \in Seq(Range(rounds))
  BY <1>1
<1> QED BY <1>1, <1>2, HorizonIs DEF IInv

\* A request that changes a round leaves the others as they are.
LEMMA RoundChanged ==
    ASSUME IInv, NEW n \in DOMAIN rounds, NEW r, RoundInv(r, n),
           r.form = rounds[n].form,
           r.status \in {rounds[n].status, "closed"} \/ n = Len(rounds),
           rounds' = [rounds EXCEPT ![n] = r], now' = now
    PROVE  IInv'
<1>1. /\ Len(rounds) \in Nat /\ DOMAIN rounds = 1..Len(rounds)
  BY IInvFacts
<1>2. /\ rounds' \in Seq(Range(rounds')) /\ Len(rounds') = Len(rounds)
      /\ DOMAIN rounds' = 1..Len(rounds)
      /\ \A i \in 1..Len(rounds) : i # n => rounds'[i] = rounds[i]
      /\ rounds'[n] = r
  BY Updated DEF IInv
<1>3. \A i \in DOMAIN rounds' : rounds'[i].form = rounds[i].form
  BY <1>1, <1>2
<1>4. \A i \in DOMAIN rounds' : Alike(rounds'[i].form, rounds'[1].form)
  <2> SUFFICES ASSUME NEW i \in DOMAIN rounds' PROVE Alike(rounds'[i].form, rounds'[1].form)
    OBVIOUS
  <2>1. i \in DOMAIN rounds /\ 1 \in DOMAIN rounds'
    BY <1>1, <1>2
  <2>2. Alike(rounds[i].form, rounds[1].form)
    BY <2>1 DEF IInv
  <2> QED BY <1>3, <2>1, <2>2
<1>5. \A i \in DOMAIN rounds' : RoundInv(rounds'[i], i)
  BY <1>1, <1>2 DEF IInv
<1>6. \A i \in DOMAIN rounds' : i < Len(rounds') => rounds'[i].status = "closed"
  <2> SUFFICES ASSUME NEW i \in DOMAIN rounds', i < Len(rounds')
               PROVE  rounds'[i].status = "closed"
    OBVIOUS
  <2>1. i \in DOMAIN rounds /\ i < Len(rounds) /\ rounds[i].status = "closed"
    BY <1>1, <1>2 DEF IInv
  <2>2. CASE i = n
    BY <1>1, <1>2, <2>1, <2>2
  <2>3. CASE i # n
    BY <1>1, <1>2, <2>1, <2>3
  <2> QED BY <2>2, <2>3
<1> QED BY <1>2, <1>4, <1>5, <1>6 DEF IInv

LEMMA CreateInv ==
    ASSUME IInv, NEW p \in Polls, Create(p)
    PROVE  IInv'
<1> DEFINE r == NewRound(p.form, p.interval, p.opens, p.closes)
<1>1. rounds' = <<r>> /\ now' = now /\ ValidForm(p.form)
  BY DEF Create, ValidPoll
<1>2. /\ DOMAIN r = RoundFields
      /\ r.form = p.form /\ r.interval = p.interval /\ r.status = "draft"
      /\ r.opens = p.opens /\ r.closes = p.closes /\ r.created = now /\ r.published = Null
      /\ r.count = 0 /\ r.responses = EmptyBag /\ r.tally = Seeded(p.form)
  BY NewRoundIs
<1> HIDE DEF r
<1>3. p.form \in Seq(Questions) /\ p.interval \in Intervals \cup {Null}
  BY RoundsAssumption
<1>4. {p.opens, p.closes} \subseteq (0..Horizon) \cup {Null}
  BY HorizonIs
<1>5. /\ Horizon \in Nat /\ LastOpening(1) = Horizon /\ now \in 0..Horizon /\ MaxRounds >= 1
      /\ MaxRounds \in Nat
  <2>1. Horizon \in Nat /\ now \in 0..Horizon /\ MaxRounds >= 1 /\ MaxRounds \in Nat
    BY HorizonIs, IInvFacts
  <2> QED BY <2>1 DEF LastOpening
<1>6. Formed(r) /\ Dated(r, 1)
  BY <1>1, <1>2, <1>3, <1>4, <1>5 DEF Formed, Dated
<1>7. Kept(r.form, r.responses, r.tally, r.count)
  BY <1>2, <1>3, KeptStart
<1>8. RoundInv(r, 1)
  BY <1>2, <1>6, <1>7 DEF RoundInv
<1>9. /\ Len(rounds') = 1 /\ DOMAIN rounds' = {1} /\ rounds'[1] = r
      /\ rounds' \in Seq(Range(rounds'))
  <2>1. rounds' = [i \in 1..1 |-> rounds'[i]] /\ rounds'[1] = r
    BY <1>1
  <2>2. 1..1 = {1} /\ 1 \in Nat
    OBVIOUS
  <2> QED BY <2>1, <2>2, SequenceMade
<1>10. now' \in {0} \cup Instants
  BY <1>1 DEF IInv
<1> QED BY <1>5, <1>8, <1>9, <1>10 DEF IInv, Alike

LEMMA PublishInv ==
    ASSUME IInv, NEW n \in DOMAIN rounds, Publish(n)
    PROVE  IInv'
<1> DEFINE r == Published(rounds[n])
<1>1. rounds' = [rounds EXCEPT ![n] = r] /\ now' = now /\ rounds[n].status = "draft"
  BY DEF Publish
<1>2. RoundInv(rounds[n], n) /\ now \in 0..Horizon /\ n = Len(rounds)
  BY <1>1, IInvFacts DEF IInv
<1>3. /\ DOMAIN r = RoundFields
      /\ r.form = rounds[n].form /\ r.interval = rounds[n].interval /\ r.status = "published"
      /\ r.opens = rounds[n].opens /\ r.closes = rounds[n].closes /\ r.created = rounds[n].created
      /\ r.published = now
      /\ r.count = rounds[n].count /\ r.responses = rounds[n].responses /\ r.tally = rounds[n].tally
  BY <1>2, PublishedIs DEF RoundInv
<1> HIDE DEF r
<1>4. RoundInv(r, n)
  BY <1>2, <1>3 DEF RoundInv, Formed, Dated
<1> QED BY <1>1, <1>2, <1>3, <1>4, RoundChanged

LEMMA RescheduleInv ==
    ASSUME IInv, NEW n \in DOMAIN rounds, NEW m \in Moves, Reschedule(n, m)
    PROVE  IInv'
<1> DEFINE r == [rounds[n] EXCEPT !.opens = m.opens, !.closes = m.closes]
<1>1. rounds' = [rounds EXCEPT ![n] = r] /\ now' = now
  BY DEF Reschedule
<1>2. RoundInv(rounds[n], n) /\ n \in 1..MaxRounds
  BY IInvFacts
<1>3. /\ DOMAIN r = RoundFields
      /\ r.form = rounds[n].form /\ r.interval = rounds[n].interval /\ r.status = rounds[n].status
      /\ r.opens = m.opens /\ r.closes = m.closes /\ r.created = rounds[n].created
      /\ r.published = rounds[n].published
      /\ r.count = rounds[n].count /\ r.responses = rounds[n].responses /\ r.tally = rounds[n].tally
  BY <1>2 DEF RoundInv, RoundFields
<1> HIDE DEF r
<1>4. {m.opens, m.closes} \subseteq (0..Horizon) \cup {Null}
  BY HorizonIs
<1>5. Horizon \in Nat /\ LastOpening(n) \in Nat /\ Horizon <= LastOpening(n)
  BY <1>2, HorizonIs
<1>6. Dated(r, n)
  BY <1>2, <1>3, <1>4, <1>5 DEF RoundInv, Dated
<1>7. RoundInv(r, n)
  BY <1>2, <1>3, <1>6 DEF RoundInv, Formed
<1> QED BY <1>1, <1>3, <1>7, RoundChanged

LEMMA VoteInv ==
    ASSUME IInv, NEW n \in DOMAIN rounds, NEW ballot \in Ballots, Vote(n, ballot)
    PROVE  IInv'
<1> DEFINE old == rounds[n]
           rows == RowsOfAll(old.form, ballot)
           r == [old EXCEPT !.responses = @ (+) SetToBag({rows}),
                            !.tally = IncrementMany(@, rows),
                            !.count = @ + 1]
<1>1. rounds' = [rounds EXCEPT ![n] = r] /\ now' = now /\ Accepted(old.form, ballot)
  BY DEF Vote
<1>2. RoundInv(old, n)
  BY IInvFacts
<1>3. /\ DOMAIN r = RoundFields
      /\ r.form = old.form /\ r.interval = old.interval /\ r.status = old.status
      /\ r.opens = old.opens /\ r.closes = old.closes /\ r.created = old.created
      /\ r.published = old.published
      /\ r.count = old.count + 1 /\ r.responses = old.responses (+) SetToBag({rows})
      /\ r.tally = IncrementMany(old.tally, rows)
  BY <1>2 DEF RoundInv, RoundFields
<1> HIDE DEF r, old
<1>4. ballot \in Submissions /\ old.form \in Seq(Questions)
  BY <1>2, RoundsAssumption DEF RoundInv, Formed
<1>5. Tidy(old.form, rows)
  BY <1>1, <1>4, AcceptedTidy
<1>6. Kept(old.form, old.responses, old.tally, old.count)
  BY <1>2 DEF RoundInv
<1> HIDE DEF rows
<1>7. Kept(r.form, r.responses, r.tally, r.count)
  BY <1>3, <1>4, <1>5, <1>6, KeptMore
<1>8. RoundInv(r, n)
  BY <1>2, <1>3, <1>7 DEF RoundInv, Formed, Dated
<1>9. r.form = rounds[n].form /\ r.status = rounds[n].status
  BY <1>3 DEF old
<1> QED BY <1>1, <1>8, <1>9, RoundChanged

LEMMA CloseInv ==
    ASSUME IInv, NEW n \in DOMAIN rounds, Close(n)
    PROVE  IInv'
<1> DEFINE r == [rounds[n] EXCEPT !.status = "closed"]
           next == NextRound(rounds[n])
           rolls == rounds[n].interval # Null /\ Insertable(next)
<1>1. /\ Closed(n) = [rounds EXCEPT ![n] = r]
      /\ rounds[n].status = "published" /\ now' = now
      /\ rolls => Len(rounds) < MaxRounds
      /\ rounds' = IF rolls THEN Append(Closed(n), next) ELSE Closed(n)
  BY DEF Close, Closed
<1>2. /\ RoundInv(rounds[n], n) /\ n \in 1..MaxRounds /\ n = Len(rounds) /\ now \in 0..Horizon
      /\ Len(rounds) \in Nat /\ DOMAIN rounds = 1..Len(rounds)
  BY <1>1, IInvFacts DEF IInv
<1>3. /\ DOMAIN r = RoundFields
      /\ r.form = rounds[n].form /\ r.interval = rounds[n].interval /\ r.status = "closed"
      /\ r.opens = rounds[n].opens /\ r.closes = rounds[n].closes /\ r.created = rounds[n].created
      /\ r.published = rounds[n].published
      /\ r.count = rounds[n].count /\ r.responses = rounds[n].responses /\ r.tally = rounds[n].tally
  BY <1>2 DEF RoundInv, RoundFields
<1> HIDE DEF r
<1>4. RoundInv(r, n)
  BY <1>2, <1>3 DEF RoundInv, Formed, Dated
<1>5. CASE ~ rolls
  BY <1>1, <1>3, <1>4, <1>5, RoundChanged
<1>6. CASE rolls
  <2>1. RoundInv(next, n + 1) /\ Alike(next.form, rounds[n].form)
    <3>1. rounds[n].interval \in Intervals
      BY <1>2, <1>6 DEF RoundInv, Formed
    <3> QED BY <1>2, <1>6, <3>1, NextRoundInv
  <2> DEFINE s == Closed(n)
  <2>2. /\ s \in Seq(Range(s)) /\ Len(s) = n
        /\ \A i \in 1..n : i # n => s[i] = rounds[i]
        /\ s[n] = r
    <3>1. s = [rounds EXCEPT ![n] = r] /\ rounds \in Seq(Range(rounds))
      BY <1>1 DEF IInv
    <3> HIDE DEF s
    <3> QED BY <1>2, <3>1, Updated
  <2>3. rounds' = Append(s, next) /\ n < MaxRounds
    BY <1>1, <1>2, <1>6
  <2> HIDE DEF s, next
  <2>4. /\ rounds' \in Seq(Range(rounds')) /\ Len(rounds') = n + 1 /\ DOMAIN rounds' = 1..(n + 1)
        /\ \A i \in 1..n : rounds'[i] = s[i]
        /\ rounds'[n + 1] = next
    BY <2>2, <2>3, Appended
  <2>5. \A i \in 1..n : /\ rounds'[i].form = rounds[i].form /\ RoundInv(rounds'[i], i)
                        /\ rounds'[i].status = "closed"
    <3> SUFFICES ASSUME NEW i \in 1..n
                 PROVE  /\ rounds'[i].form = rounds[i].form /\ RoundInv(rounds'[i], i)
                        /\ rounds'[i].status = "closed"
      OBVIOUS
    <3>1. CASE i = n
      BY <1>2, <1>3, <1>4, <2>2, <2>4, <3>1
    <3>2. CASE i # n
      <4>1. rounds'[i] = rounds[i] /\ i \in DOMAIN rounds /\ i < Len(rounds)
        BY <1>2, <2>2, <2>4, <3>2
      <4> QED BY <4>1 DEF IInv
    <3> QED BY <3>1, <3>2
  <2>6. \A i \in 1..(n + 1) : RoundInv(rounds'[i], i)
    BY <1>2, <2>1, <2>4, <2>5
  <2>7. 1 \in 1..n
    BY <1>2
  <2>8. \A i \in 1..n : Alike(rounds[i].form, rounds[1].form)
    BY <1>2 DEF IInv
  <2>9. Alike(next.form, rounds[1].form)
    BY <1>2, <2>1, <2>8 DEF Alike
  <2>10. \A i \in 1..(n + 1) : Alike(rounds'[i].form, rounds'[1].form)
    <3> SUFFICES ASSUME NEW i \in 1..(n + 1) PROVE Alike(rounds'[i].form, rounds'[1].form)
      OBVIOUS
    <3>1. rounds'[1].form = rounds[1].form
      BY <2>5, <2>7
    <3>2. CASE i = n + 1
      BY <2>4, <2>9, <3>1, <3>2
    <3>3. CASE i # n + 1
      <4>1. i \in 1..n
        BY <1>2, <3>3
      <4> QED BY <2>5, <2>8, <3>1, <4>1
    <3> QED BY <3>2, <3>3
  <2>11. \A i \in 1..(n + 1) : i < n + 1 => rounds'[i].status = "closed"
    BY <1>2, <2>5
  <2>12. n + 1 <= MaxRounds
    BY <1>2, <2>3, HorizonIs
  <2> QED BY <1>1, <2>4, <2>6, <2>10, <2>11, <2>12 DEF IInv
<1> QED BY <1>5, <1>6

LEMMA NextInv == IInv /\ [Next]_vars => IInv'
<1> SUFFICES ASSUME IInv, [Next]_vars PROVE IInv'
  OBVIOUS
<1>1. CASE UNCHANGED vars
  BY <1>1 DEF IInv, vars
<1>2. ASSUME NEW p \in Polls, Create(p) PROVE IInv'
  BY <1>2, CreateInv
<1>3. ASSUME NEW n \in DOMAIN rounds, Publish(n) PROVE IInv'
  BY <1>3, PublishInv
<1>4. ASSUME NEW n \in DOMAIN rounds, Close(n) PROVE IInv'
  BY <1>4, CloseInv
<1>5. ASSUME NEW n \in DOMAIN rounds, NEW m \in Moves, Reschedule(n, m) PROVE IInv'
  BY <1>5, RescheduleInv
<1>6. ASSUME NEW n \in DOMAIN rounds, NEW ballot \in Ballots, Vote(n, ballot) PROVE IInv'
  BY <1>6, VoteInv
<1>7. ASSUME NEW day \in Instants, Pass(day) PROVE IInv'
  BY <1>7 DEF Pass, IInv
<1> QED BY <1>1, <1>2, <1>3, <1>4, <1>5, <1>6, <1>7 DEF Next

\* The tallies, the answers and the count of a poll agree at any time, in every
\* round of a series, whoever submits what (insertAnswers, incrementMany).
THEOREM RoundsInvariant == Spec => []IInv
<1>1. Init => IInv
  BY InitInv
<1>2. IInv /\ [Next]_vars => IInv'
  BY NextInv
<1> QED BY <1>1, <1>2, PTL DEF Spec

(***************************************************************************)
(* The properties.                                                         *)
(***************************************************************************)
\* Every state of the tables is one that their columns allow, and the responses
\* of a poll are as many as its count says.
THEOREM RoundsTypeCorrect == Spec => []TypeOK
<1>1. IInv => TypeOK
  <2> SUFFICES ASSUME IInv PROVE TypeOK
    OBVIOUS
  <2>1. now \in {0} \cup Instants /\ Len(rounds) <= MaxRounds
    BY DEF IInv
  <2>2. ASSUME NEW n \in DOMAIN rounds
        PROVE  LET r == rounds[n] IN
               /\ ValidForm(r.form)
               /\ r.interval \in Intervals \cup {Null}
               /\ r.status \in {"draft", "published", "closed"}
               /\ {r.opens, r.closes, r.published} \subseteq Dates
               /\ r.created \in Days
               /\ IsABag(r.responses)
               /\ SumFunction(r.responses) = r.count
    <3> DEFINE r == rounds[n]
    <3>1. RoundInv(r, n) /\ n \in 1..MaxRounds
      BY IInvFacts
    <3> HIDE DEF r
    <3>2. Formed(r) /\ Dated(r, n) /\ Held(r.form, r.responses) /\ CountKept(r.responses, r.count)
      BY <3>1 DEF RoundInv, Kept
    <3>3. /\ Horizon \in Nat /\ LastOpening(n) \in Nat /\ Horizon <= LastOpening(n)
          /\ LastOpening(n) + Horizon <= 2 * Horizon + 31 * MaxRounds
          /\ \A d \in Int : 0 <= d /\ d <= 2 * Horizon + 31 * MaxRounds => d \in Days
          /\ MaxRounds \in Nat
      BY <3>1, HorizonIs
    <3>4. \A d \in Nat : d <= LastOpening(n) + Horizon => d \in Days
      BY <3>3
    <3>5. /\ r.opens \in 0..LastOpening(n) \cup {Null} /\ r.published \in 0..Horizon \cup {Null}
          /\ r.created \in 0..Horizon /\ r.closes \in Nat \cup {Null}
      BY <3>2 DEF Dated
    <3>6. r.opens \in Dates /\ r.published \in Dates /\ r.created \in Days
      BY <3>3, <3>4, <3>5 DEF Dates
    <3>7. r.closes \in Dates
      <4>1. CASE r.closes = Null
        BY <4>1 DEF Dates
      <4>2. CASE r.closes # Null
        <5>1. r.closes <= Horizon \/ (r.opens # Null /\ r.closes <= r.opens + Horizon)
          BY <3>2, <4>2 DEF Dated
        <5>2. r.closes \in Nat /\ r.closes <= LastOpening(n) + Horizon
          BY <3>3, <3>5, <4>2, <5>1
        <5> QED BY <3>4, <5>2 DEF Dates
      <4> QED BY <4>1, <4>2
    <3>8. IsABag(r.responses) /\ SumFunction(r.responses) = r.count
      BY <3>2 DEF Held, IsFiniteBag, CountKept
    <3> QED BY <3>2, <3>6, <3>7, <3>8 DEF Formed, r
  <2> QED BY <2>1, <2>2 DEF TypeOK
<1> QED BY <1>1, RoundsInvariant, PTL

\* Rebuilding the tallies from the answers changes nothing, for any form and any
\* sequence of submissions, as long as no response names an option twice.
THEOREM RepairChangesNothingHolds == Spec => []RepairChangesNothing
<1>1. IInv => RepairChangesNothing
  <2> SUFFICES ASSUME IInv, NEW n \in DOMAIN rounds,
                      \A r \in BagToSet(rounds[n].responses) : IsInjective(r)
               PROVE  Recomputed(rounds[n].tally, rounds[n].responses) = rounds[n].tally
    BY DEF RepairChangesNothing
  <2> DEFINE tally == rounds[n].tally
             responses == rounds[n].responses
             form == rounds[n].form
             again == Recomputed(tally, responses)
  <2>1. Kept(form, responses, tally, rounds[n].count)
    BY IInvFacts DEF RoundInv
  <2>2. Plain(responses)
    BY DEF Plain, BagToSet
  <2> HIDE DEF tally, responses, form
  <2>3. TallyOf(form, tally) /\ RepairKept(form, responses, tally)
    BY <2>1 DEF Kept
  <2>4. tally = [q \in DOMAIN form |-> tally[q]]
    BY <2>3 DEF TallyOf
  <2>5. again = [q \in DOMAIN form |-> again[q]]
    BY <2>4 DEF Recomputed
  <2>6. ASSUME NEW q \in DOMAIN form
        PROVE  again[q] = tally[q]
    <3>1. tally[q] \in [OptionsOf(form, q) -> [count : Nat, rank_sum : Nat]]
      BY <2>3 DEF TallyOf, OptionsOf
    <3> DEFINE fixed(o) == IF Copies(responses, q, o) = 0 THEN tally[q][o]
                           ELSE [count |-> Copies(responses, q, o),
                                 rank_sum |-> RankTotal(responses, q, o)]
    <3>2. again[q] = [o \in DOMAIN tally[q] |-> fixed(o)]
      BY <2>4 DEF Recomputed, Copies, RankTotal, RanksIn, Total
    <3>3. ASSUME NEW o \in OptionsOf(form, q)
          PROVE  fixed(o) = tally[q][o]
      <4>1. /\ tally[q][o].count = Copies(responses, q, o)
            /\ tally[q][o].rank_sum = RankTotal(responses, q, o)
        BY <2>2, <2>3 DEF RepairKept
      <4>2. tally[q][o] \in [count : Nat, rank_sum : Nat]
        BY <3>1
      <4> QED BY <4>1, <4>2
    <3> HIDE DEF fixed, again
    <3>4. DOMAIN tally[q] = OptionsOf(form, q)
      BY <3>1
    <3> QED BY <3>1, <3>2, <3>3, <3>4
  <2> HIDE DEF again
  <2>7. again = tally
    BY <2>4, <2>5, <2>6
  <2> QED BY <2>7 DEF again, tally, responses
<1> QED BY <1>1, RoundsInvariant, PTL

\* In every poll that has a ranking, whatever the form and the answers: everyone
\* who answered it has ranked every option, and has given each position once.
THEOREM RankingComparableHolds == Spec => []RankingComparable
<1>1. IInv => RankingComparable
  <2> SUFFICES ASSUME IInv, NEW n \in DOMAIN rounds, NEW q \in DOMAIN rounds[n].form,
                      rounds[n].form[q].type = "ranking"
               PROVE  LET tally == rounds[n].tally[q]
                          k == Len(tally)
                          ranked == Answered(rounds[n].responses, q) IN
                      /\ \A o \in DOMAIN tally : tally[o].count = ranked
                      /\ 2 * SumFunction([o \in DOMAIN tally |-> tally[o].rank_sum])
                            = ranked * k * (k + 1)
    BY DEF RankingComparable
  <2> DEFINE r == rounds[n]
             tally == r.tally[q]
             options == OptionsOf(r.form, q)
             k == Len(r.form[q].options)
             ranked == Answered(r.responses, q)
  <2>1. Kept(r.form, r.responses, r.tally, r.count) /\ r.form \in Seq(Questions)
    BY IInvFacts DEF RoundInv, Formed
  <2>2. q \in DOMAIN r.form /\ r.form[q].type = "ranking"
    OBVIOUS
  <2> HIDE DEF r
  <2>3. /\ \A o \in options : tally[o].count = ranked
        /\ 2 * RankSum(r.form, r.tally, q) = ranked * (k * (k + 1))
    BY <2>1, <2>2 DEF Kept, RankingKept
  <2>4. tally \in [options -> [count : Nat, rank_sum : Nat]] /\ options = 1..k /\ k \in Nat
    BY <2>1, <2>2, OptionsFinite DEF Kept, TallyOf, OptionsOf
  <2>5. DOMAIN tally = options /\ Len(tally) = k
    BY <2>4
  <2>6. SumFunction([o \in DOMAIN tally |-> tally[o].rank_sum]) = RankSum(r.form, r.tally, q)
    <3>1. [o \in DOMAIN tally |-> tally[o].rank_sum] = RankSumsOf(r.form, r.tally, q)
      BY <2>5 DEF RankSumsOf
    <3>2. DOMAIN RankSumsOf(r.form, r.tally, q) = options
      BY DEF RankSumsOf
    <3> QED BY <3>1, <3>2, SumFunctionIs DEF RankSum
  <2>7. ranked \in Int
    <3>1. DOMAIN r.responses \subseteq Seq(Row) /\ IsFiniteBag(r.responses)
      BY <2>1 DEF Kept, Held, Tidy
    <3> QED BY <3>1, TotalsNat
  <2>8. \A a, b, c \in Int : (a * b) * c = a * (b * c)
    OBVIOUS
  <2> HIDE DEF ranked, k
  <2>9. (ranked * k) * (k + 1) = ranked * (k * (k + 1))
    <3>1. k \in Int /\ k + 1 \in Int
      BY <2>4
    <3> QED BY <2>7, <2>8, <3>1
  <2>10. /\ \A o \in DOMAIN tally : tally[o].count = ranked
         /\ 2 * SumFunction([o \in DOMAIN tally |-> tally[o].rank_sum])
               = (ranked * Len(tally)) * (Len(tally) + 1)
    BY <2>3, <2>5, <2>6, <2>9
  <2> QED BY <2>10 DEF ranked, r
<1> QED BY <1>1, RoundsInvariant, PTL

\* A share of a whole, in per cent.
LEMMA PerCent ==
    ASSUME NEW whole \in Nat, whole > 0, NEW share \in Nat, share <= whole
    PROVE  (share * 100) \div whole \in 0..100
<1>1. share * 100 \in Nat /\ share * 100 <= 100 * whole
  OBVIOUS
<1>2. ASSUME NEW a \in Nat, a <= 100 * whole PROVE a \div whole \in Int /\ a \div whole <= 100
  BY <1>2
<1>3. ASSUME NEW a \in Nat PROVE a \div whole >= 0
  OBVIOUS
<1>4. \A a \in Nat : a <= 100 * whole => a \div whole \in 0..100
  BY <1>2, <1>3
<1> QED BY <1>1, <1>4

\* If the first question is required, no question has been answered more often.
LEMMA FirstAnsweredMost ==
    ASSUME NEW form \in Seq(Questions), form # <<>>, form[1].required,
           NEW responses, Held(form, responses), NEW q
    PROVE  /\ Answered(responses, q) \in Nat /\ Answered(responses, 1) \in Nat
           /\ Answered(responses, q) <= Answered(responses, 1)
<1>1. IsFiniteBag(responses) /\ DOMAIN responses \subseteq Seq(Row)
  BY DEF Held, Tidy
<1>2. Answered(responses, q) \in Nat /\ Answered(responses, 1) \in Nat
  BY <1>1, TotalsNat
<1> DEFINE S == DOMAIN responses
           f == [r \in S |-> responses[r] * AnswersOf(S, q)[r]]
           g == [r \in S |-> responses[r] * AnswersOf(S, 1)[r]]
<1>3. Answered(responses, q) = SumOn(f, S) /\ Answered(responses, 1) = SumOn(g, S)
  BY TotalsAreWorth DEF Worth
<1>4. \A r \in S : f[r] \in Int /\ g[r] \in Int /\ f[r] <= g[r]
  <2> SUFFICES ASSUME NEW r \in S PROVE f[r] \in Int /\ g[r] \in Int /\ f[r] <= g[r]
    OBVIOUS
  <2>1. responses[r] \in Nat
    BY <1>1 DEF IsFiniteBag, IsABag
  <2>2. RowsAbout(r, 1) # {}
    <3>1. Tidy(form, r) /\ 1 \in DOMAIN form
      BY DEF Held
    <3> QED BY <3>1 DEF Tidy
  <2>3. AnswersOf(S, q)[r] \in {0, 1} /\ AnswersOf(S, 1)[r] = 1
    BY <2>2 DEF AnswersOf
  <2>4. /\ f[r] = responses[r] * AnswersOf(S, q)[r]
        /\ g[r] = responses[r] * AnswersOf(S, 1)[r]
    OBVIOUS
  <2> QED BY <2>1, <2>3, <2>4
<1> HIDE DEF f, g
<1>5. SumOn(f, S) <= SumOn(g, S)
  BY <1>1, <1>4, SumOrder DEF IsFiniteBag
<1> QED BY <1>2, <1>3, <1>5

LEMMA RatesInScale ==
    ASSUME NEW form \in Seq(Questions), form # <<>>, form[1].required,
           NEW responses, Held(form, responses), NEW q
    PROVE  /\ DropOff(form, responses, q) \in 0..100
           /\ CompletionRate(form, responses) \in 0..100
<1> DEFINE started == Answered(responses, 1)
           some == Answered(responses, q)
           last == Answered(responses, Len(form))
<1>1. /\ started \in Nat /\ some \in Nat /\ last \in Nat
      /\ some <= started /\ last <= started
  BY FirstAnsweredMost
<1>2. /\ DropOff(form, responses, q)
            = IF started = 0 THEN 0 ELSE ((started - some) * 100) \div started
      /\ CompletionRate(form, responses) = IF started = 0 THEN 0 ELSE (last * 100) \div started
  BY DEF DropOff, CompletionRate
<1> HIDE DEF started, some, last
<1>3. CASE started = 0
  BY <1>2, <1>3
<1>4. CASE started # 0
  <2>1. started > 0 /\ started - some \in Nat /\ started - some <= started
    BY <1>1, <1>4
  <2>2. ((started - some) * 100) \div started \in 0..100
    BY <1>1, <2>1, PerCent
  <2>3. (last * 100) \div started \in 0..100
    BY <1>1, <2>1, PerCent
  <2> QED BY <1>2, <1>4, <2>2, <2>3
<1> QED BY <1>3, <1>4

\* What is read in the export: the lines on which a question looks answered, and
\* the cells that name an option.
Written(form, responses, line, q) == Line(form, line, Columns(responses))[q]
Readable(form, responses, q) ==
    Total(responses, LAMBDA line : IF LooksEmpty(Written(form, responses, line, q)) THEN 0 ELSE 1)
Naming(cell, o) == {i \in DOMAIN cell : cell[i] = o}
Read(form, responses, q, o) ==
    Total(responses, LAMBDA line : Cardinality(Naming(Written(form, responses, line, q), o)))
Labelled(form, q) == {o \in DOMAIN form[q].options : form[q].options[o].label}

\* What is written of a row, and when a cell looks empty.
LEMMA CellsWritten ==
    ASSUME NEW form \in Seq(Questions), NEW q \in DOMAIN form, NEW line \in Seq(Row)
    PROVE  /\ \A o \in Labelled(form, q) : Naming(Cell(form, line, q), o) = RowsFor(line, q, o)
           /\ RowsAbout(line, q) = {} => LooksEmpty(Cell(form, line, q))
           /\ Labelled(form, q) = DOMAIN form[q].options /\ RowsAbout(line, q) # {} =>
                 ~LooksEmpty(Cell(form, line, q))
<1>1. DOMAIN Cell(form, line, q) = RowsAbout(line, q)
  BY DEF Cell
<1>2. ASSUME NEW i \in RowsAbout(line, q)
      PROVE  /\ line[i].question = q /\ line[i].option \in Nat
             /\ Cell(form, line, q)[i] =
                   IF line[i].option \in DOMAIN form[q].options \ Labelled(form, q)
                   THEN Blank ELSE line[i].option
  <2>1. i \in DOMAIN line /\ line[i] \in Row /\ line[i].question = q
    BY DEF RowsAbout
  <2>2. Cell(form, line, q)[i] = Piece(form, line[i])
    BY DEF Cell
  <2>3. line[i].option \in Nat
    BY <2>1 DEF Row
  <2>4. Piece(form, line[i]) =
           IF line[i].option \in DOMAIN form[q].options \ Labelled(form, q)
           THEN Blank ELSE line[i].option
    BY <2>1 DEF Piece, Labelled
  <2> QED BY <2>1, <2>2, <2>3, <2>4
<1>3. form[q].options \in Seq([label : BOOLEAN, image : BOOLEAN])
  <2>1. form[q] \in Questions
    OBVIOUS
  <2> QED BY <2>1 DEF Questions
<1>4. ASSUME NEW o \in Labelled(form, q)
      PROVE  Naming(Cell(form, line, q), o) = RowsFor(line, q, o)
  <2>1. o # Blank
    BY <1>3 DEF Labelled, Blank
  <2>2. \A i \in RowsAbout(line, q) : Cell(form, line, q)[i] = o <=> line[i].option = o
    BY <1>2, <2>1
  <2> QED BY <1>1, <2>2 DEF Naming, RowsFor, RowsAbout
<1>5. RowsAbout(line, q) = {} => LooksEmpty(Cell(form, line, q))
  BY <1>1 DEF LooksEmpty
<1>6. ASSUME Labelled(form, q) = DOMAIN form[q].options, RowsAbout(line, q) # {}
      PROVE  ~LooksEmpty(Cell(form, line, q))
  <2>1. PICK i \in RowsAbout(line, q) : TRUE
    BY <1>6
  <2>2. Cell(form, line, q)[i] # Blank
    BY <1>2, <1>6 DEF Blank
  <2> QED BY <1>1, <2>2 DEF LooksEmpty
<1> QED BY <1>4, <1>5, <1>6

\* An option is read as often as it was chosen, if it has a label; and a question
\* looks answered as often as it was, if all its options have one.
LEMMA ExportAgrees ==
    ASSUME NEW form \in Seq(Questions), NEW responses, Held(form, responses),
           NEW q \in Columns(responses), q \in DOMAIN form
    PROVE  /\ \A o \in Labelled(form, q) : Read(form, responses, q, o) = Copies(responses, q, o)
           /\ Readable(form, responses, q) <= Answered(responses, q)
           /\ Labelled(form, q) = DOMAIN form[q].options =>
                 Readable(form, responses, q) = Answered(responses, q)
<1> DEFINE S == DOMAIN responses
           cell(line) == Written(form, responses, line, q)
           seen(line) == IF LooksEmpty(cell(line)) THEN 0 ELSE 1
           answered(line) == IF RowsAbout(line, q) = {} THEN 0 ELSE 1
           f == [line \in S |-> responses[line] * seen(line)]
           g == [line \in S |-> responses[line] * answered(line)]
<1>1. IsFiniteSet(S) /\ \A line \in S : line \in Seq(Row) /\ responses[line] \in Nat
  BY DEF Held, Tidy, IsFiniteBag, IsABag
<1>2. \A line : cell(line) = Cell(form, line, q)
  BY DEF Written, Line
<1>3. ASSUME NEW o \in Labelled(form, q)
      PROVE  Read(form, responses, q, o) = Copies(responses, q, o)
  <2>1. \A line \in S : Naming(cell(line), o) = RowsFor(line, q, o)
    BY <1>1, <1>2, CellsWritten
  <2>2. [line \in S |-> responses[line] * Cardinality(Naming(cell(line), o))]
           = [line \in S |-> responses[line] * Cardinality(RowsFor(line, q, o))]
    BY <2>1
  <2> QED BY <2>2 DEF Read, Copies, Total, BagToSet
<1>4. \A line \in S :
          /\ seen(line) \in {0, 1} /\ answered(line) \in {0, 1} /\ seen(line) <= answered(line)
          /\ Labelled(form, q) = DOMAIN form[q].options => seen(line) = answered(line)
  <2> TAKE line \in S
  <2>1. /\ RowsAbout(line, q) = {} => LooksEmpty(cell(line))
        /\ Labelled(form, q) = DOMAIN form[q].options /\ RowsAbout(line, q) # {} =>
              ~LooksEmpty(cell(line))
    BY <1>1, <1>2, CellsWritten
  <2> HIDE DEF cell
  <2> QED BY <2>1
<1>5. Readable(form, responses, q) = SumOn(f, S) /\ Answered(responses, q) = SumOn(g, S)
  <2>1. Readable(form, responses, q) = SumFunction(f) /\ Answered(responses, q) = SumFunction(g)
    BY DEF Readable, Answered, Total, BagToSet
  <2>2. DOMAIN f = S /\ DOMAIN g = S
    OBVIOUS
  <2> QED BY <2>1, <2>2, SumFunctionIs
<1> HIDE DEF seen, answered, cell
<1>6. \A line \in S : f[line] \in Int /\ g[line] \in Int /\ f[line] <= g[line]
  BY <1>1, <1>4
<1>7. Labelled(form, q) = DOMAIN form[q].options => f = g
  BY <1>4
<1> HIDE DEF f, g
<1>8. SumOn(f, S) <= SumOn(g, S)
  BY <1>1, <1>6, SumOrder
<1> QED BY <1>3, <1>5, <1>7, <1>8

LEMMA ReportedCounts ==
    ASSUME IInv, NEW n \in DOMAIN rounds, NEW q \in DOMAIN rounds[n].form
    PROVE  SumFunction(Report.counts[n][q]) = CountSum(rounds[n].form, rounds[n].tally, q)
<1> DEFINE counts == CountsOf(rounds[n].form, rounds[n].tally, q)
<1>1. Report.counts[n][q] = counts
  BY DEF Report, CountsOf, OptionsOf
<1>2. DOMAIN counts = OptionsOf(rounds[n].form, q)
  BY DEF CountsOf
<1>3. SumFunction(counts) = SumOn(counts, DOMAIN counts)
  BY SumFunctionIs
<1> QED BY <1>1, <1>2, <1>3 DEF CountSum

\* Whatever the forms, the answers and the days: the export names a labelled option
\* as often as its tally counts it, if no response names one twice; a question looks
\* answered there as often as the analytics say, if all its options have labels, and
\* never more often; the report adds up and rates are in their scale.
THEOREM ReadingsAgreeHolds == Spec => []ReadingsAgree
<1>1. IInv => ReadingsAgree
  <2> SUFFICES ASSUME IInv PROVE ReadingsAgree
    OBVIOUS
  <2>1. ASSUME NEW n \in DOMAIN rounds, NEW q \in DOMAIN rounds[n].form
        PROVE  LET r == rounds[n] IN
            /\ q \in Columns(r.responses) =>
                  /\ (\A line \in BagToSet(r.responses) : IsInjective(line)) =>
                        \A o \in Labelled(r.form, q) :
                            Read(r.form, r.responses, q, o) = Report.counts[n][q][o]
                  /\ Readable(r.form, r.responses, q) <= Answered(r.responses, q)
                  /\ Labelled(r.form, q) = DOMAIN r.form[q].options =>
                        Readable(r.form, r.responses, q) = Answered(r.responses, q)
            /\ r.form[1].required =>
                  DropOff(r.form, r.responses, q) \in 0..100
                  /\ CompletionRate(r.form, r.responses) \in 0..100
    <3> DEFINE r == rounds[n]
               counted == Report.counts[n][q]
    <3>1. /\ Kept(r.form, r.responses, r.tally, r.count)
          /\ r.form \in Seq(Questions) /\ r.form # <<>>
      BY IInvFacts DEF RoundInv, Formed, ValidForm
    <3>2. q \in DOMAIN r.form
      OBVIOUS
    <3>3. \A o \in DOMAIN r.form[q].options : counted[o] = r.tally[q][o].count
      BY DEF Report
    <3> HIDE DEF r, counted
    <3>4. r.form[1].required => /\ DropOff(r.form, r.responses, q) \in 0..100
                                /\ CompletionRate(r.form, r.responses) \in 0..100
      BY <3>1, RatesInScale DEF Kept
    <3>5. (\A line \in BagToSet(r.responses) : IsInjective(line)) =>
             \A o \in DOMAIN r.form[q].options : counted[o] = Copies(r.responses, q, o)
      BY <3>1, <3>2, <3>3 DEF Kept, RepairKept, Plain, BagToSet, OptionsOf
    <3>6. q \in Columns(r.responses) =>
             /\ \A o \in Labelled(r.form, q) :
                   Read(r.form, r.responses, q, o) = Copies(r.responses, q, o)
             /\ Readable(r.form, r.responses, q) <= Answered(r.responses, q)
             /\ Labelled(r.form, q) = DOMAIN r.form[q].options =>
                   Readable(r.form, r.responses, q) = Answered(r.responses, q)
      BY <3>1, <3>2, ExportAgrees DEF Kept
    <3>7. Labelled(r.form, q) \subseteq DOMAIN r.form[q].options
      BY DEF Labelled
    <3> QED BY <3>4, <3>5, <3>6, <3>7 DEF r, counted
  <2>2. ASSUME rounds # <<>>, NEW q \in DOMAIN rounds[1].form,
               rounds[1].form[q].type = "single_choice", rounds[1].form[q].required
        PROVE  Report.totalResponses =
                  SumFunction([n \in Report.rounds |-> SumFunction(Report.counts[n][q])])
    <3>1. \A n \in Started : SumFunction(Report.counts[n][q]) = rounds[n].count
      <4> SUFFICES ASSUME NEW n \in Started
                   PROVE  SumFunction(Report.counts[n][q]) = rounds[n].count
        OBVIOUS
      <4>1. n \in DOMAIN rounds /\ Alike(rounds[n].form, rounds[1].form)
        BY DEF Started, IInv
      <4>2. /\ q \in DOMAIN rounds[n].form /\ rounds[n].form[q].required
            /\ rounds[n].form[q].type = "single_choice"
        BY <2>2, <4>1 DEF Alike
      <4>3. ChoiceKept(rounds[n].form, rounds[n].tally, rounds[n].count)
        BY <4>1, IInvFacts DEF RoundInv, Kept
      <4>4. CountSum(rounds[n].form, rounds[n].tally, q) = rounds[n].count
        BY <4>2, <4>3 DEF ChoiceKept
      <4> QED BY <4>1, <4>2, <4>4, ReportedCounts
    <3>2. /\ Report.rounds = Started
          /\ Report.totalResponses = SumFunction([n \in Started |-> rounds[n].count])
      BY DEF Report
    <3>3. [n \in Started |-> rounds[n].count]
             = [n \in Report.rounds |-> SumFunction(Report.counts[n][q])]
      BY <3>1, <3>2
    <3> QED BY <3>2, <3>3
  <2> QED BY <2>1, <2>2 DEF ReadingsAgree, Read, Readable, Written, Naming, Labelled
<1> QED BY <1>1, RoundsInvariant, PTL

\* However long nothing has happened: the next round is not over when it is
\* created and is open as long as the one before, on every calendar.  It opens in
\* the first slot of the series for which that is so, if the series is daily or
\* weekly, or monthly from a day that every month has: of the days 29 to 31,
\* which addInterval moves for good, nothing is said.
THEOREM NextRoundOnTimeHolds == Spec => NextRoundOnTime
<1> DEFINE OnTime ==
        rounds # <<>> /\ Len(rounds') > Len(rounds) =>
            LET old == Last(rounds)
                new == Last(rounds')
                opening == OpeningOf(old)
                Over(d) == d + LengthOf(old) <= now IN
            /\ new.closes # Null => LengthOf(new) = LengthOf(old)
            /\ ~Over(new.opens)
            /\ old.interval # "monthly" \/ DayOfMonth(opening) <= 28 =>
                  /\ Slot(new.opens, opening, old.interval)
                  /\ \A d \in opening..(new.opens - 1) : Slot(d, opening, old.interval) => Over(d)
<1>1. IInv /\ [Next]_vars => [OnTime]_vars
  <2> SUFFICES ASSUME IInv, Next, rounds # <<>>, Len(rounds') > Len(rounds)
               PROVE  OnTime
    BY DEF vars
  <2>1. /\ Len(rounds) \in Nat /\ DOMAIN rounds = 1..Len(rounds) /\ rounds \in Seq(Range(rounds))
        /\ now \in 0..Horizon
    BY IInvFacts DEF IInv
  <2>2. PICK n \in DOMAIN rounds : Close(n)
    <3>1. ASSUME NEW i \in DOMAIN rounds, NEW r, rounds' = [rounds EXCEPT ![i] = r]
          PROVE  FALSE
      BY <2>1, <3>1, Updated
    <3>2. ASSUME NEW p \in Polls, Create(p) PROVE FALSE
      BY <3>2 DEF Create
    <3>3. ASSUME NEW i \in DOMAIN rounds, Publish(i) PROVE FALSE
      BY <3>1, <3>3 DEF Publish
    <3>4. ASSUME NEW i \in DOMAIN rounds, NEW m \in Moves, Reschedule(i, m) PROVE FALSE
      BY <3>1, <3>4 DEF Reschedule
    <3>5. ASSUME NEW i \in DOMAIN rounds, NEW ballot \in Ballots, Vote(i, ballot) PROVE FALSE
      BY <3>1, <3>5 DEF Vote
    <3>6. ASSUME NEW day \in Instants, Pass(day) PROVE FALSE
      BY <2>1, <3>6 DEF Pass
    <3> QED BY <3>2, <3>3, <3>4, <3>5, <3>6 DEF Next
  <2> DEFINE old == rounds[n]
             new == NextRound(old)
             s == Closed(n)
             opening == OpeningOf(old)
             length == LengthOf(old)
  <2>3. /\ RoundInv(old, n) /\ n \in 1..MaxRounds /\ n = Len(rounds)
    <3>1. rounds[n].status = "published"
      BY <2>2 DEF Close
    <3> QED BY <2>1, <3>1, IInvFacts DEF IInv
  <2>4. s \in Seq(Range(s)) /\ Len(s) = n
    <3> DEFINE closed == [rounds[n] EXCEPT !.status = "closed"]
    <3>1. s = [rounds EXCEPT ![n] = closed]
      BY DEF Closed
    <3> HIDE DEF s, closed
    <3> QED BY <2>1, <2>3, <3>1, Updated
  <2>5. rounds' = Append(s, new) /\ old.interval # Null /\ Insertable(new)
    <3>1. ~ (old.interval # Null /\ Insertable(new)) => rounds' = s
      BY <2>2 DEF Close
    <3>2. old.interval # Null /\ Insertable(new) => rounds' = Append(s, new)
      BY <2>2 DEF Close
    <3> HIDE DEF s, new, old
    <3> QED BY <2>1, <2>3, <2>4, <3>1, <3>2
  <2>6. Last(rounds) = old /\ Last(rounds') = new
    <3> HIDE DEF s, new
    <3>1. Len(rounds') = n + 1 /\ rounds'[n + 1] = new
      BY <2>4, <2>5, Appended
    <3> QED BY <2>1, <2>3, <3>1 DEF Last
  <2>7. old.interval \in Intervals /\ Dated(old, n)
    BY <2>3, <2>5 DEF RoundInv, Formed
  <2> HIDE DEF old
  <2>8. /\ Reaches(length, now)
        /\ AddInterval(opening, old.interval) \in Days
        /\ new.opens = Walk(AddInterval(opening, old.interval), old.interval, length, now)
        /\ new.opens \in Nat /\ new.opens + length > now
        /\ new.closes = IF length = 0 THEN Null ELSE new.opens + length
    BY <2>1, <2>3, <2>7, NextOpening
  <2>9. opening \in Days /\ length \in Int /\ now \in Int /\ Null \notin Int
    BY <2>1, <2>3, <2>7, OpeningFacts, HorizonIs, RoundsAssumption
  <2> HIDE DEF opening, length
  <2>10. old.interval # "monthly" \/ DayOfMonth(opening) <= 28 =>
            /\ Slot(new.opens, opening, old.interval)
            /\ \A d \in opening..(new.opens - 1) : Slot(d, opening, old.interval) => d + length <= now
    BY <2>7, <2>8, <2>9, WalkToSlot
  <2> HIDE DEF new
  <2>11. new.closes # Null => LengthOf(new) = length
    <3> SUFFICES ASSUME new.closes # Null PROVE LengthOf(new) = length
      OBVIOUS
    <3>1. new.closes = new.opens + length /\ new.opens # Null
      BY <2>8, <2>9
    <3>2. LengthOf(new) = new.closes - new.opens
      BY <3>1 DEF LengthOf, OpeningOf
    <3> QED BY <2>8, <2>9, <3>1, <3>2
  <2>12. ~ (new.opens + length <= now)
    BY <2>8, <2>9
  <2> QED BY <2>6, <2>10, <2>11, <2>12 DEF opening, length
<1> QED BY <1>1, RoundsInvariant, PTL DEF Spec, NextRoundOnTime
=============================================================================
