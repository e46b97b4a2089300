--------------------------- MODULE SlaClock_proofs ---------------------------
(***************************************************************************)
(* SlaClock, for any calendars, notices, records, policy files and number  *)
(* of days.  Part one is the business-day arithmetic: that the loops of    *)
(* sla_clock count what they say they count.  tlapm cannot instantiate an  *)
(* induction rule with a predicate, so the inductions go through sets: a   *)
(* nonempty set of numbers has a least element.  Part two is the parser of *)
(* the policy block, part three the bands, part four the clock.            *)
(***************************************************************************)
EXTENDS SlaClock, FiniteSetTheorems, WellFoundedInduction, TLAPS

(* A set of numbers has a least one: well-foundedness, without an          *)
(* induction rule.                                                         *)
LEMMA LeastNatural ==
  ASSUME NEW T \in SUBSET Nat, T # {}
  PROVE  \E x \in T : \A y \in T : x <= y
<1>1. IsWellFoundedOn(OpToRel(<, Nat), Nat)
  BY NatLessThanWellFounded
<1>2. PICK x \in T : \A y \in T : ~(<<y, x>> \in OpToRel(<, Nat))
  BY <1>1, WFMin
<1>3. \A y \in T : ~(y < x)
  BY <1>2 DEF OpToRel
<1> QED BY <1>3

(* Induction over the numbers, for a set in place of a predicate.          *)
LEMMA Induction ==
  ASSUME NEW S, 0 \in S, \A n \in Nat : n \in S => n + 1 \in S
  PROVE  Nat \subseteq S
<1> SUFFICES ASSUME Nat \ S # {} PROVE FALSE
  OBVIOUS
<1>1. PICK x \in Nat \ S : \A y \in Nat \ S : x <= y
  BY LeastNatural
<1>2. x # 0 /\ x - 1 \in Nat /\ x - 1 \in S
  BY <1>1
<1> QED BY <1>1, <1>2

(* A list of holidays, being finite, ends in both directions.              *)
LEMMA FiniteIsBounded ==
  ASSUME NEW H \in SUBSET Int, IsFiniteSet(H)
  PROVE  \E b \in Nat : \A h \in H : -b <= h /\ h <= b
<1> DEFINE S == {n \in Nat : \A G \in SUBSET Int :
                   IsFiniteSet(G) /\ Cardinality(G) = n =>
                     \E b \in Nat : \A h \in G : -b <= h /\ h <= b}
<1>1. 0 \in S
  <2> SUFFICES ASSUME NEW G \in SUBSET Int, IsFiniteSet(G), Cardinality(G) = 0
               PROVE  \E b \in Nat : \A h \in G : -b <= h /\ h <= b
    OBVIOUS
  <2>1. G = {}
    BY FS_EmptySet
  <2> QED BY <2>1
<1>2. ASSUME NEW n \in Nat, n \in S PROVE n + 1 \in S
  <2> SUFFICES ASSUME NEW G \in SUBSET Int, IsFiniteSet(G), Cardinality(G) = n + 1
               PROVE  \E b \in Nat : \A h \in G : -b <= h /\ h <= b
    OBVIOUS
  <2>0. G # {}
    <3>1. n + 1 # 0
      OBVIOUS
    <3> QED BY <3>1, FS_EmptySet
  <2>1. PICK x \in G : TRUE
    BY <2>0
  <2>2. IsFiniteSet(G \ {x}) /\ Cardinality(G \ {x}) = n
    BY FS_RemoveElement
  <2>3. PICK b \in Nat : \A h \in G \ {x} : -b <= h /\ h <= b
    BY <1>2, <2>2
  <2>4. PICK c \in Nat : -c <= x /\ x <= c
    <3>1. CASE x >= 0
      BY <3>1
    <3>2. CASE x < 0
      <4>1. -x \in Nat /\ -(-x) <= x /\ x <= -x
        BY <3>2
      <4> QED BY <4>1
    <3> QED BY <3>1, <3>2
  <2>5. ASSUME NEW h \in G PROVE -(b + c) <= h /\ h <= b + c
    <3>1. h \in Int
      OBVIOUS
    <3>2. (-b <= h /\ h <= b) \/ (-c <= h /\ h <= c)
      BY <2>3, <2>4
    <3> HIDE <2>3, <2>4
    <3> QED BY <3>1, <3>2
  <2>6. b + c \in Nat
    OBVIOUS
  <2> QED BY <2>5, <2>6
<1>3. Nat \subseteq S
  <2> HIDE DEF S
  <2> QED BY <1>1, <1>2, Induction
<1>4. Cardinality(H) \in S
  BY <1>3, FS_CardinalityType
<1> QED BY <1>4

-----------------------------------------------------------------------------
(* A calendar as the loops need it, and one on which they come to an end.  *)
IsCalendar(cal) == cal.holidays \subseteq Int /\ IsFiniteSet(cal.holidays)

HasBusinessDays(cal) == ~(0..6 \subseteq cal.weekend)

(* Where a day is from d, in the direction of step, and the days on the    *)
(* way there.                                                              *)
Steps == {1, -1}

Away(step, d, n) == IF step = 1 THEN d + n ELSE d - n

Span(step, d, n) == IF step = 1 THEN (d + 1)..(d + n) ELSE (d - n)..(d - 1)

(* The business days among days, and how many of them a walk has passed.   *)
Business(S, cal) == {x \in S : IsBusinessDay(x, cal)}

Passed(step, d, n, cal) == Cardinality(Business(Span(step, d, n), cal))

(* Counting the business days of an interval.                              *)
LEMMA CountType ==
  ASSUME NEW a \in Int, NEW b \in Int, NEW cal
  PROVE  /\ IsFiniteSet(Business(a..b, cal))
         /\ Cardinality(Business(a..b, cal)) \in Nat
         /\ a > b => Cardinality(Business(a..b, cal)) = 0
<1>1. IsFiniteSet(a..b)
  BY FS_Interval
<1>2. Business(a..b, cal) \in SUBSET (a..b)
  BY DEF Business
<1>3. IsFiniteSet(Business(a..b, cal))
  BY <1>1, <1>2, FS_Subset
<1>4. Cardinality(Business(a..b, cal)) \in Nat
  BY <1>3, FS_CardinalityType
<1>5. a > b => Business(a..b, cal) = {}
  BY DEF Business
<1> QED BY <1>3, <1>4, <1>5, FS_EmptySet

(* One day more is one business day more, or none.                         *)
LEMMA CountAdds ==
  ASSUME NEW S, NEW T, NEW x, NEW cal, IsFiniteSet(Business(S, cal)), x \notin S, T = S \cup {x}
  PROVE  Cardinality(Business(T, cal)) =
           Cardinality(Business(S, cal)) + (IF IsBusinessDay(x, cal) THEN 1 ELSE 0)
<1>0. Cardinality(Business(S, cal)) \in Nat
  BY FS_CardinalityType
<1>1. CASE IsBusinessDay(x, cal)
  <2>1. Business(T, cal) = Business(S, cal) \cup {x} /\ x \notin Business(S, cal)
    BY <1>1 DEF Business
  <2> QED BY <1>1, <2>1, FS_AddElement
<1>2. CASE ~IsBusinessDay(x, cal)
  <2>1. Business(T, cal) = Business(S, cal)
    BY <1>2 DEF Business
  <2> QED BY <1>0, <1>2, <2>1
<1> QED BY <1>1, <1>2

(* More days hold no fewer business days.                                  *)
LEMMA CountGrows ==
  ASSUME NEW a \in Int, NEW b \in Int, NEW c \in Int, NEW d \in Int, NEW cal,
         c <= a, b <= d
  PROVE  Cardinality(Business(a..b, cal)) <= Cardinality(Business(c..d, cal))
<1>1. Business(a..b, cal) \in SUBSET Business(c..d, cal)
  BY DEF Business
<1> QED BY <1>1, CountType, FS_Subset

(* A walk of no days passes no business day.                               *)
LEMMA PassedType ==
  ASSUME NEW step \in Steps, NEW d \in Int, NEW n \in Nat, NEW cal
  PROVE  /\ Passed(step, d, n, cal) \in Nat
         /\ Passed(step, d, 0, cal) = 0
         /\ IsFiniteSet(Business(Span(step, d, n), cal))
BY CountType DEF Passed, Span, Steps

(* What a walk passes, by its first day and the walk from there.           *)
LEMMA PassedFirst ==
  ASSUME NEW step \in Steps, NEW d \in Int, NEW n \in Nat, NEW cal
  PROVE  Passed(step, d, n + 1, cal) =
           Passed(step, d + step, n, cal) + (IF IsBusinessDay(d + step, cal) THEN 1 ELSE 0)
<1>1. Span(step, d, n + 1) = Span(step, d + step, n) \cup {d + step}
  BY DEF Span, Steps
<1>2. d + step \notin Span(step, d + step, n)
  BY DEF Span, Steps
<1>3. IsFiniteSet(Business(Span(step, d + step, n), cal))
  BY PassedType, d + step \in Int DEF Steps
<1> QED BY <1>1, <1>2, <1>3, CountAdds DEF Passed

(* What a walk passes, by its last day.                                    *)
LEMMA PassedLast ==
  ASSUME NEW step \in Steps, NEW d \in Int, NEW n \in Nat, NEW cal
  PROVE  Passed(step, d, n + 1, cal) =
           Passed(step, d, n, cal)
             + (IF IsBusinessDay(Away(step, d, n + 1), cal) THEN 1 ELSE 0)
<1>1. Span(step, d, n + 1) = Span(step, d, n) \cup {Away(step, d, n + 1)}
  BY DEF Span, Steps, Away
<1>2. Away(step, d, n + 1) \notin Span(step, d, n)
  BY DEF Span, Steps, Away
<1>3. IsFiniteSet(Business(Span(step, d, n), cal))
  BY PassedType
<1> QED BY <1>1, <1>2, <1>3, CountAdds DEF Passed

(* A longer walk passes no fewer.                                          *)
LEMMA PassedGrows ==
  ASSUME NEW step \in Steps, NEW d \in Int, NEW n \in Nat, NEW m \in Nat, NEW cal, n <= m
  PROVE  Passed(step, d, n, cal) <= Passed(step, d, m, cal)
BY CountGrows DEF Passed, Span, Steps

(* Each weekday comes within the week, in either direction.                *)
LEMMA WeekdayComes ==
  ASSUME NEW d \in Int, NEW w \in 0..6
  PROVE  (\E j \in 1..7 : (d + j) % 7 = w) /\ (\E j \in 1..7 : (d - j) % 7 = w)
<1>1. \E j \in 1..7 : (d + j) % 7 = w
  OBVIOUS
<1>2. \E j \in 1..7 : (d - j) % 7 = w
  OBVIOUS
<1> QED BY <1>1, <1>2

(* On a calendar with a working weekday a business day always comes: past  *)
(* the last holiday only the weekend is in the way.                        *)
LEMMA BusinessDayComes ==
  ASSUME NEW cal, IsCalendar(cal), HasBusinessDays(cal),
         NEW step \in Steps, NEW d \in Int, NEW n \in Nat
  PROVE  \E m \in Nat : m > n /\ IsBusinessDay(Away(step, d, m), cal)
<1>1. PICK w \in 0..6 : w \notin cal.weekend
  BY DEF HasBusinessDays
<1>2. PICK b \in Nat : \A h \in cal.holidays : -b <= h /\ h <= b
  BY FiniteIsBounded DEF IsCalendar
<1>3. PICK k \in Nat : k >= n /\ d + k >= b /\ d - k <= -b
  <2>1. CASE d >= 0
    <3>1. n + b + d \in Nat /\ n + b + d >= n /\ d + (n + b + d) >= b /\ d - (n + b + d) <= -b
      BY <2>1
    <3> QED BY <3>1
  <2>2. CASE d < 0
    <3>1. n + b - d \in Nat /\ n + b - d >= n /\ d + (n + b - d) >= b /\ d - (n + b - d) <= -b
      BY <2>2
    <3> QED BY <3>1
  <2> QED BY <2>1, <2>2
<1>4. CASE step = 1
  <2>1. PICK j \in 1..7 : (d + k + j) % 7 = w
    BY WeekdayComes, d + k \in Int
  <2>2. d + k + j \notin cal.holidays
    BY <1>2, <1>3
  <2>3. k + j \in Nat /\ k + j > n /\ Away(step, d, k + j) = d + k + j
    BY <1>3, <1>4 DEF Away
  <2> QED BY <1>1, <2>1, <2>2, <2>3 DEF IsBusinessDay
<1>5. CASE step = -1
  <2>1. PICK j \in 1..7 : (d - k - j) % 7 = w
    BY WeekdayComes, d - k \in Int
  <2>2. d - k - j \notin cal.holidays
    BY <1>2, <1>3
  <2>3. k + j \in Nat /\ k + j > n /\ Away(step, d, k + j) = d - k - j
    BY <1>3, <1>5 DEF Away
  <2> QED BY <1>1, <2>1, <2>2, <2>3 DEF IsBusinessDay
<1> QED BY <1>4, <1>5 DEF Steps

(* So that a walk long enough passes any number of them.                   *)
LEMMA EnoughPass ==
  ASSUME NEW cal, IsCalendar(cal), HasBusinessDays(cal),
         NEW step \in Steps, NEW d \in Int, NEW c \in Nat
  PROVE  \E n \in Nat : Passed(step, d, n, cal) >= c
<1> DEFINE S == {k \in Nat : \E n \in Nat : Passed(step, d, n, cal) >= k}
<1>1. 0 \in S
  <2>1. Passed(step, d, 0, cal) = 0
    BY PassedType, 0 \in Nat
  <2>2. Passed(step, d, 0, cal) >= 0
    BY <2>1
  <2> QED BY <2>2
<1>2. ASSUME NEW k \in Nat, k \in S PROVE k + 1 \in S
  <2>1. PICK n \in Nat : Passed(step, d, n, cal) >= k
    BY <1>2
  <2>2. PICK m \in Nat : m > n /\ IsBusinessDay(Away(step, d, m), cal)
    BY BusinessDayComes
  <2>3. m - 1 \in Nat /\ (m - 1) + 1 = m /\ n <= m - 1
    BY <2>2
  <2>4. Passed(step, d, n, cal) <= Passed(step, d, m - 1, cal)
    BY <2>3, PassedGrows
  <2>5. Passed(step, d, m, cal) = Passed(step, d, m - 1, cal) + 1
    BY <2>2, <2>3, PassedLast
  <2>6. Passed(step, d, n, cal) \in Nat /\ Passed(step, d, m - 1, cal) \in Nat
    BY <2>3, PassedType
  <2>7. Passed(step, d, m, cal) >= k + 1
    BY <2>1, <2>4, <2>5, <2>6
  <2> QED BY <2>7
<1>3. Nat \subseteq S
  <2> HIDE DEF S
  <2> QED BY <1>1, <1>2, Induction
<1> QED BY <1>3

(* The shortest walk that passes c business days, where the loop stops.    *)
IsReach(n, step, d, c, cal) ==
  /\ n \in Nat
  /\ Passed(step, d, n, cal) >= c
  /\ \A m \in Nat : Passed(step, d, m, cal) >= c => n <= m

Reach(step, d, c, cal) == CHOOSE n : IsReach(n, step, d, c, cal)

LEMMA ReachExists ==
  ASSUME NEW cal, IsCalendar(cal), HasBusinessDays(cal),
         NEW step \in Steps, NEW d \in Int, NEW c \in Nat
  PROVE  IsReach(Reach(step, d, c, cal), step, d, c, cal)
<1> DEFINE T == {n \in Nat : Passed(step, d, n, cal) >= c}
<1>1. T # {}
  BY EnoughPass
<1>2. PICK n \in T : \A m \in T : n <= m
  BY <1>1, LeastNatural
<1>3. IsReach(n, step, d, c, cal)
  BY <1>2 DEF IsReach
<1> QED BY <1>3 DEF Reach

LEMMA ReachIsUnique ==
  ASSUME NEW cal, IsCalendar(cal), HasBusinessDays(cal),
         NEW step \in Steps, NEW d \in Int, NEW c \in Nat,
         NEW n, IsReach(n, step, d, c, cal)
  PROVE  n = Reach(step, d, c, cal)
<1>1. IsReach(Reach(step, d, c, cal), step, d, c, cal)
  BY ReachExists
<1> HIDE DEF Reach
<1> QED BY <1>1 DEF IsReach

(* What is left to pass once d is behind.                                  *)
Left(d, c, cal) == IF IsBusinessDay(d, cal) THEN c - 1 ELSE c

(* The recursion of the loop, of its length.                               *)
LEMMA ReachStep ==
  ASSUME NEW cal, IsCalendar(cal), HasBusinessDays(cal),
         NEW step \in Steps, NEW d \in Int, NEW c \in Nat
  PROVE  Reach(step, d, c, cal) =
           IF c = 0 THEN 0 ELSE 1 + Reach(step, d + step, Left(d + step, c, cal), cal)
<1>1. CASE c = 0
  <2>1. IsReach(0, step, d, c, cal)
    BY <1>1, PassedType DEF IsReach
  <2> QED BY <1>1, <2>1, ReachIsUnique
<1>2. CASE c # 0
  <2> DEFINE next == d + step
             left == Left(next, c, cal)
             r == Reach(step, next, left, cal)
  <2>1. next \in Int /\ left \in Nat
    BY <1>2 DEF Left, Steps
  <2>2. IsReach(r, step, next, left, cal)
    BY <2>1, ReachExists
  <2>3. \A n \in Nat : Passed(step, d, n + 1, cal) >= c <=> Passed(step, next, n, cal) >= left
    <3> TAKE n \in Nat
    <3>1. Passed(step, next, n, cal) \in Nat
      BY <2>1, PassedType
    <3>2. Passed(step, d, n + 1, cal) =
            Passed(step, next, n, cal) + (IF IsBusinessDay(next, cal) THEN 1 ELSE 0)
      BY PassedFirst
    <3> QED BY <3>1, <3>2 DEF Left
  <2> HIDE DEF next, left, r
  <2>4. r \in Nat /\ Passed(step, d, r + 1, cal) >= c
    BY <2>2, <2>3 DEF IsReach
  <2>5. ASSUME NEW m \in Nat, Passed(step, d, m, cal) >= c PROVE r + 1 <= m
    <3>1. m # 0
      BY <1>2, <2>5, PassedType
    <3>2. m - 1 \in Nat /\ (m - 1) + 1 = m
      BY <3>1
    <3>3. Passed(step, next, m - 1, cal) >= left
      BY <2>3, <2>5, <3>2
    <3> QED BY <2>2, <3>2, <3>3 DEF IsReach
  <2>6. IsReach(r + 1, step, d, c, cal)
    BY <2>4, <2>5 DEF IsReach
  <2>7. r + 1 = Reach(step, d, c, cal)
    BY <2>6, ReachIsUnique
  <2> QED BY <1>2, <2>4, <2>7 DEF r, left, next
<1> QED BY <1>1, <1>2

(* The shortest walk passes as many as it was asked for and not one more.  *)
LEMMA ReachCounts ==
  ASSUME NEW cal, IsCalendar(cal), HasBusinessDays(cal),
         NEW step \in Steps, NEW d \in Int, NEW c \in Nat
  PROVE  /\ Reach(step, d, c, cal) \in Nat
         /\ Passed(step, d, Reach(step, d, c, cal), cal) = c
<1> DEFINE r == Reach(step, d, c, cal)
<1>1. IsReach(r, step, d, c, cal)
  BY ReachExists
<1> SUFFICES r \in Nat /\ Passed(step, d, r, cal) = c
  OBVIOUS
<1> HIDE DEF r
<1>2. r \in Nat /\ Passed(step, d, r, cal) >= c /\ Passed(step, d, r, cal) \in Nat
  BY <1>1, PassedType DEF IsReach
<1>3. CASE r = 0
  <2>1. Passed(step, d, 0, cal) = 0
    BY PassedType, 0 \in Nat
  <2> QED BY <1>2, <1>3, <2>1
<1>4. CASE r # 0
  <2>1. r - 1 \in Nat /\ (r - 1) + 1 = r
    BY <1>2, <1>4
  <2>2. Passed(step, d, r - 1, cal) \in Nat
    BY <2>1, PassedType
  <2>2a. ~(Passed(step, d, r - 1, cal) >= c)
    BY <1>1, <2>1 DEF IsReach
  <2>3. Passed(step, d, (r - 1) + 1, cal) = Passed(step, d, r - 1, cal)
                     + (IF IsBusinessDay(Away(step, d, r), cal) THEN 1 ELSE 0)
    BY <2>1, PassedLast
  <2>4. Passed(step, d, r, cal) <= Passed(step, d, r - 1, cal) + 1
    BY <2>1, <2>2, <2>3
  <2> QED BY <1>2, <2>2, <2>2a, <2>4
<1> QED BY <1>2, <1>3, <1>4

(* The body of Walk, of the function it defines.                           *)
Onward(step, cal, f) ==
  [at \in Int \X Nat |->
     IF at[2] = 0 THEN at[1]
     ELSE LET day == at[1] + step
          IN f[<<day, IF IsBusinessDay(day, cal) THEN at[2] - 1 ELSE at[2]>>]]

(* Some function is defined by that recursion, also on a calendar without  *)
(* a business day, where the loop would not end; CHOOSE then gives one.    *)
LEMMA WalkIsDefined ==
  ASSUME NEW cal, IsCalendar(cal), NEW step \in Steps
  PROVE  Walk(step, cal) = Onward(step, cal, Walk(step, cal))
<1>1. \E f : f = Onward(step, cal, f)
  <2>1. CASE HasBusinessDays(cal)
    <3> DEFINE g == [at \in Int \X Nat |-> Away(step, at[1], Reach(step, at[1], at[2], cal))]
    <3>1. ASSUME NEW at \in Int \X Nat PROVE g[at] = Onward(step, cal, g)[at]
      <4> DEFINE d == at[1]  c == at[2]  next == d + step  left == Left(next, c, cal)
      <4>1. d \in Int /\ c \in Nat /\ next \in Int
        BY DEF Steps
      <4>2. CASE c = 0
        <5>1. Reach(step, d, c, cal) = 0
          BY <2>1, <4>1, <4>2, ReachStep
        <5>2. g[at] = d
          BY <4>1, <5>1 DEF Away
        <5> QED BY <4>2, <5>2 DEF Onward
      <4>3. CASE c # 0
        <5>1. left \in Nat /\ <<next, left>> \in Int \X Nat
          BY <4>1, <4>3 DEF Left
        <5>2. Reach(step, d, c, cal) = 1 + Reach(step, next, left, cal)
          BY <2>1, <4>1, <4>3, ReachStep
        <5>3. Reach(step, next, left, cal) \in Nat
          BY <2>1, <4>1, <5>1, ReachCounts
        <5>4. g[<<next, left>>] = Away(step, next, Reach(step, next, left, cal))
          BY <5>1
        <5>5. g[at] = g[<<next, left>>]
          BY <4>1, <5>2, <5>3, <5>4 DEF Away, Steps
        <5>6. Onward(step, cal, g)[at] = g[<<next, left>>]
          BY <4>3 DEF Onward, Left
        <5> QED BY <5>5, <5>6
      <4> QED BY <4>2, <4>3
    <3>2. g = Onward(step, cal, g)
      <4>1. g = [at \in Int \X Nat |-> g[at]]
        OBVIOUS
      <4>2. Onward(step, cal, g) = [at \in Int \X Nat |-> Onward(step, cal, g)[at]]
        BY DEF Onward
      <4> HIDE DEF g
      <4> QED BY <3>1, <4>1, <4>2
    <3> QED BY <3>2
  <2>2. CASE ~HasBusinessDays(cal)
    <3> DEFINE g == [at \in Int \X Nat |-> IF at[2] = 0 THEN at[1] ELSE 0]
    <3>1. ASSUME NEW day \in Int PROVE ~IsBusinessDay(day, cal)
      <4>1. day % 7 \in 0..6
        OBVIOUS
      <4> QED BY <2>2, <4>1 DEF HasBusinessDays, IsBusinessDay
    <3>2. ASSUME NEW at \in Int \X Nat PROVE g[at] = Onward(step, cal, g)[at]
      <4>1. at[1] + step \in Int
        BY DEF Steps
      <4>2. ~IsBusinessDay(at[1] + step, cal)
        BY <3>1, <4>1
      <4> QED BY <4>1, <4>2 DEF Onward
    <3>3. g = Onward(step, cal, g)
      <4>1. g = [at \in Int \X Nat |-> g[at]]
        OBVIOUS
      <4>2. Onward(step, cal, g) = [at \in Int \X Nat |-> Onward(step, cal, g)[at]]
        BY DEF Onward
      <4> HIDE DEF g
      <4> QED BY <3>2, <4>1, <4>2
    <3> QED BY <3>3
  <2> QED BY <2>1, <2>2
<1>2. Walk(step, cal) = CHOOSE f : f = Onward(step, cal, f)
  BY DEF Walk, Onward
<1> HIDE DEF Onward
<1> QED BY <1>1, <1>2

(* A count of zero returns the day untouched.                              *)
LEMMA WalkEmpty ==
  ASSUME NEW cal, IsCalendar(cal), NEW step \in Steps, NEW d \in Int
  PROVE  Walk(step, cal)[<<d, 0>>] = d
<1>1. <<d, 0>> \in Int \X Nat
  OBVIOUS
<1>2. Onward(step, cal, Walk(step, cal))[<<d, 0>>] = d
  BY <1>1 DEF Onward
<1> QED BY <1>2, WalkIsDefined

(* Where there are business days, the loop ends where the shortest walk    *)
(* does.                                                                   *)
LEMMA WalkValue ==
  ASSUME NEW cal, IsCalendar(cal), HasBusinessDays(cal), NEW step \in Steps,
         NEW d \in Int, NEW c \in Nat
  PROVE  Walk(step, cal)[<<d, c>>] = Away(step, d, Reach(step, d, c, cal))
<1> DEFINE w == Walk(step, cal)
           S == {n \in Nat : \A x \in Int, k \in Nat :
                   Reach(step, x, k, cal) = n => w[<<x, k>>] = Away(step, x, n)}
<1>0. w = Onward(step, cal, w)
  BY WalkIsDefined
<1> HIDE DEF w
<1>1. 0 \in S
  <2> SUFFICES ASSUME NEW x \in Int, NEW k \in Nat, Reach(step, x, k, cal) = 0
               PROVE  w[<<x, k>>] = Away(step, x, 0)
    OBVIOUS
  <2>1. k = 0
    <3> SUFFICES ASSUME k # 0 PROVE FALSE
      OBVIOUS
    <3>1. x + step \in Int /\ Left(x + step, k, cal) \in Nat
      BY DEF Steps, Left
    <3>2. Reach(step, x + step, Left(x + step, k, cal), cal) \in Nat
      BY <3>1, ReachCounts
    <3>3. Reach(step, x, k, cal) = 1 + Reach(step, x + step, Left(x + step, k, cal), cal)
      BY ReachStep
    <3> QED BY <3>2, <3>3
  <2> QED BY <2>1, WalkEmpty DEF w, Away
<1>2. ASSUME NEW n \in Nat, n \in S PROVE n + 1 \in S
  <2> SUFFICES ASSUME NEW x \in Int, NEW k \in Nat, Reach(step, x, k, cal) = n + 1
               PROVE  w[<<x, k>>] = Away(step, x, n + 1)
    OBVIOUS
  <2>1. k # 0
    BY ReachStep
  <2> DEFINE next == x + step  left == Left(next, k, cal)
  <2>2. next \in Int /\ left \in Nat
    BY <2>1 DEF Steps, Left
  <2>3. Reach(step, next, left, cal) \in Nat
    BY <2>2, ReachCounts
  <2>4. Reach(step, x, k, cal) = 1 + Reach(step, next, left, cal)
    BY <2>1, ReachStep
  <2>5. Reach(step, next, left, cal) = n
    BY <2>3, <2>4
  <2>6. w[<<next, left>>] = Away(step, next, n)
    BY <1>2, <2>2, <2>5
  <2>7. Onward(step, cal, w)[<<x, k>>] = w[<<next, left>>]
    BY <2>1 DEF Onward, Left
  <2> QED BY <1>0, <2>6, <2>7 DEF Away, Steps
<1>3. Nat \subseteq S
  <2> HIDE DEF S
  <2> QED BY <1>1, <1>2, Induction
<1>4. Reach(step, d, c, cal) \in Nat
  BY ReachCounts
<1> QED BY <1>3, <1>4 DEF w

(* subtract_business_days goes back over exactly as many business days as  *)
(* it was asked to (none for a negative number), over any weekend and any  *)
(* holidays.                                                               *)
THEOREM SubtractCounts ==
  ASSUME NEW cal, IsCalendar(cal), NEW start \in Int, NEW count \in Int,
         HasBusinessDays(cal) \/ AtLeastZero(count) = 0
  PROVE  /\ SubtractBusinessDays(start, count, cal) \in Int
         /\ SubtractBusinessDays(start, count, cal) <= start
         /\ Cardinality(Business(SubtractBusinessDays(start, count, cal)..(start - 1), cal))
              = AtLeastZero(count)
<1> DEFINE x == SubtractBusinessDays(start, count, cal)
           c == AtLeastZero(count)
<1>0. -1 \in Steps /\ c \in Nat
  BY DEF Steps, AtLeastZero
<1>1. x = Walk(-1, cal)[<<start, c>>]
  BY DEF SubtractBusinessDays
<1> SUFFICES x \in Int /\ x <= start /\ Cardinality(Business(x..(start - 1), cal)) = c
  OBVIOUS
<1> HIDE DEF x, c
<1>2. CASE HasBusinessDays(cal)
  <2> DEFINE r == Reach(-1, start, c, cal)
  <2>1. x = Away(-1, start, r)
    BY <1>0, <1>1, <1>2, WalkValue
  <2>2. r \in Nat /\ Passed(-1, start, r, cal) = c
    BY <1>0, <1>2, ReachCounts
  <2> HIDE DEF r
  <2>3. x = start - r
    BY <2>1 DEF Away
  <2>4. Passed(-1, start, r, cal) = Cardinality(Business(x..(start - 1), cal))
    BY <2>3 DEF Passed, Span
  <2> QED BY <2>2, <2>3, <2>4
<1>3. CASE c = 0
  <2>1. x = start
    BY <1>0, <1>1, <1>3, WalkEmpty
  <2>2. Cardinality(Business(start..(start - 1), cal)) = 0
    BY CountType, start > start - 1, start - 1 \in Int
  <2> QED BY <1>3, <2>1, <2>2
<1> QED BY <1>2, <1>3 DEF c

(* What add_business_days returns is a day.                                *)
LEMMA AddIsADay ==
  ASSUME NEW cal, IsCalendar(cal), NEW start \in Int, NEW count \in Int,
         HasBusinessDays(cal) \/ count = 0
  PROVE  AddBusinessDays(start, count, cal) \in Int
<1>1. CASE count < 0
  <2>1. HasBusinessDays(cal) /\ -count \in Int
    BY <1>1
  <2>2. SubtractBusinessDays(start, -count, cal) \in Int
    BY <2>1, SubtractCounts
  <2> QED BY <1>1, <2>2 DEF AddBusinessDays
<1>2. CASE count >= 0
  <2>0. 1 \in Steps /\ count \in Nat
    BY <1>2 DEF Steps
  <2>1. CASE HasBusinessDays(cal)
    <3>1. Walk(1, cal)[<<start, count>>] = Away(1, start, Reach(1, start, count, cal))
      BY <2>0, <2>1, WalkValue
    <3>2. Reach(1, start, count, cal) \in Nat
      BY <2>0, <2>1, ReachCounts
    <3>3. Away(1, start, Reach(1, start, count, cal)) \in Int
      BY <3>2 DEF Away
    <3> QED BY <1>2, <3>1, <3>3 DEF AddBusinessDays
  <2>2. CASE count = 0
    <3>1. Walk(1, cal)[<<start, count>>] = start
      BY <2>0, <2>2, WalkEmpty
    <3> QED BY <1>2, <3>1 DEF AddBusinessDays
  <2> QED BY <2>1, <2>2
<1> QED BY <1>1, <1>2

-----------------------------------------------------------------------------
(* A count with the sign of its direction, and the day it is counted from. *)
Signed(step, n) == IF step = 1 THEN n ELSE -n

Back(step, end, n) == IF step = 1 THEN end - n ELSE end + n

(* The body of the loop of BusinessDaysBetween.                            *)
Counting(step, end, cal, f) ==
  [d \in Int |->
     IF d = end THEN 0
     ELSE (IF IsBusinessDay(d + step, cal) THEN step ELSE 0) + f[d + step]]

(* Some function is defined by that recursion: the signed count, from      *)
(* either side.                                                            *)
LEMMA CountingIsDefined ==
  ASSUME NEW cal, NEW step \in Steps, NEW end \in Int
  PROVE  \E f : f = Counting(step, end, cal, f)
<1> DEFINE Gap(d) == IF d <= end THEN end - d ELSE d - end
           Before(d) == IF step = 1 THEN d <= end ELSE d >= end
           g == [d \in Int |->
                   IF Before(d) THEN Signed(step, Passed(step, d, Gap(d), cal))
                   ELSE Signed(step, -Passed(step, end, Gap(d), cal))]
<1>1. ASSUME NEW d \in Int PROVE g[d] = Counting(step, end, cal, g)[d]
  <2> DEFINE next == d + step
             one == IF IsBusinessDay(next, cal) THEN 1 ELSE 0
  <2>0. next \in Int /\ Gap(d) \in Nat /\ Gap(next) \in Nat /\ one \in {0, 1}
    BY DEF Steps
  <2>1. CASE d = end
    <3>1. Before(d) /\ Gap(d) = 0
      BY <2>1
    <3>2. Passed(step, d, 0, cal) = 0
      BY PassedType, 0 \in Nat
    <3>3. g[d] = Signed(step, Passed(step, d, Gap(d), cal))
      BY <3>1
    <3>4. g[d] = 0
      BY <3>1, <3>2, <3>3 DEF Signed
    <3> HIDE DEF g
    <3> QED BY <2>1, <3>4 DEF Counting
  <2>2. CASE d # end /\ Before(d)
    <3>1. Before(next) /\ Gap(d) = Gap(next) + 1
      BY <2>2 DEF Steps
    <3>2. Passed(step, d, Gap(next) + 1, cal) = Passed(step, next, Gap(next), cal) + one
      BY <2>0, PassedFirst
    <3>3. Passed(step, next, Gap(next), cal) \in Nat
      BY <2>0, PassedType
    <3>4. g[d] = Signed(step, Passed(step, d, Gap(next) + 1, cal))
      BY <2>2, <3>1
    <3>5. g[next] = Signed(step, Passed(step, next, Gap(next), cal))
      BY <2>0, <3>1
    <3>6. Counting(step, end, cal, g)[d] =
            (IF IsBusinessDay(next, cal) THEN step ELSE 0) + g[next]
      BY <2>2 DEF Counting
    <3> HIDE DEF g, Gap, Before, next
    <3> QED BY <3>2, <3>3, <3>4, <3>5, <3>6 DEF Signed, Steps
  <2>3. CASE ~Before(d)
    <3>1. ~Before(next) /\ Gap(next) = Gap(d) + 1 /\ d # end /\ next = Away(step, end, Gap(d) + 1)
      BY <2>3 DEF Steps, Away
    <3>2. Passed(step, end, Gap(d) + 1, cal) = Passed(step, end, Gap(d), cal) + one
      BY <2>0, <3>1, PassedLast
    <3>3. Passed(step, end, Gap(d), cal) \in Nat
      BY <2>0, PassedType
    <3>4. g[d] = Signed(step, -Passed(step, end, Gap(d), cal))
      BY <2>3
    <3>5. g[next] = Signed(step, -Passed(step, end, Gap(d) + 1, cal))
      BY <2>0, <3>1
    <3>6. Counting(step, end, cal, g)[d] =
            (IF IsBusinessDay(next, cal) THEN step ELSE 0) + g[next]
      BY <3>1 DEF Counting
    <3> HIDE DEF g, Gap, Before, next
    <3> QED BY <3>2, <3>3, <3>4, <3>5, <3>6 DEF Signed, Steps
  <2> QED BY <2>1, <2>2, <2>3
<1>2. g = [d \in Int |-> g[d]]
  OBVIOUS
<1>3. Counting(step, end, cal, g) = [d \in Int |-> Counting(step, end, cal, g)[d]]
  BY DEF Counting
<1>4. g = Counting(step, end, cal, g)
  <2> HIDE DEF g
  <2> QED BY <1>1, <1>2, <1>3
<1> QED BY <1>4

(* By induction over the days between, it is the signed count.             *)
LEMMA CountingValue ==
  ASSUME NEW cal, NEW step \in Steps, NEW end \in Int,
         NEW f, f = Counting(step, end, cal, f), NEW n \in Nat
  PROVE  f[Back(step, end, n)] = Signed(step, Passed(step, Back(step, end, n), n, cal))
<1> DEFINE S == {k \in Nat : f[Back(step, end, k)]
                   = Signed(step, Passed(step, Back(step, end, k), k, cal))}
<1>0. \A k \in Nat : Back(step, end, k) \in Int
  BY DEF Back, Steps
<1>1. 0 \in S
  <2>1. Back(step, end, 0) = end
    BY DEF Back, Steps
  <2>2. Counting(step, end, cal, f)[end] = 0
    BY DEF Counting
  <2>3. Passed(step, end, 0, cal) = 0
    BY PassedType, 0 \in Nat
  <2> QED BY <2>1, <2>2, <2>3 DEF Signed
<1>2. ASSUME NEW k \in Nat, k \in S PROVE k + 1 \in S
  <2> DEFINE d == Back(step, end, k + 1)  next == Back(step, end, k)
             one == IF IsBusinessDay(next, cal) THEN 1 ELSE 0
  <2>1. d \in Int /\ next \in Int /\ next = d + step /\ d # end
    BY DEF Back, Steps
  <2>2. Passed(step, d, k + 1, cal) = Passed(step, next, k, cal) + one
    BY <2>1, PassedFirst
  <2>3. Passed(step, next, k, cal) \in Nat
    BY <2>1, PassedType
  <2>4. f[next] = Signed(step, Passed(step, next, k, cal))
    BY <1>2
  <2>5. Counting(step, end, cal, f)[d] = (IF IsBusinessDay(next, cal) THEN step ELSE 0) + f[next]
    BY <2>1 DEF Counting
  <2>6. f[d] = Signed(step, Passed(step, d, k + 1, cal))
    <3> HIDE DEF d, next
    <3> QED BY <2>2, <2>3, <2>4, <2>5 DEF Signed, Steps
  <2> QED BY <2>6
<1>3. Nat \subseteq S
  <2> HIDE DEF S
  <2> QED BY <1>1, <1>2, Induction
<1> QED BY <1>3

(* business_days_between is the number of business days after the start up *)
(* to the end, or minus the number from the end up to the day before the   *)
(* start.                                                                  *)
THEOREM BetweenValue ==
  ASSUME NEW cal, NEW start \in Int, NEW end \in Int
  PROVE  BusinessDaysBetween(start, end, cal) =
           IF end > start THEN Cardinality(Business((start + 1)..end, cal))
           ELSE -Cardinality(Business(end..(start - 1), cal))
<1> DEFINE step == IF end > start THEN 1 ELSE -1
           f == CHOOSE w : w = Counting(step, end, cal, w)
           n == IF end > start THEN end - start ELSE start - end
<1>1. step \in Steps /\ n \in Nat /\ start = Back(step, end, n)
  BY DEF Steps, Back
<1>2. BusinessDaysBetween(start, end, cal) = f[start]
  BY DEF BusinessDaysBetween, Counting
<1>3. f = Counting(step, end, cal, f)
  <2>1. \E w : w = Counting(step, end, cal, w)
    BY <1>1, CountingIsDefined
  <2> HIDE DEF step
  <2> QED BY <2>1
<1>4. f[start] = Signed(step, Passed(step, start, n, cal))
  <2> HIDE DEF f, step, n
  <2> QED BY <1>1, <1>3, CountingValue
<1> HIDE DEF f
<1>5. CASE end > start
  <2>1. step = 1 /\ start + n = end
    BY <1>5
  <2> QED BY <1>2, <1>4, <1>5, <2>1 DEF Signed, Passed, Span
<1>6. CASE ~(end > start)
  <2>1. step = -1 /\ start - n = end
    BY <1>6
  <2> QED BY <1>2, <1>4, <1>6, <2>1 DEF Signed, Passed, Span
<1> QED BY <1>5, <1>6

(* It never grows as the first day moves on, and is at most zero once that *)
(* day has reached the end.                                                *)
LEMMA BetweenFalls ==
  ASSUME NEW cal, NEW s \in Int, NEW t \in Int, NEW end \in Int, s <= t
  PROVE  /\ BusinessDaysBetween(t, end, cal) \in Int
         /\ BusinessDaysBetween(t, end, cal) <= BusinessDaysBetween(s, end, cal)
         /\ end <= t => BusinessDaysBetween(t, end, cal) <= 0
<1> DEFINE Ahead(d) == Cardinality(Business((d + 1)..end, cal))
           Behind(d) == Cardinality(Business(end..(d - 1), cal))
<1>1. \A d \in Int : BusinessDaysBetween(d, end, cal) = IF end > d THEN Ahead(d) ELSE -Behind(d)
  BY BetweenValue
<1>2. \A d \in Int : Ahead(d) \in Nat /\ Behind(d) \in Nat
  <2> TAKE d \in Int
  <2>1. d + 1 \in Int /\ d - 1 \in Int
    OBVIOUS
  <2> QED BY <2>1, CountType
<1>3. Ahead(t) <= Ahead(s) /\ Behind(s) <= Behind(t)
  <2>1. /\ s + 1 \in Int /\ t + 1 \in Int /\ s - 1 \in Int /\ t - 1 \in Int
        /\ s + 1 <= t + 1 /\ s - 1 <= t - 1 /\ end <= end
    OBVIOUS
  <2> QED BY <2>1, CountGrows
<1> HIDE DEF Ahead, Behind
<1>4. /\ Ahead(s) \in Nat /\ Ahead(t) \in Nat /\ Behind(s) \in Nat /\ Behind(t) \in Nat
  BY <1>2
<1>5. /\ BusinessDaysBetween(s, end, cal) = (IF end > s THEN Ahead(s) ELSE -Behind(s))
      /\ BusinessDaysBetween(t, end, cal) = (IF end > t THEN Ahead(t) ELSE -Behind(t))
  BY <1>1
<1> QED BY <1>3, <1>4, <1>5

(* The shortest walk ends on a business day.                               *)
LEMMA ReachLands ==
  ASSUME NEW cal, IsCalendar(cal), HasBusinessDays(cal),
         NEW step \in Steps, NEW d \in Int, NEW c \in Nat, c # 0
  PROVE  /\ Reach(step, d, c, cal) # 0
         /\ IsBusinessDay(Away(step, d, Reach(step, d, c, cal)), cal)
<1> DEFINE r == Reach(step, d, c, cal)
<1>1. IsReach(r, step, d, c, cal)
  BY ReachExists
<1>2. r \in Nat /\ Passed(step, d, r, cal) = c
  BY ReachCounts
<1> SUFFICES r # 0 /\ IsBusinessDay(Away(step, d, r), cal)
  OBVIOUS
<1> HIDE DEF r
<1>3. r # 0
  <2>1. Passed(step, d, 0, cal) = 0
    BY PassedType, 0 \in Nat
  <2> QED BY <1>2, <2>1
<1>4. r - 1 \in Nat /\ (r - 1) + 1 = r
  BY <1>2, <1>3
<1>5. Passed(step, d, r - 1, cal) # c
  <2>1. ~(Passed(step, d, r - 1, cal) >= c)
    BY <1>1, <1>4 DEF IsReach
  <2>2. c >= c
    OBVIOUS
  <2> QED BY <2>1, <2>2
<1>6. Passed(step, d, r - 1, cal) \in Nat
  BY <1>4, PassedType
<1>7. Passed(step, d, (r - 1) + 1, cal) = Passed(step, d, r - 1, cal)
                     + (IF IsBusinessDay(Away(step, d, (r - 1) + 1), cal) THEN 1 ELSE 0)
  BY <1>4, PassedLast
<1>8. IsBusinessDay(Away(step, d, r), cal)
  BY <1>2, <1>4, <1>5, <1>6, <1>7
<1> QED BY <1>3, <1>8

(* And so does subtract_business_days, when asked for at least one.        *)
LEMMA SubtractLands ==
  ASSUME NEW cal, IsCalendar(cal), HasBusinessDays(cal), NEW start \in Int, NEW count \in Int,
         count > 0
  PROVE  IsBusinessDay(SubtractBusinessDays(start, count, cal), cal)
<1>1. -1 \in Steps /\ count \in Nat /\ count # 0 /\ AtLeastZero(count) = count
  BY DEF Steps, AtLeastZero
<1>2. Walk(-1, cal)[<<start, count>>] = Away(-1, start, Reach(-1, start, count, cal))
  BY <1>1, WalkValue
<1> QED BY <1>1, <1>2, ReachLands DEF SubtractBusinessDays

(* add_business_days and business_days_between are each other's inverse,   *)
(* for counts of either sign: the two loops agree about which of the two   *)
(* ends is counted.                                                        *)
THEOREM AddThenCount ==
  ASSUME NEW cal, IsCalendar(cal), HasBusinessDays(cal), NEW start \in Int, NEW n \in Int
  PROVE  BusinessDaysBetween(start, AddBusinessDays(start, n, cal), cal) = n
<1> DEFINE x == AddBusinessDays(start, n, cal)
<1> SUFFICES BusinessDaysBetween(start, x, cal) = n
  OBVIOUS
<1>1. CASE n < 0
  <2>1. x = SubtractBusinessDays(start, -n, cal) /\ -n \in Int
    BY <1>1 DEF AddBusinessDays
  <2>2. AtLeastZero(-n) = -n
    BY <1>1 DEF AtLeastZero
  <2> HIDE DEF x
  <2>3. x \in Int /\ x <= start /\ Cardinality(Business(x..(start - 1), cal)) = -n
    BY <2>1, <2>2, SubtractCounts
  <2>4. BusinessDaysBetween(start, x, cal) = -Cardinality(Business(x..(start - 1), cal))
    BY <2>3, BetweenValue
  <2> QED BY <2>3, <2>4
<1>2. CASE n >= 0
  <2> DEFINE r == Reach(1, start, n, cal)
  <2>1. 1 \in Steps /\ n \in Nat
    BY <1>2 DEF Steps
  <2>2. r \in Nat /\ Passed(1, start, r, cal) = n /\ (n # 0 => r # 0)
    BY <2>1, ReachCounts, ReachLands
  <2>3. x = Away(1, start, r)
    BY <1>2, <2>1, WalkValue DEF AddBusinessDays
  <2> HIDE DEF r, x
  <2>4. x = start + r
    BY <2>3 DEF Away
  <2>5. Cardinality(Business((start + 1)..x, cal)) = n
    BY <2>2, <2>4 DEF Passed, Span
  <2>6. CASE r = 0
    <3>1. n = 0 /\ x = start
      BY <2>2, <2>4, <2>6
    <3>2. Cardinality(Business(start..(start - 1), cal)) = 0
      BY CountType, start - 1 \in Int, start > start - 1
    <3> DEFINE c == Cardinality(Business(start..(start - 1), cal))
    <3>3. BusinessDaysBetween(start, x, cal) = -c
      BY <3>1, BetweenValue
    <3> HIDE DEF c
    <3>4. c = 0
      BY <3>2 DEF c
    <3>5. 0 <= -c /\ -c <= 0 /\ -c \in Int
      BY <3>4
    <3> DEFINE b == BusinessDaysBetween(start, x, cal)
    <3>6. 0 <= b /\ b <= 0 /\ b \in Int
      BY <3>3, <3>5
    <3> QED BY <3>1, <3>6
  <2>7. CASE r # 0
    <3>1. x > start /\ x \in Int
      BY <2>2, <2>4, <2>7
    <3> QED BY <2>5, <3>1, BetweenValue
  <2> QED BY <2>6, <2>7
<1> QED BY <1>1, <1>2

-----------------------------------------------------------------------------
(* What the clock relies on in a policy.                                   *)
IsPolicy(p) ==
  /\ \A i \in DOMAIN p.response_windows : p.response_windows[i] \in Int
  /\ p.review_buffer_business_days \in Int
  /\ p.extension_notice_business_days \in Int
  /\ \A i \in DOMAIN p.sla_bands :
       i \in Nat /\ p.sla_bands[i][1] \in Int /\ p.sla_bands[i][2] \in Severity
  /\ \A j \in DOMAIN p.calendars :
       p.calendars[j].version # "" /\ IsCalendar(p.calendars[j])
  /\ \A r \in DOMAIN p.regime_register :
       p.regime_register[r].fixed \in Int /\ p.regime_register[r].calendarDays \in BOOLEAN

(* The policy in the code is one.                                          *)
LEMMA ShippedIsPolicy ==
  IsPolicy(DefaultPolicy)
<1> DEFINE p == DefaultPolicy
<1>1. \A i \in DOMAIN p.response_windows : p.response_windows[i] \in Int
  BY DEF DefaultPolicy
<1>2. p.review_buffer_business_days \in Int /\ p.extension_notice_business_days \in Int
  BY DEF DefaultPolicy
<1>3. \A i \in DOMAIN p.sla_bands :
       i \in Nat /\ p.sla_bands[i][1] \in Int /\ p.sla_bands[i][2] \in Severity
  BY DEF DefaultPolicy, Severity
<1>4. \A j \in DOMAIN p.calendars :
       p.calendars[j].version # "" /\ IsCalendar(p.calendars[j])
  <2>1. DOMAIN p.calendars = {"SG", "HK"}
    BY DEF DefaultPolicy
  <2>2. \A j \in {"SG", "HK"} :
          p.calendars[j].version = "2027.1" /\ p.calendars[j].holidays \subseteq 0..400
    BY DEF DefaultPolicy
  <2>3. "2027.1" # ""
    OBVIOUS
  <2>4. IsFiniteSet(0..400)
    BY FS_Interval, 0 \in Int, 400 \in Int
  <2> HIDE DEF p
  <2> SUFFICES ASSUME NEW j \in {"SG", "HK"}
               PROVE  p.calendars[j].version # "" /\ IsCalendar(p.calendars[j])
    BY <2>1
  <2>5. p.calendars[j].holidays \in SUBSET (0..400)
    BY <2>2
  <2>6. IsFiniteSet(p.calendars[j].holidays)
    BY <2>4, <2>5, FS_Subset
  <2>7. p.calendars[j].holidays \subseteq Int
    BY <2>5
  <2> QED BY <2>2, <2>3, <2>6, <2>7 DEF IsCalendar
<1>5. \A r \in DOMAIN p.regime_register :
       p.regime_register[r].fixed \in Int /\ p.regime_register[r].calendarDays \in BOOLEAN
  <2>1. \A r \in DOMAIN p.regime_register : p.regime_register[r] = Unscheduled
    BY DEF DefaultPolicy
  <2>2. Unscheduled.fixed \in Int /\ Unscheduled.calendarDays \in BOOLEAN
    BY DEF Unscheduled
  <2> HIDE DEF p
  <2> QED BY <2>1, <2>2
<1> QED BY <1>1, <1>2, <1>3, <1>4, <1>5 DEF IsPolicy

(* What stands under a key of a block.                                     *)
RawOf(b, key) == IF key \in DOMAIN b THEN b[key] ELSE Absent

(* Each part of a policy that was not refused is what its parser made of   *)
(* the block.                                                              *)
PartsOf(p, b) ==
  LET Raw(key) == RawOf(b, key)
      shipped == DefaultPolicy
  IN /\ p.response_windows =
          ResponseWindows(Raw("response_windows"), shipped.response_windows)
     /\ p.review_buffer_business_days =
          Number(Raw("review_buffer_business_days"), shipped.review_buffer_business_days)
     /\ p.extension_notice_business_days =
          Number(Raw("extension_notice_business_days"),
                 shipped.extension_notice_business_days)
     /\ p.sla_bands = SlaBands(Raw("sla_bands"), shipped.sla_bands)
     /\ p.calendars = Calendars(Raw("calendars"), shipped.calendars)
     /\ p.regime_register = RegimeRegister(Raw("regime_register"), shipped.regime_register)
     /\ p.response_windows # Refused
     /\ p.review_buffer_business_days # Refused
     /\ p.extension_notice_business_days # Refused
     /\ p.sla_bands # Refused
     /\ p.calendars # Refused
     /\ p.regime_register # Refused

LEMMA PolicyParts ==
  ASSUME NEW b, PolicyFromMapping(b) # Refused, b # Absent
  PROVE  PolicyFromMapping(b) = DefaultPolicy \/ PartsOf(PolicyFromMapping(b), b)
<1>1. {"response_windows", "review_buffer_business_days", "extension_notice_business_days",
       "sla_bands", "calendars", "regime_register"} \subseteq PolicyKey
  BY DEF PolicyKey, DefaultPolicy
<1> QED BY <1>1 DEF PolicyFromMapping, RawOf, PartsOf

(* policy_from_mapping, when it refuses nothing, gives numbers where the   *)
(* clock counts, bands it can compare, and calendars that have a version   *)
(* and end.                                                                *)
THEOREM PolicyIsTyped ==
  ASSUME NEW b \in Blocks, PolicyFromMapping(b) # Refused
  PROVE  IsPolicy(PolicyFromMapping(b))
<1> DEFINE p == PolicyFromMapping(b)
           Given(key) == IF key \in DOMAIN b THEN {b[key]} \ {Absent, Malformed} ELSE {}
<1>0. IsBlock(b)
  BY ClockAssumption
<1>1. CASE b = Absent
  BY <1>1, ShippedIsPolicy DEF PolicyFromMapping
<1>2. CASE p = DefaultPolicy
  BY <1>2, ShippedIsPolicy
<1>3. CASE b # Absent /\ p # DefaultPolicy
  <2> DEFINE Raw(key) == RawOf(b, key)
  <2>0. PartsOf(p, b)
    BY <1>3, PolicyParts
  <2>1. LET shipped == DefaultPolicy
        IN /\ p.response_windows =
                ResponseWindows(Raw("response_windows"), shipped.response_windows)
           /\ p.review_buffer_business_days =
                Number(Raw("review_buffer_business_days"),
                       shipped.review_buffer_business_days)
           /\ p.extension_notice_business_days =
                Number(Raw("extension_notice_business_days"),
                       shipped.extension_notice_business_days)
           /\ p.sla_bands = SlaBands(Raw("sla_bands"), shipped.sla_bands)
           /\ p.calendars = Calendars(Raw("calendars"), shipped.calendars)
           /\ p.regime_register = RegimeRegister(Raw("regime_register"), shipped.regime_register)
           /\ p.response_windows # Refused
           /\ p.review_buffer_business_days # Refused
           /\ p.extension_notice_business_days # Refused
           /\ p.sla_bands # Refused
           /\ p.calendars # Refused
           /\ p.regime_register # Refused
    BY <2>0 DEF PartsOf
  <2>2. \A key : Raw(key) = Absent \/ Raw(key) = Malformed \/ Raw(key) \in Given(key)
    BY DEF RawOf
  <2>3. /\ Given("review_buffer_business_days") \subseteq Int
        /\ Given("extension_notice_business_days") \subseteq Int
        /\ \A w \in Given("response_windows") : \A i \in DOMAIN w : w[i] \in Int
        /\ Given("sla_bands") \subseteq Seq((Int \X STRING) \cup {Malformed})
        /\ \A c \in Given("calendars") :
             \A j \in DOMAIN c \ {k \in DOMAIN c : c[k] = Malformed} :
             /\ c[j] \in [version : STRING, weekend : SUBSET Int, holidays : SUBSET Int]
             /\ IsFiniteSet(c[j].holidays)
        /\ \A g \in Given("regime_register") : \A r \in DOMAIN g :
             g[r] = Malformed \/ g[r] \in [fixed : Int, calendarDays : BOOLEAN]
    BY <1>0, <1>3 DEF IsBlock
  <2> HIDE DEF p, Raw, Given
  <2>4. IsPolicy(DefaultPolicy)
    BY ShippedIsPolicy
  <2>5. \A i \in DOMAIN p.response_windows : p.response_windows[i] \in Int
    BY <2>1, <2>2, <2>3, <2>4 DEF ResponseWindows, IsPolicy
  <2>6. p.review_buffer_business_days \in Int /\ p.extension_notice_business_days \in Int
    BY <2>1, <2>2, <2>3, <2>4 DEF Number, IsPolicy
  <2>7. \A i \in DOMAIN p.sla_bands :
          i \in Nat /\ p.sla_bands[i][1] \in Int /\ p.sla_bands[i][2] \in Severity
    <3>1. CASE Raw("sla_bands") = Absent
      BY <2>1, <2>4, <3>1 DEF SlaBands, IsPolicy
    <3>2. CASE Raw("sla_bands") # Absent
      <4> DEFINE bands == Raw("sla_bands")
      <4>1. /\ p.sla_bands = bands /\ bands # Malformed
            /\ \A i \in DOMAIN bands : bands[i] # Malformed /\ bands[i][2] \in Severity
        BY <2>1, <3>2 DEF SlaBands
      <4>2. bands \in Seq((Int \X STRING) \cup {Malformed})
        BY <2>2, <2>3, <3>2, <4>1
      <4> HIDE DEF bands
      <4>3. \A i \in DOMAIN bands : i \in Nat /\ bands[i] \in Int \X STRING
        BY <4>1, <4>2
      <4> QED BY <4>1, <4>3
    <3> QED BY <3>1, <3>2
  <2>8. \A j \in DOMAIN p.calendars : p.calendars[j].version # "" /\ IsCalendar(p.calendars[j])
    <3>1. CASE Raw("calendars") = Absent
      BY <2>1, <2>4, <3>1 DEF Calendars, IsPolicy
    <3>2. CASE Raw("calendars") # Absent
      <4> DEFINE c == Raw("calendars")
      <4>1. /\ c # Malformed /\ \A j \in DOMAIN c : c[j] # Malformed /\ c[j].version # ""
            /\ p.calendars = [j \in DOMAIN c |->
                   [c[j] EXCEPT !.weekend = IF @ = {} THEN Weekend ELSE @]]
        BY <2>1, <3>2 DEF Calendars
      <4>2. c \in Given("calendars")
        BY <2>2, <3>2, <4>1
      <4>3. \A j \in DOMAIN c :
              /\ c[j] \in [version : STRING, weekend : SUBSET Int, holidays : SUBSET Int]
              /\ IsFiniteSet(c[j].holidays)
        BY <2>3, <4>1, <4>2
      <4> HIDE DEF c
      <4> SUFFICES ASSUME NEW j \in DOMAIN c
                   PROVE  p.calendars[j].version # "" /\ IsCalendar(p.calendars[j])
        BY <4>1
      <4>4. /\ p.calendars[j].version = c[j].version
            /\ p.calendars[j].holidays = c[j].holidays
        BY <4>1, <4>3
      <4> QED BY <4>1, <4>3, <4>4 DEF IsCalendar
    <3> QED BY <3>1, <3>2
  <2>9. \A r \in DOMAIN p.regime_register :
          p.regime_register[r].fixed \in Int /\ p.regime_register[r].calendarDays \in BOOLEAN
    BY <2>1, <2>2, <2>3, <2>4 DEF RegimeRegister, IsPolicy
  <2>10. IsPolicy(p)
    BY <2>5, <2>6, <2>7, <2>8, <2>9 DEF IsPolicy
  <2> QED BY <2>10 DEF p
<1> QED BY <1>1, <1>2, <1>3

-----------------------------------------------------------------------------
(* Min of a set of numbers is its least.                                   *)
LEMMA MinIsLeast ==
  ASSUME NEW T \in SUBSET Nat, T # {}
  PROVE  Min(T) \in T /\ \A i \in T : Min(T) <= i
<1>1. \E x \in T : \A y \in T : x <= y
  BY LeastNatural
<1> QED BY <1>1 DEF Min

(* Bands, and how bad the one a count falls under is.                      *)
IsBands(bands) ==
  \A i \in DOMAIN bands : i \in Nat /\ bands[i][1] \in Int /\ bands[i][2] \in Severity

BandRank(r, bands) == SeverityRank[Band(r, bands)]

(* A count falls under a severity, LOW under no ceiling.                   *)
LEMMA BandIsSeverity ==
  ASSUME NEW bands, IsBands(bands), NEW r \in Int
  PROVE  /\ Band(r, bands) \in Severity
         /\ BandRank(r, bands) \in 0..3
         /\ BandRank(r, bands) = 3 <=> Band(r, bands) = "CRITICAL"
<1> DEFINE T == {i \in DOMAIN bands : r <= bands[i][1]}
<1>1. CASE T = {}
  BY <1>1 DEF Band, BandRank, Severity, SeverityRank
<1>2. CASE T # {}
  <2>1. T \in SUBSET Nat
    BY DEF IsBands
  <2>2. Min(T) \in T
    BY <1>2, <2>1, MinIsLeast
  <2>3. Band(r, bands) = bands[Min(T)][2]
    BY <1>2 DEF Band
  <2>4. Band(r, bands) \in Severity
    BY <2>2, <2>3 DEF IsBands
  <2> QED BY <2>4 DEF BandRank, Severity, SeverityRank
<1> QED BY <1>1, <1>2

(* The band of a count is the band of the ceiling it falls under.          *)
LEMMA BandAtCeiling ==
  ASSUME NEW bands, IsBands(bands), NEW r \in Int,
         {i \in DOMAIN bands : r <= bands[i][1]} # {}
  PROVE  \E i \in DOMAIN bands :
           /\ r <= bands[i][1]
           /\ \A j \in DOMAIN bands : r <= bands[j][1] => i <= j
           /\ Band(r, bands) = bands[i][2]
           /\ Band(bands[i][1], bands) = bands[i][2]
<1> DEFINE T == {i \in DOMAIN bands : r <= bands[i][1]}
           i == Min(T)
           U == {j \in DOMAIN bands : bands[i][1] <= bands[j][1]}
<1>1. T \in SUBSET Nat /\ U \in SUBSET Nat
  BY DEF IsBands
<1>2. i \in T /\ \A j \in T : i <= j
  BY <1>1, MinIsLeast
<1>3. Band(r, bands) = bands[i][2]
  BY DEF Band
<1> HIDE DEF i
<1>4. i \in U /\ U \subseteq T
  BY <1>2 DEF IsBands
<1>5. Min(U) = i
  <2>1. Min(U) \in U /\ \A j \in U : Min(U) <= j
    BY <1>1, <1>4, MinIsLeast
  <2>2. Min(U) <= i /\ i <= Min(U) /\ i \in Nat /\ Min(U) \in Nat
    BY <1>1, <1>2, <1>4, <2>1
  <2> QED BY <2>2
<1>6. Band(bands[i][1], bands) = bands[i][2]
  BY <1>4, <1>5 DEF Band
<1> QED BY <1>2, <1>3, <1>6

(* Where the file's bands are graded at their ceilings, they are graded    *)
(* between them.                                                           *)
LEMMA GradedNeverEases ==
  ASSUME NEW bands, IsBands(bands), GradedBands(bands), NEW r \in Int, NEW q \in Int, r <= q
  PROVE  BandRank(r, bands) >= BandRank(q, bands)
<1> DEFINE Under(x) == {i \in DOMAIN bands : x <= bands[i][1]}
<1>1. CASE Under(q) = {}
  <2>1. BandRank(q, bands) = 0
    BY <1>1 DEF Band, BandRank, SeverityRank
  <2> QED BY <2>1, BandIsSeverity
<1>2. CASE Under(q) # {}
  <2>1. Under(r) # {}
    <3>1. PICK j \in DOMAIN bands : q <= bands[j][1]
      BY <1>2
    <3>2. r <= bands[j][1]
      BY <3>1 DEF IsBands
    <3> QED BY <3>2
  <2>2. PICK j \in DOMAIN bands :
           /\ q <= bands[j][1]
           /\ \A k \in DOMAIN bands : q <= bands[k][1] => j <= k
           /\ Band(q, bands) = bands[j][2]
           /\ Band(bands[j][1], bands) = bands[j][2]
    BY <1>2, BandAtCeiling
  <2>3. PICK i \in DOMAIN bands :
           /\ r <= bands[i][1]
           /\ \A k \in DOMAIN bands : r <= bands[k][1] => i <= k
           /\ Band(r, bands) = bands[i][2]
           /\ Band(bands[i][1], bands) = bands[i][2]
    BY <2>1, BandAtCeiling
  <2>4. i \in Nat /\ j \in Nat /\ bands[i][1] \in Int /\ bands[j][1] \in Int
    BY DEF IsBands
  <2>5. i <= j
    BY <2>2, <2>3, <2>4
  <2>6. CASE bands[i][1] < bands[j][1]
    <3>1. SeverityRank[Band(bands[i][1], bands)] >= SeverityRank[Band(bands[j][1], bands)]
      BY <2>6 DEF GradedBands
    <3> QED BY <2>2, <2>3, <3>1 DEF BandRank
  <2>7. CASE bands[j][1] <= bands[i][1]
    <3>1. j <= i
      BY <2>2, <2>4, <2>7
    <3>2. i = j
      BY <2>4, <2>5, <3>1
    <3>3. BandRank(r, bands) = BandRank(q, bands)
      BY <2>2, <2>3, <3>2 DEF BandRank
    <3> QED BY <3>3, BandIsSeverity
  <2> QED BY <2>4, <2>6, <2>7
<1> QED BY <1>1, <1>2

(* And nothing left, or less, is CRITICAL.                                 *)
LEMMA NothingLeftIsCritical ==
  ASSUME NEW bands, IsBands(bands), GradedBands(bands), NEW r \in Int, r <= 0
  PROVE  Band(r, bands) = "CRITICAL"
<1>1. Band(0, bands) = "CRITICAL"
  BY DEF GradedBands
<1>2. BandRank(0, bands) = 3
  BY <1>1 DEF BandRank, SeverityRank
<1>3. BandRank(r, bands) >= 3
  BY <1>2, GradedNeverEases, 0 \in Int
<1> QED BY <1>3, BandIsSeverity

-----------------------------------------------------------------------------
(* What is given from outside when a clock is computed.                    *)
Given == notice \in Notice /\ extension \in Dates \cup {None} /\ today \in Int

(* calendar_for never returns a calendar without a version.                *)
LEMMA CalendarIsTyped ==
  ASSUME NEW p, IsPolicy(p)
  PROVE  IsCalendar(Calendar(p)) /\ Calendar(p).version # ""
<1>1. CASE notice.about[3] \in DOMAIN p.calendars
  BY <1>1 DEF Calendar, CalendarFor, IsPolicy
<1>2. CASE notice.about[3] \notin DOMAIN p.calendars
  <2>1. Calendar(p).version = "unconfigured" /\ Calendar(p).holidays = {}
    BY <1>2 DEF Calendar, CalendarFor
  <2>2. "unconfigured" # ""
    OBVIOUS
  <2>3. IsFiniteSet({})
    BY FS_EmptySet
  <2>4. Calendar(p).version # ""
    BY <2>1, <2>2
  <2>5. Calendar(p).holidays \subseteq Int /\ IsFiniteSet(Calendar(p).holidays)
    BY <2>1, <2>3
  <2> QED BY <2>4, <2>5 DEF IsCalendar
<1> QED BY <1>1, <1>2

(* On a calendar without a business day only counts of zero are computed.  *)
LEMMA ComputableCounts ==
  ASSUME NEW p, Computable(p), ~HasBusinessDays(Calendar(p))
  PROVE  /\ AtLeastZero(p.review_buffer_business_days) = 0
         /\ AtLeastZero(p.extension_notice_business_days) = 0
         /\ StatedDue = None => Window(p) = 0
         /\ ~Regime(p).calendarDays => AtLeastZero(Regime(p).fixed) = 0
BY DEF Computable, HasBusinessDays

(* Where the clock does not raise, every date it compares is a day.        *)
LEMMA DueIsADay ==
  ASSUME Given, NEW p, IsPolicy(p), Computable(p), NEW e \in BOOLEAN
  PROVE  /\ BaseDue(p).due \in Int
         /\ Regime(p).fixed > 0 => RegimeDue(p) \in Int
         /\ CappedDue(p).due \in Int
         /\ FinalDue(p, e).due \in Int
<1> DEFINE cal == Calendar(p)
<1>0. notice.received = 0 /\ StatedDue \in Dates \cup {None} /\ Dates \subseteq Int
  BY ClockAssumption DEF Given, Notice, StatedDue
<1>1. IsCalendar(cal)
  BY CalendarIsTyped
<1>2. BaseDue(p).due \in Int
  <2>1. CASE StatedDue # None
    BY <1>0, <2>1 DEF BaseDue
  <2>2. CASE StatedDue = None
    <3>1. HasWindow(p)
      BY <2>2 DEF Computable
    <3>2. Window(p) \in Int
      BY <3>1 DEF HasWindow, Window, IsPolicy
    <3>3. HasBusinessDays(cal) \/ Window(p) = 0
      BY <2>2, ComputableCounts
    <3>4. AddBusinessDays(notice.received, Window(p), cal) \in Int
      BY <1>0, <1>1, <3>2, <3>3, AddIsADay
    <3> QED BY <2>2, <3>4 DEF BaseDue
  <2> QED BY <2>1, <2>2
<1>3. Regime(p).fixed \in Int /\ Regime(p).calendarDays \in BOOLEAN
  <2>1. CASE notice.about[2] \in DOMAIN p.regime_register
    BY <2>1 DEF Regime, IsPolicy
  <2>2. CASE notice.about[2] \notin DOMAIN p.regime_register
    BY <2>2 DEF Regime, Unscheduled
  <2> QED BY <2>1, <2>2
<1>4. Regime(p).fixed > 0 => RegimeDue(p) \in Int
  <2> SUFFICES ASSUME Regime(p).fixed > 0 PROVE RegimeDue(p) \in Int
    OBVIOUS
  <2>1. CASE Regime(p).calendarDays
    BY <1>0, <1>3, <2>1 DEF RegimeDue
  <2>2. CASE ~Regime(p).calendarDays
    <3>1. HasBusinessDays(cal)
      <4>1. AtLeastZero(Regime(p).fixed) # 0
        BY <1>3 DEF AtLeastZero
      <4> QED BY <2>2, <4>1, ComputableCounts
    <3>2. AddBusinessDays(notice.received, Regime(p).fixed, cal) \in Int
      BY <1>0, <1>1, <1>3, <3>1, AddIsADay
    <3> QED BY <2>2, <3>2 DEF RegimeDue
  <2> QED BY <2>1, <2>2
<1>5. CappedDue(p).due \in Int
  BY <1>2, <1>4 DEF CappedDue
<1>6. FinalDue(p, e).due \in Int
  BY <1>5, <1>0 DEF FinalDue, Given
<1> QED BY <1>2, <1>4, <1>5, <1>6

(* The fields of a clock, by the functions they come from.                 *)
LEMMA ClockFields ==
  ASSUME NEW t, NEW p, NEW e
  PROVE  LET k == ComputeClock(t, p, e)
         IN  /\ k.due = FinalDue(p, e).due /\ k.basis = FinalDue(p, e).basis
             /\ k.original = FinalDue(p, e).original
             /\ k.internal =
                  SubtractBusinessDays(k.due, p.review_buffer_business_days, Calendar(p))
             /\ k.extensionBy =
                  SubtractBusinessDays(k.due, p.extension_notice_business_days, Calendar(p))
             /\ k.remaining = BusinessDaysBetween(t, k.internal, Calendar(p))
             /\ k.band = Band(k.remaining, p.sla_bands)
             /\ k.breached = (t > k.due)
             /\ k.version = Calendar(p).version
BY DEF ComputeClock

(* The internal date and the extension-by date are their buffers ahead.    *)
LEMMA BufferCounts ==
  ASSUME Given, NEW p, IsPolicy(p), Computable(p), NEW e \in BOOLEAN, NEW t \in Int
  PROVE  LET k == ComputeClock(t, p, e)
         IN  /\ k.due \in Int /\ k.internal \in Int /\ k.extensionBy \in Int
             /\ k.internal <= k.due /\ k.extensionBy <= k.due
             /\ Cardinality(Business(k.internal..(k.due - 1), Calendar(p)))
                  = AtLeastZero(p.review_buffer_business_days)
             /\ p.review_buffer_business_days > 0 => IsBusinessDay(k.internal, Calendar(p))
             /\ Cardinality(Business(k.extensionBy..(k.due - 1), Calendar(p)))
                  = AtLeastZero(p.extension_notice_business_days)
<1> DEFINE k == ComputeClock(t, p, e)
<1>1. /\ k.due = FinalDue(p, e).due
      /\ k.internal = SubtractBusinessDays(k.due, p.review_buffer_business_days, Calendar(p))
      /\ k.extensionBy =
           SubtractBusinessDays(k.due, p.extension_notice_business_days, Calendar(p))
  BY ClockFields
<1> HIDE DEF k
<1>2. k.due \in Int
  BY <1>1, DueIsADay
<1>3. /\ p.review_buffer_business_days \in Int /\ p.extension_notice_business_days \in Int
  BY DEF IsPolicy
<1>4. /\ HasBusinessDays(Calendar(p)) \/ AtLeastZero(p.review_buffer_business_days) = 0
      /\ HasBusinessDays(Calendar(p)) \/ AtLeastZero(p.extension_notice_business_days) = 0
  BY ComputableCounts
<1>5. IsCalendar(Calendar(p))
  BY CalendarIsTyped
<1>6. /\ k.internal \in Int /\ k.internal <= k.due
      /\ Cardinality(Business(k.internal..(k.due - 1), Calendar(p)))
           = AtLeastZero(p.review_buffer_business_days)
  BY <1>1, <1>2, <1>3, <1>4, <1>5, SubtractCounts
<1>7. /\ k.extensionBy \in Int /\ k.extensionBy <= k.due
      /\ Cardinality(Business(k.extensionBy..(k.due - 1), Calendar(p)))
           = AtLeastZero(p.extension_notice_business_days)
  BY <1>1, <1>2, <1>3, <1>4, <1>5, SubtractCounts
<1>8. p.review_buffer_business_days > 0 => IsBusinessDay(k.internal, Calendar(p))
  <2> SUFFICES ASSUME p.review_buffer_business_days > 0
               PROVE  IsBusinessDay(k.internal, Calendar(p))
    OBVIOUS
  <2>1. AtLeastZero(p.review_buffer_business_days) # 0
    BY <1>3 DEF AtLeastZero
  <2>2. HasBusinessDays(Calendar(p))
    BY <1>4, <2>1
  <2> QED BY <1>1, <1>2, <1>3, <1>5, <2>2, SubtractLands
<1> QED BY <1>2, <1>6, <1>7, <1>8 DEF k

-----------------------------------------------------------------------------
(* The clock at hand is what compute_clock gave on some day up to today,   *)
(* under the policy and with or without the record it was then computed    *)
(* with. It says nothing of the policy now deployed, which may be another. *)
ClockInv ==
  /\ policy \in Policies
  /\ notice \in Notice
  /\ extension \in Dates \cup {None}
  /\ today \in 0..LastDay
  /\ clock # None =>
       \E t \in 0..today, p \in Policies, e \in BOOLEAN :
         /\ seen.policy = p /\ seen.extended = e
         /\ e => extension # None
         /\ seen.surface = "api" => notice.about[3] \in DOMAIN p.calendars
         /\ Computable(p)
         /\ clock = ComputeClock(t, p, e)

(* The service is only ever deployed with such policies.                   *)
LEMMA PoliciesAreTyped ==
  ASSUME NEW p \in Policies PROVE IsPolicy(p)
BY PolicyIsTyped DEF Policies

(* The notice and the record decide everything but the day and the policy. *)
LEMMA SameQuestion ==
  ASSUME UNCHANGED <<notice, extension>>, NEW t, NEW p, NEW e
  PROVE  /\ ComputeClock(t, p, e)' = ComputeClock(t, p, e)
         /\ Computable(p)' = Computable(p)
         /\ FinalDue(p, e)' = FinalDue(p, e)
<1>1. StatedDue' = StatedDue
  BY DEF StatedDue
<1>2. Calendar(p)' = Calendar(p)
  BY DEF Calendar
<1>3. Window(p)' = Window(p) /\ HasWindow(p)' = HasWindow(p)
  BY DEF Window, HasWindow
<1>4. Regime(p)' = Regime(p)
  BY DEF Regime
<1>5. BaseDue(p)' = BaseDue(p)
  BY <1>1, <1>2, <1>3 DEF BaseDue
<1>6. RegimeDue(p)' = RegimeDue(p)
  BY <1>2, <1>4 DEF RegimeDue
<1>7. CappedDue(p)' = CappedDue(p)
  BY <1>4, <1>5, <1>6 DEF CappedDue
<1>8. FinalDue(p, e)' = FinalDue(p, e)
  BY <1>7 DEF FinalDue
<1>9. ComputeClock(t, p, e)' = ComputeClock(t, p, e)
  BY <1>2, <1>8 DEF ComputeClock
<1>10. Computable(p)' = Computable(p)
  BY <1>1, <1>2, <1>3, <1>4 DEF Computable
<1> QED BY <1>8, <1>9, <1>10

(* It holds when the process starts, where nothing is computed yet.        *)
LEMMA InitHolds ==
  Init => ClockInv
BY ClockAssumption DEF Init, ClockInv

(* And every step keeps it: an assessment computes a clock today, and the  *)
(* others leave notice, record and clock alone.                            *)
LEMMA StepHolds ==
  ClockInv /\ [Next]_vars => ClockInv'
<1> SUFFICES ASSUME ClockInv, [Next]_vars PROVE ClockInv'
  OBVIOUS
<1>0. LastDay \in Nat
  BY ClockAssumption
<1>1. CASE Assess
  <2>1. PICK surface \in Surface, cites \in BOOLEAN :
          /\ Admitted(surface) /\ Computable(policy)
          /\ clock' = ComputeClock(today, policy, cites)
          /\ seen' = [policy |-> policy, extended |-> cites /\ extension # None,
                      surface |-> surface]
          /\ UNCHANGED <<policy, notice, extension, today>>
    BY <1>1 DEF Assess
  <2>2. PICK p \in Policies, t \in 0..today, e \in BOOLEAN :
          p = policy /\ t = today /\ e = (cites /\ extension # None)
    <3>1. policy \in Policies /\ today \in 0..today
      BY <1>0 DEF ClockInv
    <3>2. (cites /\ extension # None) \in BOOLEAN
      OBVIOUS
    <3> QED BY <3>1, <3>2
  <2>3. ComputeClock(today, policy, cites) = ComputeClock(t, p, e)
    <3>1. FinalDue(policy, cites) = FinalDue(p, e)
      BY <2>2 DEF FinalDue
    <3> QED BY <2>2, <3>1 DEF ComputeClock
  <2>4. clock' = ComputeClock(t, p, e)'
    BY <2>1, <2>3, SameQuestion
  <2>5. Computable(p)'
    BY <2>1, <2>2, SameQuestion
  <2>6. seen'.policy = p /\ seen'.extended = e /\ seen'.surface = surface
    BY <2>1, <2>2
  <2>7. surface = "api" => notice'.about[3] \in DOMAIN p.calendars
    BY <2>1, <2>2 DEF Admitted
  <2>8. e => extension' # None
    BY <2>1, <2>2
  <2>9. t \in 0..today'
    BY <2>1, <2>2
  <2> QED BY <2>1, <2>4, <2>5, <2>6, <2>7, <2>8, <2>9 DEF ClockInv
<1>2. ASSUME UNCHANGED <<notice, extension, clock, seen>>,
             policy' \in Policies, today' \in 0..LastDay, today <= today'
      PROVE  ClockInv'
  <2>1. CASE clock = None
    BY <1>2, <2>1 DEF ClockInv
  <2>2. CASE clock # None
    <3>1. PICK t \in 0..today, p \in Policies, e \in BOOLEAN :
            /\ seen.policy = p /\ seen.extended = e
            /\ e => extension # None
            /\ seen.surface = "api" => notice.about[3] \in DOMAIN p.calendars
            /\ Computable(p)
            /\ clock = ComputeClock(t, p, e)
      BY <2>2 DEF ClockInv
    <3>2. clock' = ComputeClock(t, p, e)' /\ Computable(p)'
      BY <1>2, <3>1, SameQuestion
    <3>3. t \in 0..today'
      BY <1>2 DEF ClockInv
    <3> QED BY <1>2, <3>1, <3>2, <3>3 DEF ClockInv
  <2> QED BY <2>1, <2>2
<1>3. CASE AssessRaises
  BY <1>0, <1>2, <1>3 DEF AssessRaises, vars, ClockInv
<1>4. CASE NextDay
  BY <1>0, <1>2, <1>4 DEF NextDay, ClockInv
<1>5. CASE Redeploy
  BY <1>0, <1>2, <1>5 DEF Redeploy, ClockInv
<1>6. CASE UNCHANGED vars
  BY <1>0, <1>2, <1>6 DEF vars, ClockInv
<1> QED BY <1>1, <1>3, <1>4, <1>5, <1>6 DEF Next

(* The clock is always one compute_clock gave, of the policy it was        *)
(* computed with.                                                          *)
THEOREM SpecImpliesClockInv ==
  Spec => []ClockInv
BY InitHolds, StepHolds, PTL DEF Spec

-----------------------------------------------------------------------------
(* The four invariants, each from how such a clock was computed.           *)
LEMMA InvGivesBuffer == ClockInv => BufferKept
<1> SUFFICES ASSUME ClockInv, clock # None
             PROVE  /\ clock.internal <= clock.due /\ clock.extensionBy <= clock.due
                    /\ BusinessDays(clock.internal..(clock.due - 1)) =
                         AtLeastZero(seen.policy.review_buffer_business_days)
                    /\ seen.policy.review_buffer_business_days > 0 =>
                         IsBusinessDay(clock.internal, Calendar(seen.policy))
                    /\ BusinessDays(clock.extensionBy..(clock.due - 1)) =
                         AtLeastZero(seen.policy.extension_notice_business_days)
  BY DEF BufferKept
<1>1. PICK t \in 0..today, p \in Policies, e \in BOOLEAN :
        seen.policy = p /\ Computable(p) /\ clock = ComputeClock(t, p, e)
  BY DEF ClockInv
<1>2. Given /\ t \in Int /\ IsPolicy(p)
  BY PoliciesAreTyped DEF Given, ClockInv
<1>3. \A S : BusinessDays(S) = Cardinality(Business(S, Calendar(p)))
  BY <1>1 DEF BusinessDays, Business
<1> QED BY <1>1, <1>2, <1>3, BufferCounts

LEMMA InvGivesBreach == ClockInv => BreachIsCritical
<1> SUFFICES ASSUME ClockInv, clock # None
             PROVE  clock.breached =>
                      /\ GradedBands(seen.policy.sla_bands) => clock.band = "CRITICAL"
                      /\ clock.remaining <= 0 /\ today > clock.due
  BY DEF BreachIsCritical
<1>1. PICK t \in 0..today, p \in Policies, e \in BOOLEAN :
        seen.policy = p /\ Computable(p) /\ clock = ComputeClock(t, p, e)
  BY DEF ClockInv
<1>2. Given /\ t \in Int /\ today \in Int /\ t <= today /\ t <= t /\ IsPolicy(p)
  BY PoliciesAreTyped DEF Given, ClockInv
<1>3. clock.due \in Int /\ clock.internal \in Int /\ clock.internal <= clock.due
  BY <1>1, <1>2, BufferCounts
<1>4. /\ clock.breached = (t > clock.due)
      /\ clock.remaining = BusinessDaysBetween(t, clock.internal, Calendar(p))
      /\ clock.band = Band(clock.remaining, p.sla_bands)
  BY <1>1, ClockFields
<1>5. clock.remaining \in Int /\ (clock.internal <= t => clock.remaining <= 0)
  BY <1>2, <1>3, <1>4, BetweenFalls
<1>6. IsBands(p.sla_bands)
  BY <1>2 DEF IsPolicy, IsBands
<1>7. clock.remaining <= 0 /\ GradedBands(p.sla_bands) => clock.band = "CRITICAL"
  BY <1>4, <1>5, <1>6, NothingLeftIsCritical
<1>8. clock.breached => t > clock.due
  BY <1>4, Zenon
<1>9. t > clock.due => clock.internal <= t /\ today > clock.due
  BY <1>2, <1>3
<1> QED BY <1>1, <1>5, <1>7, <1>8, <1>9

LEMMA InvGivesRecord == ClockInv => OnlyARecordExtends
<1> SUFFICES ASSUME ClockInv, clock # None
             PROVE  /\ clock.basis # "extension" =>
                         /\ StatedDue # None => clock.due <= StatedDue
                         /\ Regime(seen.policy).fixed > 0 => clock.due <= RegimeDue(seen.policy)
                         /\ clock.original = None
                    /\ clock.basis = "extension" =>
                         /\ clock.due = extension
                         /\ StatedDue # None => clock.original <= StatedDue
  BY DEF OnlyARecordExtends
<1>1. PICK t \in 0..today, p \in Policies, e \in BOOLEAN :
        /\ seen.policy = p /\ Computable(p) /\ clock = ComputeClock(t, p, e)
  BY DEF ClockInv
<1>2. Given /\ IsPolicy(p)
  BY PoliciesAreTyped DEF Given, ClockInv
<1>3. /\ clock.due = FinalDue(p, e).due /\ clock.basis = FinalDue(p, e).basis
      /\ clock.original = FinalDue(p, e).original
  BY <1>1, ClockFields
<1>4. /\ BaseDue(p).due \in Int
      /\ Regime(p).fixed > 0 => RegimeDue(p) \in Int
      /\ CappedDue(p).due \in Int
  BY <1>1, <1>2, DueIsADay
<1>5. /\ CappedDue(p).due <= BaseDue(p).due
      /\ Regime(p).fixed > 0 => CappedDue(p).due <= RegimeDue(p)
  BY <1>4 DEF CappedDue
<1>6. StatedDue # None => BaseDue(p).due = StatedDue
  BY DEF BaseDue
<1>7. CappedDue(p).basis # "extension"
  BY DEF CappedDue, BaseDue
<1>8. CASE e /\ extension # None
  <2>1. /\ clock.due = extension /\ clock.basis = "extension"
        /\ clock.original = CappedDue(p).due
    BY <1>3, <1>8 DEF FinalDue
  <2> QED BY <1>5, <1>6, <2>1
<1>9. CASE ~(e /\ extension # None)
  <2>1. /\ clock.due = CappedDue(p).due /\ clock.basis = CappedDue(p).basis
        /\ clock.original = None
    BY <1>3, <1>9 DEF FinalDue
  <2> QED BY <1>1, <1>5, <1>6, <1>7, <2>1
<1> QED BY <1>8, <1>9

LEMMA InvGivesCalendar == ClockInv => ClockNamesItsCalendar
<1> SUFFICES ASSUME ClockInv, clock # None
             PROVE  /\ clock.version # ""
                    /\ notice.about[3] \notin DOMAIN seen.policy.calendars =>
                         clock.version = "unconfigured" /\ seen.surface # "api"
  BY DEF ClockNamesItsCalendar
<1>1. PICK t \in 0..today, p \in Policies, e \in BOOLEAN :
        /\ seen.policy = p /\ clock = ComputeClock(t, p, e)
        /\ seen.surface = "api" => notice.about[3] \in DOMAIN p.calendars
  BY DEF ClockInv
<1>2. clock.version = Calendar(p).version
  BY <1>1, ClockFields
<1>3. Calendar(p).version # ""
  BY PoliciesAreTyped, CalendarIsTyped
<1>4. notice.about[3] \notin DOMAIN p.calendars => Calendar(p).version = "unconfigured"
  BY DEF Calendar, CalendarFor
<1> QED BY <1>1, <1>2, <1>3, <1>4

(* Whatever the file, the dates and the calendar, the checkers have the    *)
(* buffer the policy in force said, counted in days on which somebody      *)
(* works.                                                                  *)
THEOREM BufferAlwaysKept ==
  Spec => []BufferKept
BY SpecImpliesClockInv, InvGivesBuffer, PTL

(* A reported breach is real on every later day, has no day remaining, and *)
(* is CRITICAL under graded bands, for any bands of any file.              *)
THEOREM BreachAlwaysCritical ==
  Spec => []BreachIsCritical
BY SpecImpliesClockInv, InvGivesBreach, PTL

(* Whatever is combined, a date moves out only by a stored extension.      *)
THEOREM OnlyARecordEverExtends ==
  Spec => []OnlyARecordExtends
BY SpecImpliesClockInv, InvGivesRecord, PTL

(* Every clock names the version of the calendar it was counted on; one    *)
(* without a calendar was never asked for over the API.                    *)
THEOREM ClockAlwaysNamesItsCalendar ==
  Spec => []ClockNamesItsCalendar
BY SpecImpliesClockInv, InvGivesCalendar, PTL

-----------------------------------------------------------------------------
(* What NeverEases says of a step.                                         *)
Eases ==
  clock # None /\ seen'.policy = seen.policy /\ seen'.extended = seen.extended =>
    /\ clock'.remaining <= clock.remaining
    /\ GradedBands(seen.policy.sla_bands) =>
         SeverityRank[clock'.band] >= SeverityRank[clock.band]
    /\ clock.breached => clock'.breached
    /\ clock'.due = clock.due

(* A later day leaves no more days, and a band no better.                  *)
LEMMA StepNeverEases ==
  ClockInv /\ [Next]_vars => [Eases]_vars
<1> SUFFICES ASSUME ClockInv, [Next]_vars, clock # None,
                    seen'.policy = seen.policy, seen'.extended = seen.extended
             PROVE  /\ clock'.remaining <= clock.remaining
                    /\ GradedBands(seen.policy.sla_bands) =>
                         SeverityRank[clock'.band] >= SeverityRank[clock.band]
                    /\ clock.breached => clock'.breached
                    /\ clock'.due = clock.due
  BY DEF Eases
<1>1. PICK t \in 0..today, p \in Policies, e \in BOOLEAN :
        /\ seen.policy = p /\ seen.extended = e
        /\ e => extension # None
        /\ Computable(p) /\ clock = ComputeClock(t, p, e)
  BY DEF ClockInv
<1>2. Given /\ t \in Int /\ today \in Int /\ t <= today /\ IsPolicy(p)
  BY PoliciesAreTyped DEF Given, ClockInv
<1>3. /\ clock.remaining = BusinessDaysBetween(t, clock.internal, Calendar(p))
      /\ clock.internal =
           SubtractBusinessDays(clock.due, p.review_buffer_business_days, Calendar(p))
      /\ clock.band = Band(clock.remaining, p.sla_bands)
      /\ clock.breached = (t > clock.due)
      /\ clock.due = FinalDue(p, e).due
  BY <1>1, ClockFields
<1>4. clock.due \in Int /\ clock.internal \in Int
  BY <1>1, <1>2, BufferCounts
<1>5. PICK u \in Int : /\ t <= u
                       /\ clock' = ComputeClock(u, p, e)
  <2>1. CASE clock' = clock
    BY <1>1, <1>2, <2>1
  <2>2. CASE Assess
    <3>1. PICK surface \in Surface, cites \in BOOLEAN :
            /\ clock' = ComputeClock(today, policy, cites)
            /\ seen' = [policy |-> policy, extended |-> cites /\ extension # None,
                        surface |-> surface]
      BY <2>2 DEF Assess
    <3>2. policy = p /\ e = (cites /\ extension # None)
      BY <1>1, <3>1
    <3>3. FinalDue(policy, cites) = FinalDue(p, e)
      BY <3>2 DEF FinalDue
    <3>4. ComputeClock(today, policy, cites) = ComputeClock(today, p, e)
      BY <3>2, <3>3 DEF ComputeClock
    <3> QED BY <1>2, <3>1, <3>4
  <2> QED BY <2>1, <2>2 DEF Next, AssessRaises, NextDay, Redeploy, vars
<1>6. /\ clock'.remaining = BusinessDaysBetween(u, clock'.internal, Calendar(p))
      /\ clock'.internal =
           SubtractBusinessDays(clock'.due, p.review_buffer_business_days, Calendar(p))
      /\ clock'.band = Band(clock'.remaining, p.sla_bands)
      /\ clock'.breached = (u > clock'.due)
      /\ clock'.due = FinalDue(p, e).due
  BY <1>5, ClockFields
<1>7. clock'.due = clock.due /\ clock'.internal = clock.internal
  BY <1>3, <1>6
<1>8. /\ clock'.remaining \in Int /\ clock.remaining \in Int
      /\ clock'.remaining <= clock.remaining
  <2>1. BusinessDaysBetween(t, clock.internal, Calendar(p)) \in Int
    BY <1>2, <1>4, BetweenFalls
  <2> QED BY <1>2, <1>3, <1>4, <1>5, <1>6, <1>7, <2>1, BetweenFalls
<1>9. clock.breached => clock'.breached
  BY <1>2, <1>3, <1>4, <1>5, <1>6, <1>7
<1>10. IsBands(p.sla_bands)
  BY <1>2 DEF IsPolicy, IsBands
<1>11. GradedBands(p.sla_bands) => SeverityRank[clock'.band] >= SeverityRank[clock.band]
  BY <1>3, <1>6, <1>8, <1>10, GradedNeverEases DEF BandRank
<1> QED BY <1>1, <1>7, <1>8, <1>9, <1>11

(* Under one policy and one record time only makes a deadline worse, over  *)
(* any number of days, assessments and redeployments.                      *)
THEOREM ClockNeverEases ==
  Spec => NeverEases
<1>1. Spec => [][Eases]_vars
  BY SpecImpliesClockInv, StepNeverEases, PTL DEF Spec
<1> QED BY <1>1 DEF NeverEases, Eases
=============================================================================
