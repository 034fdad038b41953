-------------------------- MODULE DaySummaryProofs --------------------------
(***************************************************************************)
(* What holds of DayPlan for every day length and every plan made of       *)
(* shifts the serializer accepts, and of DaySummary for every roster and   *)
(* every set of instants.                                                  *)
(***************************************************************************)
EXTENDS DaySummary, FiniteSetTheorems, SequenceTheorems, WellFoundedInduction, TLAPS

----------------------------------------------------------------------------
(* The work date rule of DayPlan.                                          *)

\* An instant lies between the midnights of its date.
LEMMA DateBounds ==
  ASSUME NEW t \in Int
  PROVE  /\ DateOf(t) \in Int
         /\ Midnight(DateOf(t)) <= t
         /\ t < Midnight(DateOf(t) + 1)
BY DayLengthAssumption DEF DateOf, Midnight

LEMMA MidnightsAdvance ==
  ASSUME NEW c \in Int, NEW d \in Int, c <= d
  PROVE  Midnight(c) \in Int /\ Midnight(d) \in Int /\ Midnight(c) <= Midnight(d)
BY DayLengthAssumption DEF Midnight

LEMMA DatesAdvance ==
  ASSUME NEW earlier \in Int, NEW later \in Int, earlier <= later
  PROVE  DateOf(earlier) <= DateOf(later)
<1>1. SUFFICES ASSUME DateOf(later) < DateOf(earlier) PROVE FALSE
  BY DateBounds
<1>2. DateOf(later) + 1 <= DateOf(earlier)
  BY <1>1, DateBounds
<1>3. Midnight(DateOf(later) + 1) <= Midnight(DateOf(earlier))
  BY <1>2, DateBounds, MidnightsAdvance
<1>4. /\ Midnight(DateOf(later) + 1) \in Int /\ Midnight(DateOf(earlier)) \in Int
      /\ Midnight(DateOf(earlier)) <= earlier /\ later < Midnight(DateOf(later) + 1)
  BY DateBounds, MidnightsAdvance
<1> QED BY <1>3, <1>4

\* The punch window of a date is never empty: an overnight shift's end rolls
\* to the next day.
LEMMA WindowOpens ==
  ASSUME NEW s \in Snapshots, NEW d \in Int
  PROVE  /\ WindowStart(s, d) \in Int
         /\ WindowEnd(s, d) \in Int
         /\ WindowStart(s, d) < WindowEnd(s, d)
<1>1. /\ Midnight(d) \in Int /\ Midnight(d + 1) \in Int /\ DayLength \in Nat \ {0}
      /\ Midnight(d + 1) = Midnight(d) + DayLength
  BY DayLengthAssumption DEF Midnight
<1>2. CASE s = NoShift
  BY <1>1, <1>2 DEF WindowStart, WindowEnd
<1>3. CASE s # NoShift
  <2>1. /\ s.start \in 0 .. DayLength - 1 /\ s.end \in 0 .. DayLength - 1
        /\ s.before \in Nat /\ s.after \in Nat
    BY <1>3, ShiftsAssumption DEF Snapshots
  <2>2. CASE IsOvernight(s)
    BY <1>1, <1>3, <2>1, <2>2 DEF WindowStart, WindowEnd, StartDt, EndDt
  <2>3. CASE ~IsOvernight(s)
    BY <1>1, <1>3, <2>1, <2>3 DEF WindowStart, WindowEnd, StartDt, EndDt, IsOvernight
  <2> QED BY <2>2, <2>3
<1> QED BY <1>2, <1>3

\* Time only moves punches forward: the work date of a later instant is not an
\* earlier one, whatever shifts the dates around the two instants have.
THEOREM WorkDateMonotone ==
  ASSUME NEW lo \in Int, NEW hi \in Int, NEW plan \in [lo .. hi -> Snapshots],
         NEW earlier \in Int, NEW later \in Int, earlier <= later,
         lo < DateOf(earlier), DateOf(later) < hi
  PROVE  WorkDateFor(plan, earlier) <= WorkDateFor(plan, later)
<1> DEFINE e == DateOf(earlier)
           l == DateOf(later)
<1>1. e \in Int /\ l \in Int /\ e <= l
  BY DateBounds, DatesAdvance
<1>2. /\ WorkDateFor(plan, earlier) \in {e - 1, e, e + 1}
      /\ WorkDateFor(plan, later) \in {l - 1, l, l + 1}
  BY DEF WorkDateFor
<1>3. \A d \in {e - 1, e, e + 1, l - 1, l, l + 1} :
         /\ WindowStart(plan[d], d) \in Int /\ WindowEnd(plan[d], d) \in Int
         /\ WindowStart(plan[d], d) < WindowEnd(plan[d], d)
  <2>1. \A d \in {e - 1, e, e + 1, l - 1, l, l + 1} : d \in Int /\ plan[d] \in Snapshots
    BY <1>1
  <2> QED BY <2>1, WindowOpens
\* The same calendar day: both instants are compared with the same windows.
<1>4. CASE e = l
  BY SMTT(30), <1>1, <1>3, <1>4 DEF WorkDateFor
\* Adjacent days: only the date after e can be passed over for e itself, and
\* its window cannot have opened before the one and not yet at the other.
<1>5. CASE l = e + 1
  <2>1. CASE WorkDateFor(plan, earlier) = e + 1 /\ WorkDateFor(plan, later) = l - 1
    <3>1. earlier >= WindowStart(plan[l], l)
      BY <1>1, <1>5, <2>1 DEF WorkDateFor
    <3>2. later < WindowStart(plan[l], l)
      BY <1>1, <1>5, <2>1 DEF WorkDateFor
    <3> QED BY <1>3, <3>1, <3>2
  <2>2. CASE ~(WorkDateFor(plan, earlier) = e + 1 /\ WorkDateFor(plan, later) = l - 1)
    BY <1>1, <1>2, <1>5, <2>2
  <2> QED BY <2>1, <2>2
<1>6. CASE l > e + 1
  BY <1>1, <1>2, <1>6
<1> QED BY <1>1, <1>4, <1>5, <1>6

----------------------------------------------------------------------------
(* The daily row.                                                          *)

\* The part of the type invariant the work dates depend on: the rules of the
\* date never change while it is followed.
ClockInv == roster \in Rosters /\ now \in Instants

LEMMA ClockInvInit == Init => ClockInv
BY DEF Init, ClockInv

LEMMA ClockInvNext == ClockInv /\ [Next]_vars => ClockInv'
<1>1. SUFFICES ASSUME ClockInv, [Next]_vars PROVE ClockInv'
  OBVIOUS
<1>2. CASE Tick
  BY <1>1, <1>2 DEF ClockInv, Tick, rules
<1>3. CASE Nightly
  BY <1>1, <1>3 DEF ClockInv, Nightly, rules
<1>4. ASSUME NEW time \in Instants, NEW kind \in Kinds, Punch(time, kind)
      PROVE  ClockInv'
  BY <1>1, <1>4 DEF ClockInv, Punch, rules
<1>5. CASE UNCHANGED vars
  BY <1>1, <1>5 DEF ClockInv, vars, rules
<1> QED BY <1>1, <1>2, <1>3, <1>4, <1>5 DEF Next

\* The plans of an instant's neighbours are among those of Near.
LEMMA NearEnough ==
  ASSUME NEW t \in Instants
  PROVE  t \in Int /\ DateOf(t) \in Int /\ Day - 2 < DateOf(t) /\ DateOf(t) < Day + 3
<1>1. /\ Day \in Int /\ DayLength \in Nat \ {0}
      /\ Midnight(Day - 1) \in Int /\ Midnight(Day + 3) \in Int
  BY DayAssumption, DayLengthAssumption DEF Midnight
<1>2. t \in Int /\ Midnight(Day - 1) <= t /\ t < Midnight(Day + 3)
  BY <1>1, ClockAssumption
<1>3. /\ DateOf(t) \in Int /\ Midnight(DateOf(t)) \in Int /\ Midnight(DateOf(t) + 1) \in Int
      /\ Midnight(DateOf(t)) <= t /\ t < Midnight(DateOf(t) + 1)
  BY <1>2, DateBounds, MidnightsAdvance
<1>4. Day - 2 < DateOf(t)
  <2>1. SUFFICES ASSUME DateOf(t) + 1 <= Day - 1 PROVE FALSE
    BY <1>1, <1>3
  <2>2. Midnight(DateOf(t) + 1) <= Midnight(Day - 1)
    BY <1>1, <1>3, <2>1, MidnightsAdvance
  <2> QED BY <1>1, <1>2, <1>3, <2>2
<1>5. DateOf(t) < Day + 3
  <2>1. SUFFICES ASSUME Day + 3 <= DateOf(t) PROVE FALSE
    BY <1>1, <1>3
  <2>2. Midnight(Day + 3) <= Midnight(DateOf(t))
    BY <1>1, <1>3, <2>1, MidnightsAdvance
  <2> QED BY <1>1, <1>2, <1>3, <2>2
<1> QED BY <1>2, <1>3, <1>4, <1>5

LEMMA ClockInvAdvances == ClockInv => WorkDatesAdvance
<1>1. SUFFICES ASSUME ClockInv, NEW earlier \in Instants, earlier <= now
               PROVE  WorkDateFor(roster, earlier) <= WorkDateFor(roster, now)
  BY DEF WorkDatesAdvance
<1>2. now \in Instants /\ roster \in [Day - 2 .. Day + 3 -> Snapshots]
  BY <1>1, DayAssumption DEF ClockInv, Near
<1>3. Day - 2 \in Int /\ Day + 3 \in Int
  BY DayAssumption
<1>4. earlier \in Int /\ now \in Int /\ Day - 2 < DateOf(earlier) /\ DateOf(now) < Day + 3
  BY <1>1, <1>2, NearEnough
<1> QED BY <1>1, <1>2, <1>3, <1>4, WorkDateMonotone

\* Of two instants the later one never belongs to an earlier work date
\* (DayPlanBL.work_date_for), for every roster and day length.
THEOREM WorkDatesAlwaysAdvance == Spec => []WorkDatesAdvance
<1>1. Spec => []ClockInv
  BY ClockInvInit, ClockInvNext, PTL DEF Spec
<1> QED BY <1>1, ClockInvAdvances, PTL

----------------------------------------------------------------------------
(* Folds over sequences.  A fold is unrolled into the function that maps   *)
(* each prefix to its result; what is true of every prefix follows because *)
(* < is well-founded on the naturals.  A lemma cannot be about any operator*)
(* a fold goes by, so each fold of DaySummary has the same three lemmas:   *)
(* the fold exists, it is what the definition says, these are its steps.   *)

\* Every set of naturals that is not empty has a least element: what induction is done with here.
LEMMA Least ==
  ASSUME NEW T \in SUBSET Nat, T # {}
  PROVE  \E n \in T : \A m \in T : n <= m
<1>. DEFINE Before == {pair \in Nat \X Nat : pair[1] < pair[2]}
<1>1. IsWellFoundedOn(Before, Nat)
  BY NatLessThanWellFounded DEF OpToRel
<1>2. PICK n \in T : \A m \in T : <<m, n>> \notin Before
  <2>. HIDE DEF Before
  <2>. QED
    BY <1>1, WFMin, Zenon
<1>3. ASSUME NEW m \in T
      PROVE  n <= m
  <2>1. m \in Nat /\ n \in Nat /\ ~ m < n
    BY <1>2
  <2>. QED
    BY <2>1
<1>. QED
  BY <1>3

\* Induction up to n.
LEMMA UpTo ==
  ASSUME NEW n \in Nat, NEW T, 0 \in T, \A k \in 0 .. n - 1 : k \in T => k + 1 \in T
  PROVE  \A k \in 0 .. n : k \in T
<1>. DEFINE Bad == {k \in 0 .. n : k \notin T}
<1>1. SUFFICES ASSUME Bad # {} PROVE FALSE
  OBVIOUS
<1>2. PICK k \in Bad : \A m \in Bad : k <= m
  <2>1. Bad \in SUBSET Nat
    OBVIOUS
  <2>. HIDE DEF Bad
  <2>. QED
    BY <1>1, <2>1, Least
<1>3. k # 0 /\ k \in 1 .. n /\ k - 1 \in 0 .. n - 1
  BY <1>2
<1>4. k - 1 \notin T
  BY <1>3
<1>5. k - 1 \in Bad
  BY <1>3, <1>4
<1>. QED
  BY <1>2, <1>3, <1>5

\* A set of numbers up to n that is not empty has a largest.
LEMMA LargestIn ==
  ASSUME NEW n \in Nat, NEW s \in SUBSET (1 .. n), s # {}
  PROVE  Max(s) \in s /\ \A y \in s : Max(s) >= y
<1>. DEFINE D == {m \in 0 .. n : \E x \in s : x = n - m}
<1>1. D # {} /\ D \in SUBSET Nat
  <2>1. PICK x \in s : TRUE
    OBVIOUS
  <2>2. PICK m : m = n - x
    OBVIOUS
  <2>3. m \in 0 .. n /\ x = n - m
    BY <2>1, <2>2
  <2>4. m \in D
    BY <2>1, <2>3
  <2>5. D \in SUBSET (0 .. n)
    OBVIOUS
  <2>. HIDE DEF D
  <2>. QED
    BY <2>4, <2>5
<1>2. PICK m \in D : \A j \in D : m <= j
  <2>. HIDE DEF D
  <2>. QED
    BY <1>1, Least
<1>3. PICK x \in s : x = n - m
  BY <1>2
<1>4. ASSUME NEW y \in s PROVE x >= y
  <2>1. n - y \in 0 .. n /\ y = n - (n - y)
    OBVIOUS
  <2>2. m <= n - y
    BY <1>2, <2>1
  <2>. QED
    BY <1>2, <1>3, <2>2
<1>5. \E z \in s : \A y \in s : z >= y
  BY <1>4
<1>. QED
  BY <1>5, Zenon DEF Max

\* The largest of a set of numbers up to k + 1 that has it.
LEMMA MaxUpTo ==
  ASSUME NEW k \in Nat, NEW s \in SUBSET (1 .. k + 1), k + 1 \in s
  PROVE  /\ Max(s) = k + 1
         /\ s \ {k + 1} \in SUBSET (1 .. k)
<1>1. \A x \in s : x \in Int /\ x <= k + 1
  OBVIOUS
<1>2. Max(s) \in s /\ \A y \in s : Max(s) >= y
  BY <1>1 DEF Max
<1>3. Max(s) = k + 1
  <2>1. PICK m : m = Max(s)
    OBVIOUS
  <2>2. m \in Int /\ m <= k + 1 /\ m >= k + 1
    BY <1>1, <1>2, <2>1
  <2>. QED
    BY <2>1, <2>2
<1>4. \A x \in s \ {k + 1} : x \in 1 .. k
  OBVIOUS
<1>. QED
  BY <1>3, <1>4

\* There is a fold of q by h, which maps each set of its indices to the result over them.
Folds(f, h, b, q, n) ==
  \A s \in SUBSET (1 .. n) : f[s] = IF s = {} THEN b ELSE h[<<f[s \ {Max(s)}], q[Max(s)]>>]

LEMMA FoldsExist ==
  ASSUME NEW A, NEW E, NEW h \in [A \X E -> A], NEW b \in A, NEW q \in Seq(E)
  PROVE  \E f \in [SUBSET (1 .. Len(q)) -> A] : Folds(f, h, b, q, Len(q))
<1>. DEFINE n == Len(q)
            T == {k \in 0 .. n : \E f \in [SUBSET (1 .. k) -> A] : Folds(f, h, b, q, k)}
<1>0. n \in Nat /\ \A i \in 1 .. n : q[i] \in E
  OBVIOUS
<1>. HIDE DEF n
<1>1. 0 \in T
  <2>1. PICK f : f = [s \in SUBSET (1 .. 0) |-> b]
    OBVIOUS
  <2>2. f \in [SUBSET (1 .. 0) -> A]
    BY <2>1
  <2>3. \A s \in SUBSET (1 .. 0) : s = {} /\ f[s] = b
    BY <2>1
  <2>4. Folds(f, h, b, q, 0)
    BY <2>3 DEF Folds
  <2>5. 0 \in 0 .. n
    BY <1>0
  <2>. QED
    BY <2>2, <2>4, <2>5
<1>2. ASSUME NEW k \in 0 .. n - 1, k \in T PROVE k + 1 \in T
  <2>1. PICK f \in [SUBSET (1 .. k) -> A] : Folds(f, h, b, q, k)
    BY <1>2
  <2>2. PICK g : g = [s \in SUBSET (1 .. k + 1) |->
                        IF k + 1 \in s THEN h[<<f[s \ {k + 1}], q[k + 1]>>] ELSE f[s]]
    OBVIOUS
  <2>3. k \in Nat /\ k + 1 \in 1 .. n /\ q[k + 1] \in E
    BY <1>0, <1>2
  <2>4. ASSUME NEW s \in SUBSET (1 .. k + 1), k + 1 \notin s
        PROVE  s \in SUBSET (1 .. k) /\ g[s] = f[s]
    BY <2>2, <2>3, <2>4
  <2>5. ASSUME NEW s \in SUBSET (1 .. k + 1), k + 1 \in s
        PROVE  /\ Max(s) = k + 1 /\ s \ {k + 1} \in SUBSET (1 .. k)
               /\ g[s] = h[<<f[s \ {k + 1}], q[k + 1]>>]
               /\ g[s \ {k + 1}] = f[s \ {k + 1}]
    BY <2>2, <2>3, <2>5, MaxUpTo
  <2>6. g \in [SUBSET (1 .. k + 1) -> A]
    <3>1. ASSUME NEW s \in SUBSET (1 .. k + 1) PROVE g[s] \in A
      <4>1. CASE k + 1 \in s
        <5>1. <<f[s \ {k + 1}], q[k + 1]>> \in A \X E
          BY <2>1, <2>3, <2>5, <4>1
        <5>. QED
          BY <2>5, <4>1, <5>1
      <4>2. CASE k + 1 \notin s
        BY <2>1, <2>4, <4>2
      <4>. QED
        BY <4>1, <4>2
    <3>. QED
      BY <2>2, <3>1
  <2>7. Folds(g, h, b, q, k + 1)
    <3>1. ASSUME NEW s \in SUBSET (1 .. k + 1)
          PROVE  g[s] = IF s = {} THEN b ELSE h[<<g[s \ {Max(s)}], q[Max(s)]>>]
      <4>1. CASE k + 1 \in s
        BY <2>5, <4>1
      <4>2. CASE k + 1 \notin s /\ s # {}
        <5>1. Max(s) \in s
          <6>1. k + 1 \in Nat
            BY <2>3
          <6>. QED
            BY <3>1, <4>2, <6>1, LargestIn
        <5>2. s \in SUBSET (1 .. k) /\ s \ {Max(s)} \in SUBSET (1 .. k) /\ k + 1 \notin s \ {Max(s)}
          BY <2>4, <4>2
        <5>3. g[s] = f[s] /\ g[s \ {Max(s)}] = f[s \ {Max(s)}]
          <6>1. s \ {Max(s)} \in SUBSET (1 .. k + 1)
            OBVIOUS
          <6>. QED
            BY <2>4, <4>2, <5>2, <6>1
        <5>. QED
          BY <2>1, <4>2, <5>2, <5>3 DEF Folds
      <4>3. CASE s = {}
        <5>1. s \in SUBSET (1 .. k) /\ g[s] = f[s]
          BY <2>4, <4>3
        <5>. QED
          BY <2>1, <4>3, <5>1 DEF Folds
      <4>. QED
        BY <4>1, <4>2, <4>3
    <3>. QED
      BY <3>1 DEF Folds
  <2>. QED
    BY <1>0, <2>3, <2>6, <2>7
<1>3. n \in T
  <2>1. \A k \in 0 .. n - 1 : k \in T => k + 1 \in T
    BY <1>2
  <2>. HIDE DEF T
  <2>2. \A k \in 0 .. n : k \in T
    BY <1>0, <1>1, <2>1, UpTo
  <2>. QED
    BY <1>0, <2>2
<1>. QED
  BY <1>3 DEF n

\* The prefixes of a sequence, as sets of indices.
LEMMA PrefixSets ==
  ASSUME NEW n \in Nat, NEW k \in 1 .. n
  PROVE  (1 .. k) \in SUBSET (1 .. n) /\ (1 .. (k - 1)) \in SUBSET (1 .. n) /\ (1 .. k) # {}
<1>1. k \in 1 .. k
  OBVIOUS
<1>. QED
  BY <1>1

LEMMA PrefixMax ==
  ASSUME NEW n \in Nat, NEW k \in 1 .. n
  PROVE  Max(1 .. k) = k
<1>1. PICK j \in Nat : j + 1 = k
  <2>1. k - 1 \in Nat /\ (k - 1) + 1 = k
    OBVIOUS
  <2>. QED
    BY <2>1
<1>2. j + 1 \in 1 .. j + 1 /\ (1 .. j + 1) \in SUBSET (1 .. j + 1)
  OBVIOUS
<1>3. Max(1 .. j + 1) = j + 1
  BY <1>2, MaxUpTo
<1>. QED
  BY <1>1, <1>3

LEMMA PrefixRest ==
  ASSUME NEW n \in Nat, NEW k \in 1 .. n
  PROVE  (1 .. k) \ {k} = 1 .. (k - 1)
<1>1. \A x : x \in (1 .. k) \ {k} <=> x \in 1 .. (k - 1)
  OBVIOUS
<1>. QED
  BY <1>1

\* f folds q by h wherever its results are in A.
FoldsWithin(A, f, h, b, q) ==
  /\ f[{}] = b
  /\ \A s \in SUBSET (1 .. Len(q)) :
       s # {} /\ f[s \ {Max(s)}] \in A => f[s] = h[<<f[s \ {Max(s)}], q[Max(s)]>>]

\* g is what the fold f of q by h has come to after each prefix of q.
StepsOf(g, A, f, h, b, q) ==
  /\ g \in [0 .. Len(q) -> A] /\ g[0] = b /\ g[Len(q)] = f[1 .. Len(q)]
  /\ \A k \in 1 .. Len(q) : g[k] = h[<<g[k - 1], q[k]>>]

\* A fold goes through the prefixes of its sequence.
LEMMA Unroll ==
  ASSUME NEW A, NEW E, NEW h \in [A \X E -> A], NEW b \in A, NEW q \in Seq(E), NEW f,
         FoldsWithin(A, f, h, b, q)
  PROVE  \E g : StepsOf(g, A, f, h, b, q)
<1>. DEFINE n == Len(q)
<1>1. n \in Nat /\ \A i \in 1 .. n : q[i] \in E
  OBVIOUS
<1>2. \A s \in SUBSET (1 .. n) :
        s # {} /\ f[s \ {Max(s)}] \in A => f[s] = h[<<f[s \ {Max(s)}], q[Max(s)]>>]
  BY DEF FoldsWithin
<1>. HIDE DEF n
<1>3. PICK g : g = [k \in 0 .. n |-> f[1 .. k]]
  OBVIOUS
<1>4. \A k \in 0 .. n : g[k] = f[1 .. k]
  BY <1>3
<1>5. g[0] = b
  <2>1. (1 .. 0) = {} /\ 0 \in 0 .. n
    BY <1>1
  <2>. QED
    BY <1>4, <2>1 DEF FoldsWithin
<1>6. ASSUME NEW k \in 1 .. n, g[k - 1] \in A
      PROVE  g[k] = h[<<g[k - 1], q[k]>>]
  <2>1. k \in 0 .. n /\ k - 1 \in 0 .. n
    BY <1>1
  <2>2. PICK s : s = 1 .. k
    OBVIOUS
  <2>3. s \in SUBSET (1 .. n) /\ s # {}
    BY <1>1, <2>2, PrefixSets
  <2>4. Max(s) = k /\ s \ {k} = 1 .. (k - 1)
    BY <1>1, <2>2, PrefixMax, PrefixRest
  <2>5. f[s \ {Max(s)}] \in A
    BY <1>4, <1>6, <2>1, <2>4
  <2>6. f[s] = h[<<f[s \ {Max(s)}], q[Max(s)]>>]
    BY <1>2, <2>3, <2>5
  <2>. QED
    BY <1>4, <2>1, <2>2, <2>4, <2>6
<1>7. \A k \in 0 .. n : g[k] \in A
  <2>. DEFINE T == {k \in 0 .. n : g[k] \in A}
  <2>1. 0 \in T
    BY <1>1, <1>5
  <2>2. ASSUME NEW k \in 0 .. n - 1, k \in T
        PROVE  k + 1 \in T
    <3>1. k + 1 \in 1 .. n /\ (k + 1) - 1 = k /\ k + 1 \in 0 .. n
      BY <1>1
    <3>2. g[k + 1] = h[<<g[k], q[k + 1]>>]
      BY <1>6, <2>2, <3>1
    <3>3. <<g[k], q[k + 1]>> \in A \X E
      BY <1>1, <2>2, <3>1
    <3>. QED
      BY <3>1, <3>2, <3>3
  <2>. HIDE DEF T
  <2>3. \A k \in 0 .. n : k \in T
    BY <1>1, <2>1, <2>2, UpTo
  <2>. QED
    BY <2>3 DEF T
<1>8. ASSUME NEW k \in 1 .. n
      PROVE  g[k - 1] \in A
  <2>1. k - 1 \in 0 .. n
    BY <1>1
  <2>. QED
    BY <1>7, <2>1
<1>9. g[n] = f[1 .. n]
  <2>1. n \in 0 .. n
    BY <1>1
  <2>. QED
    BY <1>4, <2>1
<1>10. g \in [0 .. n -> A]
  BY <1>3, <1>7
<1>11. \A k \in 1 .. n : g[k] = h[<<g[k - 1], q[k]>>]
  BY <1>6, <1>8
<1>. QED
  BY <1>5, <1>9, <1>10, <1>11 DEF n, StepsOf

\* Punches, and sessions of them.
Event == [time : Instants, kind : Kinds]
Ending == Event \cup {NoEvent}
Paired == [in : Ending, out : Ending]
Pairing == [done : Seq(Paired), open : Ending]

\* What accepting does with the next punch.
Accept(acc, e) == IF acc # <<>> /\ Repeats(e, Last(acc)) THEN acc ELSE Append(acc, e)

AcceptFold(es) ==
  CHOOSE iter : iter = [s \in SUBSET DOMAIN es |->
                          IF s = {} THEN <<>> ELSE Accept(iter[s \ {Max(s)}], es[Max(s)])]

LEMMA AcceptType ==
  ASSUME NEW a \in Seq(Event), NEW e \in Event
  PROVE  Accept(a, e) \in Seq(Event)
BY DEF Accept

\* There is a fold of every log by Accept.
LEMMA AcceptFoldExists ==
  ASSUME NEW es \in Seq(Event)
  PROVE  AcceptFold(es) = [s \in SUBSET DOMAIN es |->
           IF s = {} THEN <<>> ELSE Accept(AcceptFold(es)[s \ {Max(s)}], es[Max(s)])]
<1>. DEFINE h == [p \in Seq(Event) \X Event |-> Accept(p[1], p[2])]
<1>1. h \in [Seq(Event) \X Event -> Seq(Event)]
  BY AcceptType
<1>2. <<>> \in Seq(Event)
  OBVIOUS
<1>3. \A a \in Seq(Event), e \in Event : h[<<a, e>>] = Accept(a, e)
  OBVIOUS
<1>. HIDE DEF h
<1>4. PICK f \in [SUBSET (1 .. Len(es)) -> Seq(Event)] : Folds(f, h, <<>>, es, Len(es))
  BY <1>1, <1>2, FoldsExist
<1>5. DOMAIN es = 1 .. Len(es) /\ Len(es) \in Nat
  OBVIOUS
<1>6. ASSUME NEW s \in SUBSET DOMAIN es
      PROVE  f[s] = IF s = {} THEN <<>> ELSE Accept(f[s \ {Max(s)}], es[Max(s)])
  <2>1. CASE s = {}
    BY <1>4, <1>5, <2>1 DEF Folds
  <2>2. CASE s # {}
    <3>1. f[s] = h[<<f[s \ {Max(s)}], es[Max(s)]>>]
      BY <1>4, <1>5, <2>2 DEF Folds
    <3>2. f[s \ {Max(s)}] \in Seq(Event)
      <4>1. s \ {Max(s)} \in SUBSET (1 .. Len(es))
        BY <1>5
      <4>. QED
        BY <1>4, <4>1
    <3>3. Max(s) \in DOMAIN es
      BY <1>5, <2>2, LargestIn
    <3>4. es[Max(s)] \in Event
      BY <1>5, <3>3
    <3>. QED
      BY <1>3, <2>2, <3>1, <3>2, <3>4
  <2>. QED
    BY <2>1, <2>2
<1>7. f = [s \in SUBSET DOMAIN es |-> IF s = {} THEN <<>> ELSE Accept(f[s \ {Max(s)}], es[Max(s)])]
  BY <1>4, <1>5, <1>6
<1>8. \E g : g = [s \in SUBSET DOMAIN es |-> IF s = {} THEN <<>> ELSE Accept(g[s \ {Max(s)}], es[Max(s)])]
  BY <1>7
<1>. QED
  BY <1>8, Zenon DEF AcceptFold

\* What Accepted is.
LEMMA AcceptedIsFold ==
  ASSUME NEW es
  PROVE  Accepted(es) = AcceptFold(es)[DOMAIN es]
BY DEF Accepted, FoldLeft, MapThenFoldSet, AcceptFold, Accept

\* It goes through the prefixes of the punches.
LEMMA AcceptedSteps ==
  ASSUME NEW es \in Seq(Event)
  PROVE  \E g \in [0 .. Len(es) -> Seq(Event)] :
           /\ g[0] = <<>> /\ Accepted(es) = g[Len(es)]
           /\ \A k \in 1 .. Len(es) : g[k] = Accept(g[k - 1], es[k])
<1>. DEFINE h == [p \in Seq(Event) \X Event |-> Accept(p[1], p[2])]
<1>1. h \in [Seq(Event) \X Event -> Seq(Event)]
  BY AcceptType
<1>2. <<>> \in Seq(Event)
  OBVIOUS
<1>3. \A a \in Seq(Event), e \in Event : h[<<a, e>>] = Accept(a, e)
  OBVIOUS
<1>. HIDE DEF h
<1>4. PICK f : f = AcceptFold(es)
  OBVIOUS
<1>5. DOMAIN es = 1 .. Len(es) /\ Len(es) \in Nat /\ \A i \in 1 .. Len(es) : es[i] \in Event
  OBVIOUS
<1>6. f = [s \in SUBSET (1 .. Len(es)) |->
             IF s = {} THEN <<>> ELSE Accept(f[s \ {Max(s)}], es[Max(s)])]
  BY <1>4, <1>5, AcceptFoldExists
<1>7. f[{}] = <<>>
  BY <1>6
<1>8. ASSUME NEW s \in SUBSET (1 .. Len(es)), s # {}, f[s \ {Max(s)}] \in Seq(Event)
      PROVE  f[s] = h[<<f[s \ {Max(s)}], es[Max(s)]>>]
  <2>1. es[Max(s)] \in Event
    BY <1>5, <1>8, LargestIn
  <2>2. f[s] = Accept(f[s \ {Max(s)}], es[Max(s)])
    BY <1>6, <1>8
  <2>. QED
    BY <1>3, <1>8, <2>1, <2>2
<1>9. Accepted(es) = f[1 .. Len(es)]
  BY <1>4, <1>5, AcceptedIsFold
<1>10. FoldsWithin(Seq(Event), f, h, <<>>, es)
  BY <1>7, <1>8 DEF FoldsWithin
<1>11. PICK g : StepsOf(g, Seq(Event), f, h, <<>>, es)
  BY <1>1, <1>2, <1>10, Unroll
<1>12. g \in [0 .. Len(es) -> Seq(Event)] /\ g[0] = <<>> /\ g[Len(es)] = f[1 .. Len(es)]
  BY <1>11 DEF StepsOf
<1>13. ASSUME NEW k \in 1 .. Len(es)
       PROVE  g[k] = Accept(g[k - 1], es[k])
  <2>1. k - 1 \in 0 .. Len(es)
    BY <1>5
  <2>2. g[k] = h[<<g[k - 1], es[k]>>]
    BY <1>11 DEF StepsOf
  <2>. QED
    BY <1>3, <1>5, <1>12, <2>1, <2>2
<1>. QED
  BY <1>9, <1>12, <1>13

LEMMA AcceptedType ==
  ASSUME NEW es \in Seq(Event)
  PROVE  Accepted(es) \in Seq(Event)
<1>1. PICK g \in [0 .. Len(es) -> Seq(Event)] : Accepted(es) = g[Len(es)]
  BY AcceptedSteps
<1>. QED
  BY <1>1

\* The sessions of a pairing: one left open has no OUT.
Closed(m) == IF m.open = NoEvent THEN m.done ELSE Append(m.done, Session(m.open, NoEvent))
Unpaired == [done |-> <<>>, open |-> NoEvent]

TurnFold(es) ==
  CHOOSE iter : iter = [s \in SUBSET DOMAIN es |->
                          IF s = {} THEN Unpaired ELSE Turn(iter[s \ {Max(s)}], es[Max(s)])]

LEMMA TurnType ==
  ASSUME NEW m \in Pairing, NEW e \in Event
  PROVE  Turn(m, e) \in Pairing
<1>1. m.done \in Seq(Paired) /\ m.open \in Ending /\ e \in Ending /\ NoEvent \in Ending
  BY DEF Pairing, Ending
<1>2. Session(m.open, e) \in Paired /\ Session(m.open, NoEvent) \in Paired
  BY <1>1 DEF Session, Paired
<1>3. Append(m.done, Session(m.open, e)) \in Seq(Paired) /\ Append(m.done, Session(m.open, NoEvent)) \in Seq(Paired)
  BY <1>1, <1>2
<1>. QED
  BY <1>1, <1>3 DEF Turn, Pairing

\* There is a fold of every log by Turn.
LEMMA TurnFoldExists ==
  ASSUME NEW es \in Seq(Event)
  PROVE  TurnFold(es) = [s \in SUBSET DOMAIN es |->
           IF s = {} THEN Unpaired ELSE Turn(TurnFold(es)[s \ {Max(s)}], es[Max(s)])]
<1>. DEFINE h == [p \in Pairing \X Event |-> Turn(p[1], p[2])]
<1>1. h \in [Pairing \X Event -> Pairing]
  BY TurnType
<1>2. Unpaired \in Pairing
  BY DEF Unpaired, Pairing, Ending
<1>3. \A a \in Pairing, e \in Event : h[<<a, e>>] = Turn(a, e)
  OBVIOUS
<1>. HIDE DEF h
<1>4. PICK f \in [SUBSET (1 .. Len(es)) -> Pairing] : Folds(f, h, Unpaired, es, Len(es))
  BY <1>1, <1>2, FoldsExist
<1>5. DOMAIN es = 1 .. Len(es) /\ Len(es) \in Nat
  OBVIOUS
<1>6. ASSUME NEW s \in SUBSET DOMAIN es
      PROVE  f[s] = IF s = {} THEN Unpaired ELSE Turn(f[s \ {Max(s)}], es[Max(s)])
  <2>1. CASE s = {}
    BY <1>4, <1>5, <2>1 DEF Folds
  <2>2. CASE s # {}
    <3>1. f[s] = h[<<f[s \ {Max(s)}], es[Max(s)]>>]
      BY <1>4, <1>5, <2>2 DEF Folds
    <3>2. f[s \ {Max(s)}] \in Pairing
      <4>1. s \ {Max(s)} \in SUBSET (1 .. Len(es))
        BY <1>5
      <4>. QED
        BY <1>4, <4>1
    <3>3. Max(s) \in DOMAIN es
      BY <1>5, <2>2, LargestIn
    <3>4. es[Max(s)] \in Event
      BY <1>5, <3>3
    <3>. QED
      BY <1>3, <2>2, <3>1, <3>2, <3>4
  <2>. QED
    BY <2>1, <2>2
<1>7. f = [s \in SUBSET DOMAIN es |-> IF s = {} THEN Unpaired ELSE Turn(f[s \ {Max(s)}], es[Max(s)])]
  BY <1>4, <1>5, <1>6
<1>8. \E g : g = [s \in SUBSET DOMAIN es |-> IF s = {} THEN Unpaired ELSE Turn(g[s \ {Max(s)}], es[Max(s)])]
  BY <1>7
<1>. QED
  BY <1>8, Zenon DEF TurnFold

\* What Alternating is.
LEMMA AlternatingIsFold ==
  ASSUME NEW es
  PROVE  Alternating(es) = Closed(TurnFold(es)[DOMAIN es])
BY DEF Alternating, FoldLeft, MapThenFoldSet, TurnFold, Closed, Unpaired

\* It goes through the prefixes of the accepted punches.
LEMMA AlternatingSteps ==
  ASSUME NEW es \in Seq(Event)
  PROVE  \E g \in [0 .. Len(es) -> Pairing] :
           /\ g[0] = Unpaired /\ Alternating(es) = Closed(g[Len(es)])
           /\ \A k \in 1 .. Len(es) : g[k] = Turn(g[k - 1], es[k])
<1>. DEFINE h == [p \in Pairing \X Event |-> Turn(p[1], p[2])]
<1>1. h \in [Pairing \X Event -> Pairing]
  BY TurnType
<1>2. Unpaired \in Pairing
  BY DEF Unpaired, Pairing, Ending
<1>3. \A a \in Pairing, e \in Event : h[<<a, e>>] = Turn(a, e)
  OBVIOUS
<1>. HIDE DEF h
<1>4. PICK f : f = TurnFold(es)
  OBVIOUS
<1>5. DOMAIN es = 1 .. Len(es) /\ Len(es) \in Nat /\ \A i \in 1 .. Len(es) : es[i] \in Event
  OBVIOUS
<1>6. f = [s \in SUBSET (1 .. Len(es)) |->
             IF s = {} THEN Unpaired ELSE Turn(f[s \ {Max(s)}], es[Max(s)])]
  BY <1>4, <1>5, TurnFoldExists
<1>7. f[{}] = Unpaired
  BY <1>6
<1>8. ASSUME NEW s \in SUBSET (1 .. Len(es)), s # {}, f[s \ {Max(s)}] \in Pairing
      PROVE  f[s] = h[<<f[s \ {Max(s)}], es[Max(s)]>>]
  <2>1. es[Max(s)] \in Event
    BY <1>5, <1>8, LargestIn
  <2>2. f[s] = Turn(f[s \ {Max(s)}], es[Max(s)])
    BY <1>6, <1>8
  <2>. QED
    BY <1>3, <1>8, <2>1, <2>2
<1>9. Alternating(es) = Closed(f[1 .. Len(es)])
  BY <1>4, <1>5, AlternatingIsFold
<1>10. FoldsWithin(Pairing, f, h, Unpaired, es)
  BY <1>7, <1>8 DEF FoldsWithin
<1>11. PICK g : StepsOf(g, Pairing, f, h, Unpaired, es)
  BY <1>1, <1>2, <1>10, Unroll
<1>12. g \in [0 .. Len(es) -> Pairing] /\ g[0] = Unpaired /\ g[Len(es)] = f[1 .. Len(es)]
  BY <1>11 DEF StepsOf
<1>13. ASSUME NEW k \in 1 .. Len(es)
       PROVE  g[k] = Turn(g[k - 1], es[k])
  <2>1. k - 1 \in 0 .. Len(es)
    BY <1>5
  <2>2. g[k] = h[<<g[k - 1], es[k]>>]
    BY <1>11 DEF StepsOf
  <2>. QED
    BY <1>3, <1>5, <1>12, <2>1, <2>2
<1>. QED
  BY <1>9, <1>12, <1>13

\* The punches of one session.
Ends(s) == (IF s.in = NoEvent THEN <<>> ELSE <<s.in>>) \o (IF s.out = NoEvent THEN <<>> ELSE <<s.out>>)
Use(acc, s) == acc \o Ends(s)

UsedFold(es) ==
  CHOOSE iter : iter = [s \in SUBSET DOMAIN es |->
                          IF s = {} THEN <<>> ELSE Use(iter[s \ {Max(s)}], es[Max(s)])]

LEMMA UseType ==
  ASSUME NEW a \in Seq(Event), NEW s \in Paired
  PROVE  Ends(s) \in Seq(Event) /\ Use(a, s) \in Seq(Event)
<1>1. s.in \in Ending /\ s.out \in Ending
  BY DEF Paired
<1>2. Ends(s) \in Seq(Event)
  BY <1>1 DEF Ends, Ending
<1>. QED
  BY <1>2 DEF Use

\* There is a fold of all sessions by Use.
LEMMA UseFoldExists ==
  ASSUME NEW es \in Seq(Paired)
  PROVE  UsedFold(es) = [s \in SUBSET DOMAIN es |->
           IF s = {} THEN <<>> ELSE Use(UsedFold(es)[s \ {Max(s)}], es[Max(s)])]
<1>. DEFINE h == [p \in Seq(Event) \X Paired |-> Use(p[1], p[2])]
<1>1. h \in [Seq(Event) \X Paired -> Seq(Event)]
  BY UseType
<1>2. <<>> \in Seq(Event)
  OBVIOUS
<1>3. \A a \in Seq(Event), e \in Paired : h[<<a, e>>] = Use(a, e)
  OBVIOUS
<1>. HIDE DEF h
<1>4. PICK f \in [SUBSET (1 .. Len(es)) -> Seq(Event)] : Folds(f, h, <<>>, es, Len(es))
  BY <1>1, <1>2, FoldsExist
<1>5. DOMAIN es = 1 .. Len(es) /\ Len(es) \in Nat
  OBVIOUS
<1>6. ASSUME NEW s \in SUBSET DOMAIN es
      PROVE  f[s] = IF s = {} THEN <<>> ELSE Use(f[s \ {Max(s)}], es[Max(s)])
  <2>1. CASE s = {}
    BY <1>4, <1>5, <2>1 DEF Folds
  <2>2. CASE s # {}
    <3>1. f[s] = h[<<f[s \ {Max(s)}], es[Max(s)]>>]
      BY <1>4, <1>5, <2>2 DEF Folds
    <3>2. f[s \ {Max(s)}] \in Seq(Event)
      <4>1. s \ {Max(s)} \in SUBSET (1 .. Len(es))
        BY <1>5
      <4>. QED
        BY <1>4, <4>1
    <3>3. Max(s) \in DOMAIN es
      BY <1>5, <2>2, LargestIn
    <3>4. es[Max(s)] \in Paired
      BY <1>5, <3>3
    <3>. QED
      BY <1>3, <2>2, <3>1, <3>2, <3>4
  <2>. QED
    BY <2>1, <2>2
<1>7. f = [s \in SUBSET DOMAIN es |-> IF s = {} THEN <<>> ELSE Use(f[s \ {Max(s)}], es[Max(s)])]
  BY <1>4, <1>5, <1>6
<1>8. \E g : g = [s \in SUBSET DOMAIN es |-> IF s = {} THEN <<>> ELSE Use(g[s \ {Max(s)}], es[Max(s)])]
  BY <1>7
<1>. QED
  BY <1>8, Zenon DEF UsedFold

\* What Used is.
LEMMA UsedIsFold ==
  ASSUME NEW es
  PROVE  Used(es) = UsedFold(es)[DOMAIN es]
BY DEF Used, FoldLeft, MapThenFoldSet, UsedFold, Use, Ends

\* It goes through the prefixes of the sessions.
LEMMA UsedSteps ==
  ASSUME NEW es \in Seq(Paired)
  PROVE  \E g \in [0 .. Len(es) -> Seq(Event)] :
           /\ g[0] = <<>> /\ Used(es) = g[Len(es)]
           /\ \A k \in 1 .. Len(es) : g[k] = Use(g[k - 1], es[k])
<1>. DEFINE h == [p \in Seq(Event) \X Paired |-> Use(p[1], p[2])]
<1>1. h \in [Seq(Event) \X Paired -> Seq(Event)]
  BY UseType
<1>2. <<>> \in Seq(Event)
  OBVIOUS
<1>3. \A a \in Seq(Event), e \in Paired : h[<<a, e>>] = Use(a, e)
  OBVIOUS
<1>. HIDE DEF h
<1>4. PICK f : f = UsedFold(es)
  OBVIOUS
<1>5. DOMAIN es = 1 .. Len(es) /\ Len(es) \in Nat /\ \A i \in 1 .. Len(es) : es[i] \in Paired
  OBVIOUS
<1>6. f = [s \in SUBSET (1 .. Len(es)) |->
             IF s = {} THEN <<>> ELSE Use(f[s \ {Max(s)}], es[Max(s)])]
  BY <1>4, <1>5, UseFoldExists
<1>7. f[{}] = <<>>
  BY <1>6
<1>8. ASSUME NEW s \in SUBSET (1 .. Len(es)), s # {}, f[s \ {Max(s)}] \in Seq(Event)
      PROVE  f[s] = h[<<f[s \ {Max(s)}], es[Max(s)]>>]
  <2>1. es[Max(s)] \in Paired
    BY <1>5, <1>8, LargestIn
  <2>2. f[s] = Use(f[s \ {Max(s)}], es[Max(s)])
    BY <1>6, <1>8
  <2>. QED
    BY <1>3, <1>8, <2>1, <2>2
<1>9. Used(es) = f[1 .. Len(es)]
  BY <1>4, <1>5, UsedIsFold
<1>10. FoldsWithin(Seq(Event), f, h, <<>>, es)
  BY <1>7, <1>8 DEF FoldsWithin
<1>11. PICK g : StepsOf(g, Seq(Event), f, h, <<>>, es)
  BY <1>1, <1>2, <1>10, Unroll
<1>12. g \in [0 .. Len(es) -> Seq(Event)] /\ g[0] = <<>> /\ g[Len(es)] = f[1 .. Len(es)]
  BY <1>11 DEF StepsOf
<1>13. ASSUME NEW k \in 1 .. Len(es)
       PROVE  g[k] = Use(g[k - 1], es[k])
  <2>1. k - 1 \in 0 .. Len(es)
    BY <1>5
  <2>2. g[k] = h[<<g[k - 1], es[k]>>]
    BY <1>11 DEF StepsOf
  <2>. QED
    BY <1>3, <1>5, <1>12, <2>1, <2>2
<1>. QED
  BY <1>9, <1>12, <1>13

----------------------------------------------------------------------------
(* EveryPunchOnce: pairing uses the accepted punches in order, each once.  *)

LEMMA UsedType ==
  ASSUME NEW ss \in Seq(Paired)
  PROVE  Used(ss) \in Seq(Event)
<1>1. PICK g \in [0 .. Len(ss) -> Seq(Event)] : Used(ss) = g[Len(ss)]
  BY UsedSteps
<1>. QED
  BY <1>1

LEMMA UsedNone == Used(<<>>) = <<>>
<1>0. <<>> \in Seq(Paired)
  OBVIOUS
<1>1. PICK ss \in Seq(Paired) : ss = <<>>
  BY <1>0
<1>2. PICK g \in [0 .. Len(ss) -> Seq(Event)] : g[0] = <<>> /\ Used(ss) = g[Len(ss)]
  BY UsedSteps
<1>. QED
  BY <1>1, <1>2

\* One more session, its punches more.
LEMMA UsedAppend ==
  ASSUME NEW ss \in Seq(Paired), NEW s \in Paired
  PROVE  Used(Append(ss, s)) = Used(ss) \o Ends(s)
<1>. DEFINE n == Len(ss)
<1>1. PICK more : more = Append(ss, s)
  OBVIOUS
<1>2. /\ more \in Seq(Paired) /\ n \in Nat /\ Len(more) = n + 1 /\ more[n + 1] = s
      /\ \A k \in 1 .. n : more[k] = ss[k]
  BY <1>1
<1>3. PICK f \in [0 .. n -> Seq(Event)] :
        f[0] = <<>> /\ Used(ss) = f[n] /\ \A k \in 1 .. n : f[k] = Use(f[k - 1], ss[k])
  BY UsedSteps
<1>4. PICK g \in [0 .. Len(more) -> Seq(Event)] :
        /\ g[0] = <<>> /\ Used(more) = g[Len(more)]
        /\ \A k \in 1 .. Len(more) : g[k] = Use(g[k - 1], more[k])
  BY <1>2, UsedSteps
<1>. HIDE DEF n
<1>5. \A k \in 0 .. n : g[k] = f[k]
  <2>. DEFINE T == {k \in 0 .. n : g[k] = f[k]}
  <2>1. 0 \in T
    BY <1>2, <1>3, <1>4
  <2>2. ASSUME NEW k \in 0 .. n - 1, k \in T
        PROVE  k + 1 \in T
    <3>1. k + 1 \in 1 .. n /\ k + 1 \in 1 .. Len(more) /\ (k + 1) - 1 = k /\ k + 1 \in 0 .. n
      BY <1>2
    <3>2. f[k + 1] = Use(f[k], ss[k + 1])
      BY <1>3, <3>1
    <3>3. g[k + 1] = Use(g[k], more[k + 1])
      BY <1>4, <3>1
    <3>. QED
      BY <1>2, <2>2, <3>1, <3>2, <3>3
  <2>. HIDE DEF T
  <2>3. \A k \in 0 .. n : k \in T
    BY <1>2, <2>1, <2>2, UpTo
  <2>. QED
    BY <2>3 DEF T
<1>6. g[n + 1] = Use(g[n], s)
  <2>1. n + 1 \in 1 .. Len(more) /\ (n + 1) - 1 = n
    BY <1>2
  <2>2. g[n + 1] = Use(g[n], more[n + 1])
    BY <1>4, <2>1
  <2>. QED
    BY <1>2, <2>2
<1>7. g[n] = f[n]
  <2>1. n \in 0 .. n
    BY <1>2
  <2>. QED
    BY <1>5, <2>1
<1>. QED
  BY <1>1, <1>2, <1>3, <1>4, <1>6, <1>7 DEF Use

\* The punches a pairing has gone through.
Behind(m) == Used(m.done) \o (IF m.open = NoEvent THEN <<>> ELSE <<m.open>>)

LEMMA BehindType ==
  ASSUME NEW m \in Pairing
  PROVE  Behind(m) \in Seq(Event)
<1>1. m.done \in Seq(Paired) /\ m.open \in Ending
  BY DEF Pairing
<1>2. Used(m.done) \in Seq(Event)
  BY <1>1, UsedType
<1>. QED
  BY <1>1, <1>2 DEF Behind, Ending

LEMMA SessionType ==
  ASSUME NEW in \in Ending, NEW out \in Ending
  PROVE  Session(in, out) \in Paired /\ Session(in, out).in = in /\ Session(in, out).out = out
BY DEF Session, Paired

\* One turn of pairing uses its punch.
LEMMA TurnUses ==
  ASSUME NEW m \in Pairing, NEW e \in Event
  PROVE  Behind(Turn(m, e)) = Append(Behind(m), e)
<1>1. m.done \in Seq(Paired) /\ m.open \in Ending /\ e \in Ending /\ NoEvent \in Ending /\ e # NoEvent
  BY NoEventAssumption DEF Pairing, Ending, Event
<1>2. Used(m.done) \in Seq(Event)
  BY <1>1, UsedType
<1>3. PICK u \in Seq(Event) : u = Used(m.done)
  BY <1>2
<1>4. CASE e.kind = "OUT" \/ (e.kind = "UNSPECIFIED" /\ m.open # NoEvent)
  <2>1. Turn(m, e) = [done |-> Append(m.done, Session(m.open, e)), open |-> NoEvent]
    BY <1>4 DEF Turn
  <2>2. Used(Append(m.done, Session(m.open, e))) = u \o Ends(Session(m.open, e))
    BY <1>1, <1>3, SessionType, UsedAppend
  <2>3. Ends(Session(m.open, e)) = (IF m.open = NoEvent THEN <<>> ELSE <<m.open>>) \o <<e>>
    BY <1>1, SessionType DEF Ends
  <2>4. Behind(Turn(m, e)) = u \o ((IF m.open = NoEvent THEN <<>> ELSE <<m.open>>) \o <<e>>) \o <<>>
    BY <2>1, <2>2, <2>3 DEF Behind
  <2>5. Behind(m) = u \o (IF m.open = NoEvent THEN <<>> ELSE <<m.open>>)
    BY <1>3 DEF Behind
  <2>6. CASE m.open = NoEvent
    <3>1. u \o (<<>> \o <<e>>) \o <<>> = Append(u \o <<>>, e)
      OBVIOUS
    <3>. QED
      BY <2>4, <2>5, <2>6, <3>1
  <2>7. CASE m.open # NoEvent
    <3>1. PICK o \in Event : o = m.open
      BY <1>1, <2>7 DEF Ending
    <3>2. u \o (<<o>> \o <<e>>) \o <<>> = Append(u \o <<o>>, e)
      OBVIOUS
    <3>. QED
      BY <2>4, <2>5, <2>7, <3>1, <3>2
  <2>. QED
    BY <2>6, <2>7
<1>5. CASE ~ (e.kind = "OUT" \/ (e.kind = "UNSPECIFIED" /\ m.open # NoEvent))
  <2>1. CASE m.open = NoEvent
    <3>1. Turn(m, e) = [done |-> m.done, open |-> e]
      BY <1>5, <2>1 DEF Turn
    <3>2. Behind(Turn(m, e)) = u \o <<e>> /\ Behind(m) = u \o <<>>
      BY <1>1, <1>3, <2>1, <3>1 DEF Behind
    <3>3. u \o <<e>> = Append(u \o <<>>, e)
      OBVIOUS
    <3>. QED
      BY <3>2, <3>3
  <2>2. CASE m.open # NoEvent
    <3>1. Turn(m, e) = [done |-> Append(m.done, Session(m.open, NoEvent)), open |-> e]
      BY <1>5, <2>2 DEF Turn
    <3>2. Used(Append(m.done, Session(m.open, NoEvent))) = u \o Ends(Session(m.open, NoEvent))
      BY <1>1, <1>3, SessionType, UsedAppend
    <3>3. Ends(Session(m.open, NoEvent)) = <<m.open>> \o <<>>
      BY <1>1, <2>2, SessionType DEF Ends
    <3>4. Behind(Turn(m, e)) = u \o (<<m.open>> \o <<>>) \o <<e>> /\ Behind(m) = u \o <<m.open>>
      BY <1>1, <1>3, <2>2, <3>1, <3>2, <3>3 DEF Behind
    <3>5. PICK o \in Event : o = m.open
      BY <1>1, <2>2 DEF Ending
    <3>6. u \o (<<o>> \o <<>>) \o <<e>> = Append(u \o <<o>>, e)
      OBVIOUS
    <3>. QED
      BY <3>4, <3>5, <3>6
  <2>. QED
    BY <2>1, <2>2
<1>. QED
  BY <1>4, <1>5

LEMMA ClosedUses ==
  ASSUME NEW m \in Pairing
  PROVE  Closed(m) \in Seq(Paired) /\ Used(Closed(m)) = Behind(m)
<1>1. m.done \in Seq(Paired) /\ m.open \in Ending /\ NoEvent \in Ending
  BY DEF Pairing, Ending
<1>2. PICK u \in Seq(Event) : u = Used(m.done)
  BY <1>1, UsedType
<1>3. CASE m.open = NoEvent
  BY <1>1, <1>2, <1>3 DEF Closed, Behind
<1>4. CASE m.open # NoEvent
  <2>1. PICK o \in Event : o = m.open
    BY <1>1, <1>4 DEF Ending
  <2>2. Session(o, NoEvent) \in Paired /\ Closed(m) = Append(m.done, Session(o, NoEvent))
    BY <1>1, <1>4, <2>1, SessionType DEF Closed
  <2>3. Used(Closed(m)) = u \o Ends(Session(o, NoEvent))
    BY <1>1, <1>2, <2>2, UsedAppend
  <2>4. Ends(Session(o, NoEvent)) = <<o>> \o <<>>
    BY <1>1, <1>4, <2>1, SessionType DEF Ends
  <2>5. Behind(m) = u \o <<o>>
    BY <1>2, <1>4, <2>1 DEF Behind
  <2>6. u \o (<<o>> \o <<>>) = u \o <<o>>
    OBVIOUS
  <2>. QED
    BY <1>1, <2>2, <2>3, <2>4, <2>5, <2>6
<1>. QED
  BY <1>3, <1>4

LEMMA AlternatingUses ==
  ASSUME NEW es \in Seq(Event)
  PROVE  Alternating(es) \in Seq(Paired) /\ Used(Alternating(es)) = es
<1>. DEFINE n == Len(es)
<1>1. n \in Nat /\ \A k \in 1 .. n : es[k] \in Event
  OBVIOUS
<1>2. PICK g \in [0 .. n -> Pairing] :
        /\ g[0] = Unpaired /\ Alternating(es) = Closed(g[n])
        /\ \A k \in 1 .. n : g[k] = Turn(g[k - 1], es[k])
  BY AlternatingSteps
<1>. HIDE DEF n
<1>3. \A k \in 0 .. n : Len(Behind(g[k])) = k /\ \A i \in 1 .. k : Behind(g[k])[i] = es[i]
  <2>. DEFINE T == {k \in 0 .. n : Len(Behind(g[k])) = k /\ \A i \in 1 .. k : Behind(g[k])[i] = es[i]}
  <2>1. 0 \in T
    <3>1. Behind(g[0]) = <<>> \o <<>>
      BY <1>2, UsedNone DEF Behind, Unpaired
    <3>2. Len(<<>> \o <<>>) = 0
      OBVIOUS
    <3>3. \A i \in 1 .. 0 : FALSE
      OBVIOUS
    <3>. QED
      BY <1>1, <3>1, <3>2, <3>3
  <2>2. ASSUME NEW k \in 0 .. n - 1, k \in T
        PROVE  k + 1 \in T
    <3>1. k + 1 \in 1 .. n /\ (k + 1) - 1 = k /\ k + 1 \in 0 .. n /\ k \in 0 .. n /\ k \in Nat
      BY <1>1
    <3>2. PICK m \in Pairing, e \in Event : m = g[k] /\ e = es[k + 1]
      BY <1>1, <1>2, <3>1
    <3>3. g[k + 1] = Turn(m, e)
      BY <1>2, <3>1, <3>2
    <3>4. PICK b \in Seq(Event) : b = Behind(m)
      BY BehindType
    <3>5. Len(b) = k /\ \A i \in 1 .. k : b[i] = es[i]
      BY <2>2, <3>2, <3>4
    <3>6. Behind(g[k + 1]) = Append(b, e)
      BY <3>3, <3>4, TurnUses
    <3>7. Len(Append(b, e)) = k + 1 /\ \A i \in 1 .. k + 1 : Append(b, e)[i] = es[i]
      BY <3>1, <3>2, <3>5
    <3>. QED
      BY <3>1, <3>6, <3>7
  <2>. HIDE DEF T
  <2>3. \A k \in 0 .. n : k \in T
    BY <1>1, <2>1, <2>2, UpTo
  <2>. QED
    BY <2>3 DEF T
<1>4. PICK m \in Pairing : m = g[n]
  BY <1>1, <1>2
<1>5. PICK b \in Seq(Event) : b = Behind(m)
  BY BehindType
<1>6. n \in 0 .. n
  BY <1>1
<1>7. Len(b) = n /\ \A i \in 1 .. n : b[i] = es[i]
  BY <1>3, <1>4, <1>5, <1>6
<1>8. b = es
  BY <1>7 DEF n
<1>. QED
  BY <1>2, <1>4, <1>5, <1>8, ClosedUses

\* The rules of PairEvents: the first and the last, or by turns.
LEMMA PairingIsFaithful ==
  ASSUME NEW es \in Seq(Event)
  PROVE  LET used == Used(PairEvents(es))
             accepted == Accepted(es)
         IN  /\ PairEvents(es) \in Seq(Paired)
             /\ \/ used = accepted
                \/ mode = "first_last" /\ used = <<accepted[1], accepted[Len(accepted)]>>
<1>1. PICK acc \in Seq(Event) : acc = Accepted(es)
  BY AcceptedType
<1>2. PICK n \in Nat : n = Len(acc)
  OBVIOUS
<1>3. CASE n = 0
  <2>1. PairEvents(es) = <<>>
    BY <1>1, <1>2, <1>3 DEF PairEvents
  <2>2. acc = <<>>
    BY <1>2, <1>3, EmptySeq
  <2>3. <<>> \in Seq(Paired)
    OBVIOUS
  <2>. QED
    BY <1>1, <2>1, <2>2, <2>3, UsedNone
<1>4. CASE n # 0 /\ mode = "first_last" /\ \A i \in 1 .. n : acc[i].kind = "UNSPECIFIED"
  <2>1. PICK first \in Event, last \in Event : first = acc[1] /\ last = acc[n]
    BY <1>2, <1>4
  <2>2. first # NoEvent /\ last # NoEvent /\ first \in Ending /\ last \in Ending /\ NoEvent \in Ending
    BY <2>1, NoEventAssumption DEF Event, Ending
  <2>3. PICK out \in Ending : out = IF n = 1 THEN NoEvent ELSE last
    BY <2>2
  <2>4. PICK s \in Paired : s = Session(first, out)
    BY <2>2, <2>3, SessionType
  <2>5. PairEvents(es) = <<s>>
    BY <1>1, <1>2, <1>4, <2>1, <2>3, <2>4 DEF PairEvents
  <2>6. Used(<<s>>) = Ends(s)
    <3>1. <<s>> = Append(<<>>, s)
      OBVIOUS
    <3>2. <<>> \in Seq(Paired)
      OBVIOUS
    <3>3. Used(<<s>>) = <<>> \o Ends(s)
      BY <3>1, <3>2, UsedNone, UsedAppend
    <3>4. PICK u \in Seq(Event) : u = Ends(s)
      <4>1. <<>> \in Seq(Event)
        OBVIOUS
      <4>. QED
        BY <4>1, UseType
    <3>5. <<>> \o u = u
      OBVIOUS
    <3>. QED
      BY <3>3, <3>4, <3>5
  <2>7. s.in = first /\ s.out = out
    BY <2>2, <2>3, <2>4, SessionType
  <2>8. CASE n = 1
    <3>1. Ends(s) = <<first>> \o <<>>
      BY <2>2, <2>3, <2>7, <2>8 DEF Ends
    <3>2. <<first>> \o <<>> = <<first>>
      OBVIOUS
    <3>3. acc = <<first>>
      <4>1. PICK t \in Seq(Event) : t = <<first>>
        <5>1. <<first>> \in Seq(Event)
          OBVIOUS
        <5>. QED
          BY <5>1
      <4>2. Len(t) = Len(acc) /\ \A i \in 1 .. Len(t) : t[i] = acc[i]
        BY <1>2, <2>1, <2>8, <4>1
      <4>3. t = acc
        BY <4>2, SeqEqual
      <4>. QED
        BY <4>1, <4>3
    <3>. QED
      BY <1>1, <2>5, <2>6, <3>1, <3>2, <3>3
  <2>9. CASE n # 1
    <3>1. Ends(s) = <<first>> \o <<last>>
      BY <2>2, <2>3, <2>7, <2>9 DEF Ends
    <3>2. PICK a \in Seq(Event), b \in Seq(Event), c \in Seq(Event) :
            a = <<first>> /\ b = <<last>> /\ c = <<first, last>>
      <4>1. <<first>> \in Seq(Event)
        OBVIOUS
      <4>2. <<last>> \in Seq(Event)
        OBVIOUS
      <4>3. <<first, last>> \in Seq(Event)
        OBVIOUS
      <4>. QED
        BY <4>1, <4>2, <4>3
    <3>3. a \o b \in Seq(Event) /\ Len(a \o b) = 2 /\ (a \o b)[1] = first /\ (a \o b)[2] = last
      BY <3>2
    <3>4. Len(c) = 2 /\ c[1] = first /\ c[2] = last
      BY <3>2
    <3>5. a \o b = c
      <4>1. \A i \in 1 .. Len(a \o b) : i = 1 \/ i = 2
        BY <3>3
      <4>2. \A i \in 1 .. Len(a \o b) : (a \o b)[i] = c[i]
        BY <3>3, <3>4, <4>1
      <4>. QED
        BY <3>3, <3>4, <4>2, SeqEqual
    <3>. QED
      BY <1>1, <1>2, <1>4, <2>1, <2>5, <2>6, <3>1, <3>2, <3>5
  <2>. QED
    BY <2>8, <2>9
<1>5. CASE n # 0 /\ ~ (mode = "first_last" /\ \A i \in 1 .. n : acc[i].kind = "UNSPECIFIED")
  <2>1. PairEvents(es) = Alternating(acc)
    BY <1>1, <1>2, <1>5 DEF PairEvents
  <2>. QED
    BY <1>1, <2>1, AlternatingUses
<1>. QED
  BY <1>3, <1>4, <1>5

----------------------------------------------------------------------------
(* The log of the date.                                                    *)

InOrder(q) == \A i, j \in 1 .. Len(q) : i <= j => q[i].time <= q[j].time

LEMMA EventTimes ==
  ASSUME NEW e \in Event
  PROVE  e.time \in Int /\ e.time \in Instants /\ e.kind \in Kinds
BY NearEnough DEF Event

\* The punches up to an instant are a prefix of the log.
LEMMA BeforeIsPrefix ==
  ASSUME NEW q \in Seq(Event), InOrder(q), NEW time \in Int
  PROVE  \E c \in 0 .. Len(q) : /\ Cardinality({i \in DOMAIN q : q[i].time <= time}) = c
                                /\ \A i \in 1 .. c : q[i].time <= time
                                /\ \A i \in c + 1 .. Len(q) : q[i].time > time
<1>. DEFINE n == Len(q)
            before == {i \in DOMAIN q : q[i].time <= time}
            after == {i \in 1 .. n : q[i].time > time}
<1>1. n \in Nat /\ DOMAIN q = 1 .. n /\ \A i \in 1 .. n : q[i].time \in Int
  BY EventTimes
<1>2. \A i, j \in 1 .. n : i <= j => q[i].time <= q[j].time
  BY DEF InOrder
<1>. HIDE DEF n
<1>3. CASE after = {}
  <2>1. \A i \in 1 .. n : q[i].time <= time
    BY <1>1, <1>3
  <2>2. before = 1 .. n
    BY <1>1, <2>1
  <2>3. Cardinality(1 .. n) = n
    BY <1>1, FS_Interval
  <2>4. n \in 0 .. n /\ \A i \in n + 1 .. n : FALSE
    BY <1>1
  <2>. QED
    BY <2>1, <2>2, <2>3, <2>4 DEF n
<1>4. CASE after # {}
  <2>1. after \in SUBSET Nat
    BY <1>1
  <2>2. PICK m \in after : \A j \in after : m <= j
    <3>. HIDE DEF after
    <3>. QED
      BY <1>4, <2>1, Least
  <2>3. PICK c \in 0 .. n : c + 1 = m
    <3>1. m \in 1 .. n
      BY <2>2
    <3>2. m - 1 \in 0 .. n /\ (m - 1) + 1 = m
      BY <1>1, <3>1
    <3>. QED
      BY <3>2
  <2>4. ASSUME NEW i \in 1 .. n, i <= c PROVE q[i].time <= time
    <3>1. i \notin after
      BY <1>1, <2>2, <2>3, <2>4
    <3>. QED
      BY <1>1, <3>1
  <2>5. ASSUME NEW i \in 1 .. n, i > c PROVE q[i].time > time
    <3>1. m \in 1 .. n /\ q[m].time > time
      BY <2>2
    <3>2. m <= i
      BY <1>1, <2>3, <2>5
    <3>3. q[m].time <= q[i].time
      BY <1>2, <3>1, <3>2
    <3>. QED
      BY <1>1, <3>1, <3>3
  <2>6. before = 1 .. c
    <3>1. \A i : i \in before <=> i \in 1 .. c
      BY <1>1, <2>3, <2>4, <2>5
    <3>. QED
      BY <3>1
  <2>7. Cardinality(1 .. c) = c
    <3>1. c \in Int /\ 1 \in Int
      BY <1>1
    <3>2. Cardinality(1 .. c) = IF 1 > c THEN 0 ELSE c - 1 + 1
      BY <3>1, FS_Interval
    <3>. QED
      BY <1>1, <3>2
  <2>8. \A i \in 1 .. c : q[i].time <= time
    BY <1>1, <2>4
  <2>9. \A i \in c + 1 .. n : q[i].time > time
    BY <1>1, <2>5
  <2>. QED
    BY <2>6, <2>7, <2>8, <2>9 DEF n
<1>. QED
  BY <1>3, <1>4

\* Punch puts an event where it belongs.
LEMMA InsertInOrder ==
  ASSUME NEW q \in Seq(Event), InOrder(q), NEW e \in Event
  PROVE  LET before == {i \in DOMAIN q : q[i].time <= e.time}
             later == InsertAt(q, Cardinality(before) + 1, e)
         IN  later \in Seq(Event) /\ InOrder(later) /\ Len(later) = Len(q) + 1
<1>1. PICK n \in Nat : n = Len(q)
  OBVIOUS
<1>2. e.time \in Int /\ \A i \in 1 .. n : q[i].time \in Int
  BY <1>1, EventTimes
<1>3. PICK c \in 0 .. n : /\ Cardinality({i \in DOMAIN q : q[i].time <= e.time}) = c
                          /\ \A i \in 1 .. c : q[i].time <= e.time
                          /\ \A i \in c + 1 .. n : q[i].time > e.time
  BY <1>1, <1>2, BeforeIsPrefix
<1>4. PICK later : later = InsertAt(q, c + 1, e)
  OBVIOUS
<1>5. PICK head \in Seq(Event), tail \in Seq(Event) :
        head = SubSeq(q, 1, (c + 1) - 1) /\ tail = SubSeq(q, c + 1, n)
  <2>1. (c + 1) - 1 = c /\ c \in Nat /\ c <= n
    BY <1>1, <1>3
  <2>2. SubSeq(q, 1, c) \in Seq(Event)
    BY <1>1, <2>1
  <2>3. SubSeq(q, c + 1, n) \in Seq(Event)
    BY <1>1, <2>1
  <2>. QED
    BY <2>1, <2>2, <2>3
<1>6. /\ Len(head) = c /\ \A i \in 1 .. c : head[i] = q[i]
      /\ Len(tail) = n - c /\ \A i \in 1 .. n - c : tail[i] = q[i + c]
  <2>1. (c + 1) - 1 = c /\ c \in Nat /\ c <= n /\ n \in Nat
    BY <1>3
  <2>2. head = SubSeq(q, 1, c)
    BY <1>5, <2>1
  <2>3. Len(head) = c /\ \A i \in 1 .. c : head[i] = q[i]
    BY <1>1, <2>1, <2>2
  <2>4. Len(tail) = n - c
    BY <1>1, <1>5, <2>1
  <2>5. ASSUME NEW i \in 1 .. n - c PROVE tail[i] = q[i + c]
    BY <1>1, <1>5, <2>1, <2>5
  <2>. QED
    BY <2>3, <2>4, <2>5
<1>7. later = head \o <<e>> \o tail
  BY <1>1, <1>4, <1>5 DEF InsertAt
<1>8. later \in Seq(Event) /\ Len(later) = n + 1
  BY <1>1, <1>3, <1>6, <1>7
<1>9. \A i \in 1 .. n + 1 : later[i] = IF i <= c THEN head[i] ELSE IF i = c + 1 THEN e ELSE tail[i - (c + 1)]
  BY <1>1, <1>3, <1>6, <1>7
<1>10. \A i \in 1 .. n + 1 : later[i] = IF i <= c THEN q[i] ELSE IF i = c + 1 THEN e ELSE q[i - 1]
  <2>1. \A i \in 1 .. n + 1 : i > c + 1 => i - (c + 1) \in 1 .. n - c /\ (i - (c + 1)) + c = i - 1
    BY <1>1, <1>3
  <2>2. ASSUME NEW i \in 1 .. n + 1, i > c + 1 PROVE later[i] = q[i - 1]
    <3>1. later[i] = tail[i - (c + 1)]
      BY <1>1, <1>3, <1>9, <2>2
    <3>2. tail[i - (c + 1)] = q[(i - (c + 1)) + c]
      BY <1>6, <2>1, <2>2
    <3>. QED
      BY <2>1, <2>2, <3>1, <3>2
  <2>3. ASSUME NEW i \in 1 .. n + 1, i <= c PROVE later[i] = q[i]
    <3>1. i \in 1 .. c
      BY <1>1, <1>3, <2>3
    <3>. QED
      BY <1>6, <1>9, <2>3, <3>1
  <2>4. later[c + 1] = e
    <3>1. c + 1 \in 1 .. n + 1 /\ ~ (c + 1 <= c)
      BY <1>1, <1>3
    <3>. QED
      BY <1>9, <3>1
  <2>. QED
    BY <1>1, <1>3, <2>2, <2>3, <2>4
<1>11. ASSUME NEW i \in 1 .. n + 1, NEW j \in 1 .. n + 1, i <= j
       PROVE  later[i].time <= later[j].time
  <2>1. \A a, b \in 1 .. n : a <= b => q[a].time <= q[b].time
    BY <1>1 DEF InOrder
  <2>2. CASE j <= c
    BY <1>1, <1>3, <1>10, <1>11, <2>1, <2>2
  <2>3. CASE j = c + 1
    <3>1. later[j] = e
      BY <1>1, <1>3, <1>10, <2>3
    <3>2. CASE i = j
      BY <1>2, <3>1, <3>2
    <3>3. CASE i # j
      <4>1. i \in 1 .. c /\ later[i] = q[i]
        BY <1>1, <1>3, <1>10, <1>11, <2>3, <3>3
      <4>. QED
        BY <1>3, <3>1, <4>1
    <3>. QED
      BY <3>2, <3>3
  <2>4. CASE j > c + 1
    <3>1. later[j] = q[j - 1] /\ j - 1 \in 1 .. n /\ j - 1 \in c + 1 .. n
      BY <1>1, <1>3, <1>10, <2>4
    <3>2. CASE i <= c
      BY <1>1, <1>3, <1>10, <2>1, <2>4, <3>1, <3>2
    <3>3. CASE i = c + 1
      BY SMTT(30), <1>1, <1>2, <1>3, <1>10, <3>1, <3>3
    <3>4. CASE i > c + 1
      <4>1. later[i] = q[i - 1] /\ i - 1 \in 1 .. n /\ i - 1 <= j - 1
        BY <1>1, <1>3, <1>10, <1>11, <3>4
      <4>. QED
        BY <2>1, <3>1, <4>1
    <3>. QED
      BY <1>1, <1>3, <3>2, <3>3, <3>4
  <2>. QED
    BY <1>1, <1>3, <2>2, <2>3, <2>4
<1>12. InOrder(later)
  BY <1>8, <1>11 DEF InOrder
<1>. QED
  BY <1>1, <1>3, <1>4, <1>8, <1>12

LogInv == log \in Seq(Event) /\ InOrder(log)

LEMMA LogInvInit == Init => LogInv
<1>1. <<>> \in Seq(Event) /\ InOrder(<<>>)
  BY DEF InOrder
<1>. QED
  BY <1>1 DEF Init, LogInv

LEMMA PunchKeepsLog ==
  ASSUME LogInv, NEW time \in Instants, NEW kind \in Kinds, Punch(time, kind)
  PROVE  LogInv' /\ log' # <<>>
<1>1. PICK e \in Event : e = [time |-> time, kind |-> kind]
  BY DEF Event
<1>2. e.time = time
  BY <1>1
<1>3. PICK q \in Seq(Event) : q = log /\ InOrder(q)
  BY DEF LogInv
<1>4. PICK later : later = InsertAt(q, Cardinality({i \in DOMAIN q : q[i].time <= e.time}) + 1, e)
  OBVIOUS
<1>5. later \in Seq(Event) /\ InOrder(later) /\ Len(later) = Len(q) + 1
  BY <1>3, <1>4, InsertInOrder
<1>6. log' = later
  BY <1>1, <1>2, <1>3, <1>4 DEF Punch
<1>7. later # <<>>
  <2>1. Len(later) # 0
    BY <1>5
  <2>. QED
    BY <2>1
<1>. QED
  BY <1>5, <1>6, <1>7 DEF LogInv, InOrder

LEMMA LogInvNext == LogInv /\ [Next]_vars => LogInv'
<1>1. SUFFICES ASSUME LogInv, [Next]_vars PROVE LogInv'
  OBVIOUS
<1>2. CASE UNCHANGED log
  BY <1>1, <1>2 DEF LogInv, InOrder
<1>3. ASSUME NEW time \in Instants, NEW kind \in Kinds, Punch(time, kind)
      PROVE  LogInv'
  BY <1>1, <1>3, PunchKeepsLog
<1>4. CASE Tick \/ Nightly \/ UNCHANGED vars
  BY <1>2, <1>4 DEF Tick, Nightly, vars
<1>. QED
  BY <1>1, <1>3, <1>4 DEF Next

\* Whatever punches arrive in whatever order, the ends of the sessions are the
\* accepted punches in order, each used once (or the first and the last of them).
THEOREM PunchesUsedOnce == Spec => []EveryPunchOnce
<1>1. Spec => []LogInv
  BY LogInvInit, LogInvNext, PTL DEF Spec
<1>2. LogInv => EveryPunchOnce
  BY PairingIsFaithful DEF LogInv, EveryPunchOnce
<1>. QED
  BY <1>1, <1>2, PTL

----------------------------------------------------------------------------
(* The row is the summary of the log at some instant, and after the        *)
(* nightly job that of now.                                                *)

\* The rules of the date are fixed, and with them every figure.
LEMMA SameFigures ==
  ASSUME NEW ss, NEW t, UNCHANGED rules
  PROVE  Summary(ss, t)' = Summary(ss, t)
<1>1. Shift' = Shift /\ calendar' = calendar
  BY DEF rules, Shift
<1>2. WorkingDay' = WorkingDay /\ TimedRules' = TimedRules
  BY <1>1 DEF WorkingDay, TimedRules
<1>3. BreakStart' = BreakStart
  BY <1>1 DEF BreakStart
<1>4. BreakEnd' = BreakEnd
  BY <1>1, <1>3 DEF BreakEnd
<1>5. UnpaidBreak(ss)' = UnpaidBreak(ss)
  BY <1>1, <1>3, <1>4 DEF UnpaidBreak
<1>6. Work(ss)' = Work(ss)
  BY <1>5 DEF Work
<1>7. Late(ss)' = Late(ss) /\ Early(ss)' = Early(ss)
  BY <1>1, <1>2 DEF Late, Early
<1>8. Overtime(ss)' = Overtime(ss)
  BY <1>1, <1>2, <1>6, Zenon DEF Overtime
<1>9. Status(ss, t)' = Status(ss, t)
  BY <1>1, <1>6, Zenon DEF Status
<1>. QED
  BY <1>6, <1>7, <1>8, <1>9 DEF Summary

LEMMA SameSummary ==
  ASSUME NEW es, NEW t, UNCHANGED rules
  PROVE  Summary(PairEvents(es), t)' = Summary(PairEvents(es), t)
<1>1. PICK ss : ss = PairEvents(es)
  OBVIOUS
<1>2. PairEvents(es)' = ss
  BY <1>1 DEF PairEvents, rules
<1>3. Summary(ss, t)' = Summary(ss, t)
  BY SameFigures
<1>4. Summary(PairEvents(es), t)' = Summary(ss, t)'
  BY <1>2
<1>. QED
  BY <1>1, <1>3, <1>4

RowInv == row # NoRow => \E t \in Instants : row = Summary(PairEvents(log), t)

LEMMA RowInvNext == ClockInv /\ RowInv /\ [Next]_vars => RowInv'
<1>1. SUFFICES ASSUME ClockInv, RowInv, [Next]_vars, row' # NoRow
               PROVE  \E t \in Instants : row' = Summary(PairEvents(log), t)'
  BY DEF RowInv
<1>2. CASE UNCHANGED <<rules, log, row>>
  <2>1. row # NoRow
    BY <1>1, <1>2
  <2>2. PICK t \in Instants : row = Summary(PairEvents(log), t)
    BY <1>1, <2>1 DEF RowInv
  <2>3. PICK es : es = log
    OBVIOUS
  <2>4. Summary(PairEvents(es), t)' = Summary(PairEvents(es), t)
    BY <1>2, SameSummary
  <2>5. Summary(PairEvents(log), t)' = Summary(PairEvents(es), t)'
    BY <1>2, <2>3
  <2>. QED
    BY <1>2, <2>2, <2>3, <2>4, <2>5
<1>3. CASE UNCHANGED rules /\ row' = ProcessDay(log', now)
  <2>1. PICK es, t : es = log' /\ t = now
    OBVIOUS
  <2>2. row' = Summary(PairEvents(es), t)
    BY <1>1, <1>3, <2>1 DEF ProcessDay
  <2>3. Summary(PairEvents(es), t)' = Summary(PairEvents(es), t)
    BY <1>3, SameSummary
  <2>4. Summary(PairEvents(log), t)' = Summary(PairEvents(es), t)'
    BY <2>1
  <2>5. t \in Instants
    BY <1>1, <2>1 DEF ClockInv
  <2>. QED
    BY <2>2, <2>3, <2>4, <2>5
<1>4. ASSUME NEW time \in Instants, NEW kind \in Kinds, Punch(time, kind)
      PROVE  \E t \in Instants : row' = Summary(PairEvents(log), t)'
  BY <1>3, <1>4 DEF Punch
<1>5. CASE Tick \/ UNCHANGED vars
  BY <1>2, <1>5 DEF Tick, vars
<1>6. CASE Nightly
  BY <1>3, <1>6 DEF Nightly
<1>. QED
  BY <1>1, <1>4, <1>5, <1>6 DEF Next

LEMMA RowAlways == Spec => [](ClockInv /\ LogInv /\ RowInv)
<1>1. Init => ClockInv /\ LogInv /\ RowInv
  BY ClockInvInit, LogInvInit DEF Init, RowInv
<1>2. (ClockInv /\ LogInv /\ RowInv) /\ [Next]_vars => (ClockInv /\ LogInv /\ RowInv)'
  BY ClockInvNext, LogInvNext, RowInvNext
<1>. QED
  BY <1>1, <1>2, PTL DEF Spec

Job == Midnight(Day + 1) + NightlyAt

\* Since the job ran the row is the summary of the punches at some instant after it.
FinalAt(t) == Job <= t /\ t <= now /\ row = ProcessDay(log, t)
FinalInv   == finalized => \E t \in Instants : FinalAt(t)

LEMMA AtJob ==
  ASSUME ClockInv, NEW x \in Instants, Job <= x
  PROVE  x \in Int /\ Job \in Int /\ WindowEnd(Shift, Day) \in Int /\ ~ Day > DateOf(x)
<1>1. x \in Int /\ DateOf(x) \in Int /\ x < Midnight(DateOf(x) + 1)
  BY NearEnough, DateBounds
<1>2. Day \in Nat /\ Midnight(Day) \in Int /\ Midnight(Day + 1) \in Int /\ NightlyAt \in Nat
      /\ Midnight(Day) <= Midnight(Day + 1)
  BY DayAssumption, DayLengthAssumption, ClockAssumption DEF Midnight
<1>3. ~ Day > DateOf(x)
  <2>1. SUFFICES ASSUME DateOf(x) + 1 <= Day PROVE FALSE
    BY <1>1, <1>2
  <2>2. Midnight(DateOf(x) + 1) \in Int /\ Midnight(DateOf(x) + 1) <= Midnight(Day)
    BY <1>1, <1>2, <2>1, MidnightsAdvance
  <2>. QED
    BY <1>1, <1>2, <2>2 DEF Job
<1>4. Shift \in Snapshots
  BY DayAssumption DEF ClockInv, Shift, Near
<1>5. WindowEnd(Shift, Day) \in Int
  BY <1>2, <1>4, WindowOpens
<1>. QED
  BY <1>1, <1>2, <1>3, <1>5 DEF Job

\* What the closing of the window changes in a status.
LEMMA StatusOnceClosed ==
  ASSUME NEW ss, NEW t, NEW u, t < WindowEnd(Shift, Day), ~ u < WindowEnd(Shift, Day)
  PROVE  \/ Status(ss, t) = Status(ss, u)
         \/ <<Status(ss, t), Status(ss, u)>> \in {<<"not_started", "absent">>, <<"present", "incomplete">>}
<1>1. CASE ss = <<>>
  <2>1. CASE calendar.type # "working" \/ calendar.leave = "full"
    BY <1>1, <2>1, Zenon DEF Status
  <2>2. CASE ~(calendar.type # "working" \/ calendar.leave = "full")
    <3>1. Status(ss, t) = "not_started" /\ Status(ss, u) = "absent"
      BY <1>1, <2>2, Zenon DEF Status
    <3>. QED
      BY <3>1
  <2>. QED
    BY <2>1, <2>2
<1>2. CASE ss # <<>> /\ Missing(ss)
  <2>1. Status(ss, t) = "present" /\ Status(ss, u) = "incomplete"
    BY <1>2, Zenon DEF Status
  <2>. QED
    BY <2>1
<1>3. CASE ss # <<>> /\ ~Missing(ss)
  BY <1>3, Zenon DEF Status
<1>. QED
  BY <1>1, <1>2, <1>3

\* Of a date that is over, the instant of processing decides the status at most, and only while
\* the window is open.
LEMMA FinalOnceClosed ==
  ASSUME ClockInv, NEW es, NEW t \in Instants, NEW u \in Instants, Job <= t, t <= u,
         NEW was, was = ProcessDay(es, t), NEW due, due = ProcessDay(es, u)
  PROVE  \/ was = due
         \/ /\ WindowEnd(Shift, Day) > Job
            /\ <<was.status, due.status>> \in {<<"not_started", "absent">>, <<"present", "incomplete">>}
            /\ was = [due EXCEPT !.status = was.status]
<1>1. /\ t \in Int /\ u \in Int /\ Job \in Int /\ WindowEnd(Shift, Day) \in Int
      /\ ~ Day > DateOf(t) /\ ~ Day > DateOf(u)
  <2>1. t \in Int /\ Job \in Int /\ WindowEnd(Shift, Day) \in Int /\ ~ Day > DateOf(t)
    BY AtJob
  <2>2. u \in Int
    BY NearEnough
  <2>3. Job <= u
    BY <2>1, <2>2
  <2>. QED
    BY <2>1, <2>2, <2>3, AtJob
<1>2. CASE es = <<>> /\ Shift = NoShift
  BY <1>2, Zenon DEF ProcessDay
<1>3. CASE ~(es = <<>> /\ Shift = NoShift)
  <2>1. PICK ss : ss = PairEvents(es)
    OBVIOUS
  <2>2. was = Summary(ss, t) /\ due = Summary(ss, u)
    BY <1>1, <1>3, <2>1, Zenon DEF ProcessDay
  <2>3. CASE t < WindowEnd(Shift, Day) /\ ~ u < WindowEnd(Shift, Day)
    <3>1. PICK p, q : p = Status(ss, t) /\ q = Status(ss, u)
      OBVIOUS
    <3>2. p = q \/ <<p, q>> \in {<<"not_started", "absent">>, <<"present", "incomplete">>}
      BY <2>3, <3>1, StatusOnceClosed
    <3>3. was.status = p /\ due.status = q /\ was = [due EXCEPT !.status = p]
      BY <2>2, <3>1 DEF Summary
    <3>4. due = [due EXCEPT !.status = q]
      BY <2>2, <3>1 DEF Summary
    <3>5. WindowEnd(Shift, Day) > Job
      BY <1>1, <2>3
    <3>. QED
      BY <3>2, <3>3, <3>4, <3>5
  <2>4. CASE ~(t < WindowEnd(Shift, Day) /\ ~ u < WindowEnd(Shift, Day))
    <3>1. t < WindowEnd(Shift, Day) <=> u < WindowEnd(Shift, Day)
      BY <1>1, <2>4
    <3>2. Status(ss, t) = Status(ss, u)
      BY <3>1, Zenon DEF Status
    <3>. QED
      BY <2>2, <3>2, Zenon DEF Summary
  <2>. QED
    BY <2>3, <2>4
<1>. QED
  BY <1>2, <1>3

LEMMA SameDay ==
  ASSUME NEW es, NEW t, UNCHANGED rules
  PROVE  ProcessDay(es, t)' = ProcessDay(es, t)
<1>1. Summary(PairEvents(es), t)' = Summary(PairEvents(es), t)
  BY SameSummary
<1>2. roster' = roster
  BY DEF rules
<1>. QED
  BY <1>1, <1>2 DEF ProcessDay, Shift

LEMMA FinalInvNext == ClockInv /\ FinalInv /\ [Next]_vars => FinalInv'
<1>. SUFFICES ASSUME ClockInv, FinalInv, [Next]_vars, finalized'
              PROVE  \E t \in Instants : FinalAt(t)'
  BY DEF FinalInv
<1>1. now \in Instants /\ now \in Int /\ Job \in Int
  <2>1. Day \in Nat /\ NightlyAt \in Nat
    BY DayAssumption, ClockAssumption, DayLengthAssumption
  <2>2. Midnight(Day + 1) \in Int
    BY <2>1, DayLengthAssumption DEF Midnight
  <2>. QED
    BY <2>1, <2>2, NearEnough DEF ClockInv, Job
<1>2. Job' = Job
  BY DEF Job
\* The row as it is processed at t.
<1>3. ASSUME UNCHANGED rules, NEW t \in Instants, Job <= t, t <= now', row' = ProcessDay(log', t)
      PROVE  FinalAt(t)'
  <2>1. PICK es : es = log'
    OBVIOUS
  <2>2. ProcessDay(es, t)' = ProcessDay(es, t)
    BY <1>3, SameDay
  <2>3. ProcessDay(log, t)' = ProcessDay(es, t)'
    BY <2>1
  <2>. QED
    BY <1>2, <1>3, <2>1, <2>2, <2>3 DEF FinalAt
<1>4. CASE Tick \/ UNCHANGED vars
  <2>1. finalized /\ log' = log /\ row' = row /\ UNCHANGED rules /\ (now' > now \/ now' = now)
    BY <1>4 DEF Tick, vars
  <2>2. now' \in Int
    BY <1>1, <1>4, NearEnough DEF Tick, vars
  <2>3. PICK t \in Instants : FinalAt(t)
    BY <2>1 DEF FinalInv
  <2>4. t \in Int /\ Job <= t /\ t <= now /\ row = ProcessDay(log, t)
    BY <2>3, NearEnough DEF FinalAt
  <2>5. t <= now'
    BY <1>1, <2>1, <2>2, <2>4
  <2>. QED
    BY <1>3, <2>1, <2>4, <2>5
<1>5. CASE Nightly
  <2>1. now' = now /\ UNCHANGED rules /\ log' = log /\ row' = ProcessDay(log, now) /\ Job <= now
    BY <1>1, <1>5 DEF Nightly, Job
  <2>2. PICK t \in Instants : t = now
    BY <1>1
  <2>. QED
    BY <1>1, <1>3, <2>1, <2>2
<1>6. ASSUME NEW time \in Instants, NEW kind \in Kinds, Punch(time, kind)
      PROVE  \E t \in Instants : FinalAt(t)'
  <2>1. finalized /\ now' = now /\ UNCHANGED rules /\ row' = ProcessDay(log', now)
    BY <1>6 DEF Punch
  <2>2. PICK u \in Instants : FinalAt(u)
    BY <2>1 DEF FinalInv
  <2>3. u \in Int /\ Job <= u /\ u <= now
    BY <2>2, NearEnough DEF FinalAt
  <2>4. PICK t \in Instants : t = now /\ Job <= t
    BY <1>1, <2>3
  <2>. QED
    BY <1>1, <1>3, <2>1, <2>4
<1>. QED
  BY <1>4, <1>5, <1>6 DEF Next

\* The row the nightly job leaves is the one any later processing would compute.  Only where a shift's
\* punch window outlasts the job, which its comment rules out and the serializer does not, the status
\* may be provisional: not_started for absent, present for incomplete, all figures being final.
THEOREM NightlyRowStands == Spec => []NightlyIsFinal
<1>1. Init => ClockInv /\ FinalInv
  BY ClockInvInit DEF Init, FinalInv
<1>2. (ClockInv /\ FinalInv) /\ [Next]_vars => (ClockInv /\ FinalInv)'
  BY ClockInvNext, FinalInvNext
<1>3. ClockInv /\ FinalInv => NightlyIsFinal
  <2>. SUFFICES ASSUME ClockInv, FinalInv, finalized,
                       NEW due, due = ProcessDay(log, now)
                PROVE  \/ row = due
                       \/ /\ WindowEnd(Shift, Day) > Job
                          /\ <<row.status, due.status>> \in
                               {<<"not_started", "absent">>, <<"present", "incomplete">>}
                          /\ row = [due EXCEPT !.status = row.status]
    BY DEF NightlyIsFinal, Job
  <2>1. PICK t \in Instants : FinalAt(t)
    BY DEF FinalInv
  <2>2. now \in Instants /\ Job <= t /\ t <= now /\ row = ProcessDay(log, t)
    BY <2>1 DEF ClockInv, FinalAt
  <2>3. PICK u \in Instants : u = now
    BY <2>2
  <2>. QED
    BY <2>2, <2>3, FinalOnceClosed
<1>. QED
  BY <1>1, <1>2, <1>3, PTL DEF Spec

----------------------------------------------------------------------------
(* PunctualIsNotLate: the first IN of the sessions is not later than any   *)
(* IN of the log.                                                          *)

LEMMA SmallestIn ==
  ASSUME NEW s \in SUBSET Nat, s # {}
  PROVE  Min(s) \in s /\ \A y \in s : Min(s) <= y
<1>1. \E n \in s : \A m \in s : n <= m
  BY Least
<1>. QED
  BY <1>1, Zenon DEF Min

\* The first session with an IN gives FirstIn.
LEMMA FirstInIs ==
  ASSUME NEW ss \in Seq(Paired), NEW m \in 1 .. Len(ss), ss[m].in # NoEvent,
         \A j \in 1 .. Len(ss) : j < m => ss[j].in = NoEvent
  PROVE  FirstIn(ss) = ss[m].in
<1>. DEFINE ins == {i \in DOMAIN ss : ss[i].in # NoEvent}
<1>1. DOMAIN ss = 1 .. Len(ss) /\ Len(ss) \in Nat
  OBVIOUS
<1>2. m \in ins /\ ins \in SUBSET Nat
  BY <1>1
<1>3. Min(ins) \in ins /\ Min(ins) <= m
  <2>. HIDE DEF ins
  <2>. QED
    BY <1>2, SmallestIn
<1>4. Min(ins) = m
  <2>1. PICK i : i = Min(ins)
    OBVIOUS
  <2>2. i \in 1 .. Len(ss) /\ ss[i].in # NoEvent /\ i <= m
    BY <1>1, <1>3, <2>1
  <2>3. ~ i < m
    BY <2>2
  <2>. QED
    BY <1>1, <2>1, <2>2, <2>3
<1>5. FirstIn(ss) = IF ins = {} THEN NoEvent ELSE ss[Min(ins)].in
  BY DEF FirstIn
<1>. HIDE DEF ins
<1>. QED
  BY <1>2, <1>4, <1>5

LEMMA FirstInNone ==
  ASSUME NEW ss \in Seq(Paired), \A j \in 1 .. Len(ss) : ss[j].in = NoEvent
  PROVE  FirstIn(ss) = NoEvent
<1>1. {i \in DOMAIN ss : ss[i].in # NoEvent} = {}
  OBVIOUS
<1>. QED
  BY <1>1 DEF FirstIn

LEMMA FirstInEither ==
  ASSUME NEW ss \in Seq(Paired)
  PROVE  \/ FirstIn(ss) = NoEvent /\ \A j \in 1 .. Len(ss) : ss[j].in = NoEvent
         \/ \E m \in 1 .. Len(ss) : /\ ss[m].in # NoEvent /\ FirstIn(ss) = ss[m].in
                                    /\ \A j \in 1 .. Len(ss) : j < m => ss[j].in = NoEvent
<1>. DEFINE ins == {i \in 1 .. Len(ss) : ss[i].in # NoEvent}
<1>1. Len(ss) \in Nat
  OBVIOUS
<1>2. CASE ins = {}
  BY <1>2, FirstInNone
<1>3. CASE ins # {}
  <2>1. ins \in SUBSET Nat
    BY <1>1
  <2>2. PICK m \in ins : \A j \in ins : m <= j
    <3>. HIDE DEF ins
    <3>. QED
      BY <1>3, <2>1, Least
  <2>3. m \in 1 .. Len(ss) /\ ss[m].in # NoEvent
    BY <2>2
  <2>4. \A j \in 1 .. Len(ss) : j < m => ss[j].in = NoEvent
    BY <1>1, <2>2, <2>3
  <2>. QED
    BY <2>3, <2>4, FirstInIs
<1>. QED
  BY <1>2, <1>3

\* A session more gives the first IN only if there was none.
LEMMA FirstInAppend ==
  ASSUME NEW ss \in Seq(Paired), NEW s \in Paired
  PROVE  FirstIn(Append(ss, s)) = IF FirstIn(ss) # NoEvent THEN FirstIn(ss) ELSE s.in
<1>1. PICK more : more = Append(ss, s)
  OBVIOUS
<1>2. PICK n \in Nat : n = Len(ss)
  OBVIOUS
<1>3. /\ more \in Seq(Paired) /\ Len(more) = n + 1 /\ more[n + 1] = s
      /\ \A k \in 1 .. n : more[k] = ss[k]
  BY <1>1, <1>2
<1>4. CASE FirstIn(ss) = NoEvent /\ \A j \in 1 .. n : ss[j].in = NoEvent
  <2>1. \A j \in 1 .. n + 1 : j < n + 1 => more[j].in = NoEvent
    BY <1>2, <1>3, <1>4
  <2>2. CASE s.in = NoEvent
    <3>1. \A j \in 1 .. n + 1 : more[j].in = NoEvent
      BY <1>2, <1>3, <2>1, <2>2
    <3>. QED
      BY <1>1, <1>3, <1>4, <2>2, <3>1, FirstInNone
  <2>3. CASE s.in # NoEvent
    <3>1. n + 1 \in 1 .. Len(more)
      BY <1>2, <1>3
    <3>2. FirstIn(more) = more[n + 1].in
      BY <1>3, <2>1, <2>3, <3>1, FirstInIs
    <3>. QED
      BY <1>1, <1>3, <1>4, <3>2
  <2>. QED
    BY <2>2, <2>3
<1>5. ASSUME NEW m \in 1 .. n, ss[m].in # NoEvent, FirstIn(ss) = ss[m].in,
             \A j \in 1 .. n : j < m => ss[j].in = NoEvent
      PROVE  FirstIn(more) = FirstIn(ss)
  <2>1. m \in 1 .. Len(more) /\ more[m].in # NoEvent /\ more[m] = ss[m]
    BY <1>2, <1>3, <1>5
  <2>2. \A j \in 1 .. Len(more) : j < m => more[j].in = NoEvent
    BY <1>2, <1>3, <1>5
  <2>3. FirstIn(more) = more[m].in
    BY <1>3, <2>1, <2>2, FirstInIs
  <2>. QED
    BY <1>5, <2>1, <2>3
<1>. QED
  BY <1>1, <1>2, <1>4, <1>5, FirstInEither

\* The first IN of a pairing under way.
FirstOf(m) == IF FirstIn(m.done) # NoEvent THEN FirstIn(m.done) ELSE m.open

\* One turn of pairing sets the first IN at most once.
LEMMA TurnFirst ==
  ASSUME NEW m \in Pairing, NEW e \in Event
  PROVE  FirstOf(Turn(m, e)) =
           IF FirstOf(m) # NoEvent THEN FirstOf(m) ELSE IF e.kind = "OUT" THEN NoEvent ELSE e
<1>1. m.done \in Seq(Paired) /\ m.open \in Ending /\ e \in Ending /\ NoEvent \in Ending /\ e # NoEvent
  BY NoEventAssumption DEF Pairing, Ending, Event
<1>2. ASSUME NEW out \in Ending
      PROVE  FirstIn(Append(m.done, Session(m.open, out))) = FirstOf(m)
  <2>1. Session(m.open, out) \in Paired /\ Session(m.open, out).in = m.open
    BY <1>1, SessionType
  <2>. QED
    BY <1>1, <2>1, FirstInAppend DEF FirstOf
<1>3. CASE e.kind = "OUT" \/ (e.kind = "UNSPECIFIED" /\ m.open # NoEvent)
  <2>1. Turn(m, e) = [done |-> Append(m.done, Session(m.open, e)), open |-> NoEvent]
    BY <1>3 DEF Turn
  <2>2. FirstOf(Turn(m, e)) = FirstOf(m)
    BY <1>1, <1>2, <2>1 DEF FirstOf
  <2>3. CASE FirstOf(m) # NoEvent
    BY <2>2, <2>3
  <2>4. CASE FirstOf(m) = NoEvent
    BY <1>3, <2>2, <2>4 DEF FirstOf
  <2>. QED
    BY <2>3, <2>4
<1>4. CASE ~ (e.kind = "OUT" \/ (e.kind = "UNSPECIFIED" /\ m.open # NoEvent)) /\ m.open = NoEvent
  <2>1. Turn(m, e) = [done |-> m.done, open |-> e]
    BY <1>4 DEF Turn
  <2>. QED
    BY <1>4, <2>1 DEF FirstOf
<1>5. CASE ~ (e.kind = "OUT" \/ (e.kind = "UNSPECIFIED" /\ m.open # NoEvent)) /\ m.open # NoEvent
  <2>1. Turn(m, e) = [done |-> Append(m.done, Session(m.open, NoEvent)), open |-> e]
    BY <1>5 DEF Turn
  <2>2. FirstOf(m) # NoEvent
    BY <1>5 DEF FirstOf
  <2>3. FirstIn(Turn(m, e).done) = FirstOf(m)
    BY <1>1, <1>2, <2>1
  <2>. QED
    BY <2>2, <2>3 DEF FirstOf
<1>. QED
  BY <1>3, <1>4, <1>5

LEMMA ClosedFirst ==
  ASSUME NEW m \in Pairing
  PROVE  FirstIn(Closed(m)) = FirstOf(m)
<1>1. m.done \in Seq(Paired) /\ m.open \in Ending /\ NoEvent \in Ending
  BY DEF Pairing, Ending
<1>2. Session(m.open, NoEvent) \in Paired /\ Session(m.open, NoEvent).in = m.open
  BY <1>1, SessionType
<1>. QED
  BY <1>1, <1>2, FirstInAppend DEF Closed, FirstOf

\* By turns, the first IN is the first punch that is no OUT.
LEMMA AlternatingFirst ==
  ASSUME NEW es \in Seq(Event), InOrder(es), NEW j \in 1 .. Len(es), es[j].kind # "OUT"
  PROVE  FirstIn(Alternating(es)) \in Event /\ FirstIn(Alternating(es)).time <= es[j].time
<1>. DEFINE n == Len(es)
<1>1. n \in Nat /\ \A k \in 1 .. n : es[k] \in Event
  OBVIOUS
<1>2. PICK g \in [0 .. n -> Pairing] :
        /\ g[0] = Unpaired /\ Alternating(es) = Closed(g[n])
        /\ \A k \in 1 .. n : g[k] = Turn(g[k - 1], es[k])
  BY AlternatingSteps
<1>. DEFINE First(k) == \/ FirstOf(g[k]) = NoEvent /\ \A i \in 1 .. k : es[i].kind = "OUT"
                        \/ \E m \in 1 .. k : /\ FirstOf(g[k]) = es[m]
                                             /\ \A i \in 1 .. n : i < m => es[i].kind = "OUT"
<1>. HIDE DEF n
<1>3. First(n)
  <2>. DEFINE T == {k \in 0 .. n : First(k)}
  <2>1. 0 \in T
    <3>1. FirstOf(g[0]) = NoEvent
      <4>1. <<>> \in Seq(Paired) /\ \A i \in 1 .. 0 : FALSE
        OBVIOUS
      <4>2. FirstIn(<<>>) = NoEvent
        BY <4>1, EmptySeq, FirstInNone
      <4>. QED
        BY <1>2, <4>2 DEF FirstOf, Unpaired
    <3>. QED
      BY <1>1, <3>1
  <2>2. ASSUME NEW k \in 0 .. n - 1, k \in T
        PROVE  k + 1 \in T
    <3>1. k + 1 \in 1 .. n /\ (k + 1) - 1 = k /\ k + 1 \in 0 .. n /\ k \in 0 .. n /\ k \in Nat
      BY <1>1
    <3>2. PICK m \in Pairing, e \in Event : m = g[k] /\ e = es[k + 1]
      BY <1>1, <1>2, <3>1
    <3>3. g[k + 1] = Turn(m, e)
      BY <1>2, <3>1, <3>2
    <3>4. FirstOf(g[k + 1]) =
            IF FirstOf(m) # NoEvent THEN FirstOf(m) ELSE IF e.kind = "OUT" THEN NoEvent ELSE e
      BY <3>3, TurnFirst
    <3>5. \A i \in 1 .. n : es[i] # NoEvent
      BY <1>1, NoEventAssumption DEF Event
    <3>6. First(k)
      BY <2>2
    <3>7. CASE FirstOf(m) # NoEvent
      <4>1. PICK f \in 1 .. k : FirstOf(m) = es[f] /\ \A i \in 1 .. n : i < f => es[i].kind = "OUT"
        BY <3>2, <3>6, <3>7
      <4>2. f \in 1 .. k + 1 /\ FirstOf(g[k + 1]) = es[f]
        BY <3>1, <3>4, <3>7, <4>1
      <4>3. First(k + 1)
        BY <4>1, <4>2
      <4>. QED
        BY <3>1, <4>3
    <3>8. CASE FirstOf(m) = NoEvent
      <4>1. \A i \in 1 .. k : es[i].kind = "OUT"
        <5>1. \A f \in 1 .. k : f \in 1 .. n
          BY <1>1, <3>1
        <5>. QED
          BY <3>2, <3>5, <3>6, <3>8, <5>1
      <4>2. CASE e.kind = "OUT"
        <5>1. FirstOf(g[k + 1]) = NoEvent
          BY <3>4, <3>8, <4>2
        <5>2. \A i \in 1 .. k + 1 : es[i].kind = "OUT"
          BY <3>1, <3>2, <4>1, <4>2
        <5>. QED
          BY <3>1, <5>1, <5>2
      <4>3. CASE e.kind # "OUT"
        <5>1. FirstOf(g[k + 1]) = es[k + 1]
          BY <3>2, <3>4, <3>8, <4>3
        <5>2. \A i \in 1 .. n : i < k + 1 => es[i].kind = "OUT"
          BY <3>1, <4>1
        <5>3. k + 1 \in 1 .. k + 1
          BY <3>1
        <5>4. First(k + 1)
          BY <5>1, <5>2, <5>3
        <5>. QED
          BY <3>1, <5>4
      <4>. QED
        BY <4>2, <4>3
    <3>. QED
      BY <3>7, <3>8
  <2>. HIDE DEF T
  <2>3. \A k \in 0 .. n : k \in T
    BY <1>1, <2>1, <2>2, UpTo
  <2>4. n \in T
    BY <1>1, <2>3
  <2>. QED
    BY <2>4 DEF T
<1>4. j \in 1 .. n
  BY DEF n
<1>5. PICK f \in 1 .. n : FirstOf(g[n]) = es[f] /\ \A i \in 1 .. n : i < f => es[i].kind = "OUT"
  BY <1>3, <1>4
<1>6. f <= j
  BY <1>1, <1>4, <1>5
<1>7. es[f].time <= es[j].time
  BY <1>4, <1>5, <1>6 DEF InOrder, n
<1>8. FirstIn(Alternating(es)) = es[f]
  <2>1. PICK m \in Pairing : m = g[n]
    BY <1>1, <1>2
  <2>. QED
    BY <1>2, <1>5, <2>1, ClosedFirst
<1>. QED
  BY <1>1, <1>7, <1>8

\* What is accepted up to k, for punches in order: it is in order, none of it is
\* later than what comes or earlier than the first, and it has an IN not later than
\* any IN dropped.
Covers(acc, es, k) ==
  /\ InOrder(acc)
  /\ \A j \in 1 .. Len(acc) : es[1].time <= acc[j].time
  /\ \A j \in 1 .. Len(acc), i \in 1 .. Len(es) : i >= k => acc[j].time <= es[i].time
  /\ \A i \in 1 .. k : es[i].kind = "IN" =>
       \E j \in 1 .. Len(acc) : acc[j].kind # "OUT" /\ acc[j].time <= es[i].time

LEMMA AcceptCovers ==
  ASSUME NEW es \in Seq(Event), InOrder(es), NEW k \in 0 .. Len(es) - 1, NEW acc \in Seq(Event),
         Covers(acc, es, k)
  PROVE  Covers(Accept(acc, es[k + 1]), es, k + 1)
<1>1. PICK n \in Nat : n = Len(es)
  OBVIOUS
<1>2. k \in Nat /\ k + 1 \in 1 .. n
  BY <1>1
<1>3. PICK e \in Event : e = es[k + 1]
  BY <1>1, <1>2
<1>4. /\ \A i \in 1 .. n : es[i] \in Event /\ es[i].time \in Int
      /\ e.time \in Int /\ \A j \in 1 .. Len(acc) : acc[j] \in Event /\ acc[j].time \in Int
  BY <1>1, EventTimes
<1>5. \A a, b \in 1 .. n : a <= b => es[a].time <= es[b].time
  BY <1>1 DEF InOrder
<1>6. \A j \in 1 .. Len(acc) : acc[j].time <= e.time
  BY <1>1, <1>2, <1>3 DEF Covers
<1>7. ASSUME NEW i \in 1 .. n, i >= k + 1 PROVE e.time <= es[i].time
  BY <1>2, <1>3, <1>5, <1>7
<1>8. ASSUME NEW j \in 1 .. Len(acc), NEW i \in 1 .. n, i >= k + 1 PROVE acc[j].time <= es[i].time
  <2>1. i >= k
    BY <1>2, <1>8
  <2>. QED
    BY <1>1, <2>1 DEF Covers
<1>11. es[1].time <= e.time
  <2>1. 1 \in 1 .. n /\ 1 <= k + 1
    BY <1>2
  <2>. QED
    BY <1>2, <1>3, <1>5, <2>1
<1>9. CASE acc # <<>> /\ Repeats(e, Last(acc))
  <2>1. Accept(acc, e) = acc
    BY <1>9 DEF Accept
  <2>2. PICK l \in 1 .. Len(acc) : Last(acc) = acc[l]
    <3>1. Len(acc) \in 1 .. Len(acc)
      BY <1>9, EmptySeq
    <3>. QED
      BY <3>1 DEF Last
  <2>3. e.kind = "IN" => acc[l].kind # "OUT"
    BY <1>9, <2>2 DEF Repeats
  <2>4. ASSUME NEW i \in 1 .. k + 1, es[i].kind = "IN"
        PROVE  \E j \in 1 .. Len(acc) : acc[j].kind # "OUT" /\ acc[j].time <= es[i].time
    <3>1. CASE i = k + 1
      BY <1>3, <1>6, <2>3, <2>4, <3>1
    <3>2. CASE i # k + 1
      <4>1. i \in 1 .. k
        BY <1>2, <3>2
      <4>. QED
        BY <2>4, <4>1 DEF Covers
    <3>. QED
      BY <3>1, <3>2
  <2>5. InOrder(acc) /\ \A j \in 1 .. Len(acc) : es[1].time <= acc[j].time
    BY DEF Covers
  <2>. QED
    BY <1>1, <1>3, <1>8, <2>1, <2>4, <2>5 DEF Covers
<1>10. CASE ~ (acc # <<>> /\ Repeats(e, Last(acc)))
  <2>1. PICK more \in Seq(Event) : more = Append(acc, e)
    <3>1. Append(acc, e) \in Seq(Event)
      OBVIOUS
    <3>. QED
      BY <3>1
  <2>2. PICK a \in Nat : a = Len(acc)
    OBVIOUS
  <2>3. Len(more) = a + 1 /\ more[a + 1] = e /\ \A j \in 1 .. a : more[j] = acc[j]
    BY <2>1, <2>2
  <2>4. Accept(acc, e) = more
    BY <1>10, <2>1 DEF Accept
  <2>5. InOrder(more)
    <3>1. ASSUME NEW i \in 1 .. a + 1, NEW j \in 1 .. a + 1, i <= j
          PROVE  more[i].time <= more[j].time
      <4>1. CASE j = a + 1
        <5>1. CASE i = a + 1
          BY <1>4, <2>3, <4>1, <5>1
        <5>2. CASE i # a + 1
          <6>1. i \in 1 .. a
            BY <2>2, <5>2
          <6>. QED
            BY <1>6, <2>2, <2>3, <4>1, <6>1
        <5>. QED
          BY <5>1, <5>2
      <4>2. CASE j # a + 1
        <5>1. i \in 1 .. a /\ j \in 1 .. a
          BY <2>2, <3>1, <4>2
        <5>. QED
          BY <2>2, <2>3, <3>1, <5>1 DEF Covers, InOrder
      <4>. QED
        BY <4>1, <4>2
    <3>. QED
      BY <2>3, <3>1 DEF InOrder
  <2>6. ASSUME NEW j \in 1 .. a + 1, NEW i \in 1 .. n, i >= k + 1 PROVE more[j].time <= es[i].time
    <3>1. CASE j = a + 1
      BY <1>7, <2>3, <2>6, <3>1
    <3>2. CASE j # a + 1
      <4>1. j \in 1 .. a
        BY <2>2, <3>2
      <4>. QED
        BY <1>8, <2>2, <2>3, <2>6, <4>1
    <3>. QED
      BY <3>1, <3>2
  <2>7. ASSUME NEW i \in 1 .. k + 1, es[i].kind = "IN"
        PROVE  \E j \in 1 .. a + 1 : more[j].kind # "OUT" /\ more[j].time <= es[i].time
    <3>1. CASE i = k + 1
      <4>1. a + 1 \in 1 .. a + 1 /\ more[a + 1].kind # "OUT" /\ more[a + 1].time <= es[i].time
        BY <1>3, <1>4, <2>2, <2>3, <2>7, <3>1
      <4>. QED
        BY <4>1
    <3>2. CASE i # k + 1
      <4>1. i \in 1 .. k
        BY <1>2, <3>2
      <4>2. PICK j \in 1 .. a : acc[j].kind # "OUT" /\ acc[j].time <= es[i].time
        BY <2>2, <2>7, <4>1 DEF Covers
      <4>3. j \in 1 .. a + 1 /\ more[j] = acc[j]
        BY <2>2, <2>3
      <4>. QED
        BY <4>2, <4>3
    <3>. QED
      BY <3>1, <3>2
  <2>8. ASSUME NEW j \in 1 .. a + 1 PROVE es[1].time <= more[j].time
    <3>1. CASE j = a + 1
      BY <1>11, <2>3, <3>1
    <3>2. CASE j # a + 1
      <4>1. j \in 1 .. a
        BY <2>2, <3>2
      <4>. QED
        BY <2>2, <2>3, <4>1 DEF Covers
    <3>. QED
      BY <3>1, <3>2
  <2>. QED
    BY <1>1, <1>3, <2>3, <2>4, <2>5, <2>6, <2>7, <2>8 DEF Covers
<1>. QED
  BY <1>9, <1>10

LEMMA AcceptedCovers ==
  ASSUME NEW es \in Seq(Event), InOrder(es)
  PROVE  Covers(Accepted(es), es, Len(es))
<1>. DEFINE n == Len(es)
<1>1. n \in Nat
  OBVIOUS
<1>2. PICK g \in [0 .. n -> Seq(Event)] :
        /\ g[0] = <<>> /\ Accepted(es) = g[n]
        /\ \A k \in 1 .. n : g[k] = Accept(g[k - 1], es[k])
  BY AcceptedSteps
<1>. DEFINE T == {k \in 0 .. n : Covers(g[k], es, k)}
<1>3. 0 \in T
  <2>1. Len(<<>>) = 0 /\ \A j \in 1 .. 0 : FALSE
    OBVIOUS
  <2>2. Covers(<<>>, es, 0)
    BY <2>1 DEF Covers, InOrder
  <2>. QED
    BY <1>1, <1>2, <2>2
<1>4. ASSUME NEW k \in 0 .. n - 1, k \in T
      PROVE  k + 1 \in T
  <2>1. k + 1 \in 1 .. n /\ (k + 1) - 1 = k /\ k + 1 \in 0 .. n /\ k \in 0 .. n
    BY <1>1
  <2>2. PICK acc \in Seq(Event) : acc = g[k]
    BY <1>2, <2>1
  <2>3. Covers(acc, es, k)
    BY <1>4, <2>2
  <2>4. g[k + 1] = Accept(acc, es[k + 1])
    BY <1>2, <2>1, <2>2
  <2>5. Covers(Accept(acc, es[k + 1]), es, k + 1)
    BY <2>3, AcceptCovers
  <2>. QED
    BY <2>1, <2>4, <2>5
<1>. HIDE DEF T, n
<1>5. \A k \in 0 .. n : k \in T
  BY <1>1, <1>3, <1>4, UpTo
<1>6. n \in T
  BY <1>1, <1>5
<1>. QED
  BY <1>2, <1>6 DEF T, n

\* However the punches are paired, the first IN is not later than any IN punched.
LEMMA FirstInCovers ==
  ASSUME NEW es \in Seq(Event), InOrder(es), NEW i \in 1 .. Len(es), es[i].kind = "IN"
  PROVE  FirstIn(PairEvents(es)) \in Event /\ FirstIn(PairEvents(es)).time <= es[i].time
<1>1. PICK acc \in Seq(Event) : acc = Accepted(es)
  BY AcceptedType
<1>2. PICK n \in Nat : n = Len(acc)
  OBVIOUS
<1>3. Covers(acc, es, Len(es))
  BY <1>1, AcceptedCovers
<1>4. InOrder(acc)
  BY <1>3 DEF Covers
<1>5. PICK j \in 1 .. n : acc[j].kind # "OUT" /\ acc[j].time <= es[i].time
  BY <1>2, <1>3 DEF Covers
<1>6. acc[1] \in Event /\ acc[j] \in Event /\ n # 0 /\ acc[1].time <= acc[j].time
  <2>1. 1 \in 1 .. n /\ 1 <= j
    BY <1>2, <1>5
  <2>. QED
    BY <1>2, <1>4, <1>5, <2>1 DEF InOrder
<1>7. es[i].time \in Int /\ acc[1].time \in Int /\ acc[j].time \in Int
  BY <1>6, EventTimes
<1>8. CASE mode = "first_last" /\ \A k \in 1 .. n : acc[k].kind = "UNSPECIFIED"
  <2>1. PICK out \in Ending : out = IF n = 1 THEN NoEvent ELSE acc[n]
    <3>1. n \in 1 .. n
      BY <1>2, <1>6
    <3>2. acc[n] \in Event
      BY <1>2, <3>1
    <3>. QED
      BY <3>2 DEF Ending
  <2>2. acc[1] \in Ending /\ acc[1] # NoEvent
    BY <1>6, NoEventAssumption DEF Ending, Event
  <2>3. PICK s \in Paired : s = Session(acc[1], out)
    BY <2>1, <2>2, SessionType
  <2>4. PairEvents(es) = <<s>>
    BY <1>1, <1>2, <1>6, <1>8, <2>1, <2>3 DEF PairEvents
  <2>5. PICK ss \in Seq(Paired) : ss = <<s>>
    <3>1. <<s>> \in Seq(Paired)
      OBVIOUS
    <3>. QED
      BY <3>1
  <2>6. Len(ss) = 1 /\ ss[1] = s /\ s.in = acc[1]
    BY <2>1, <2>2, <2>3, <2>5, SessionType
  <2>7. 1 \in 1 .. Len(ss) /\ ss[1].in # NoEvent /\ \A k \in 1 .. Len(ss) : k < 1 => ss[k].in = NoEvent
    BY <2>2, <2>6
  <2>8. FirstIn(ss) = acc[1]
    BY <2>6, <2>7, FirstInIs
  <2>. QED
    BY <1>5, <1>6, <1>7, <2>4, <2>5, <2>8
<1>9. CASE ~ (mode = "first_last" /\ \A k \in 1 .. n : acc[k].kind = "UNSPECIFIED")
  <2>1. PairEvents(es) = Alternating(acc)
    BY <1>1, <1>2, <1>6, <1>9 DEF PairEvents
  <2>2. FirstIn(Alternating(acc)) \in Event /\ FirstIn(Alternating(acc)).time <= acc[j].time
    BY <1>2, <1>4, <1>5, AlternatingFirst
  <2>3. FirstIn(Alternating(acc)).time \in Int
    BY <2>2, EventTimes
  <2>. QED
    BY <1>5, <1>7, <2>1, <2>2, <2>3
<1>. QED
  BY <1>8, <1>9

\* The instants the shift starts and its grace period ends.
LEMMA ShiftTimes ==
  ASSUME ClockInv, Shift # NoShift
  PROVE  /\ Shift \in Shifts
         /\ StartDt(Shift, Day) \in Int /\ StartDt(Shift, Day) + Span(Shift.graceIn) \in Int
<1>1. Shift \in Shifts
  BY DayAssumption DEF ClockInv, Shift, Near, Snapshots
<1>2. Midnight(Day) \in Int /\ Shift.start \in Int /\ Shift.graceIn \in Nat /\ Minute \in Nat
  BY <1>1, DayAssumption, DayLengthAssumption, ShiftsAssumption, FiguresAssumption, MinuteAssumption DEF Midnight
<1>3. Shift.graceIn * Minute \in Nat
  BY <1>2
<1>. QED
  BY <1>1, <1>2, <1>3 DEF StartDt, Span

\* An employee who punched IN within the grace period is never marked late,
\* however the other punches of the day are paired or dropped.
THEOREM PunctualNeverLate == Spec => []PunctualIsNotLate
<1>1. ClockInv /\ LogInv /\ RowInv => PunctualIsNotLate
  <2>1. SUFFICES ASSUME ClockInv, LogInv, RowInv, row # NoRow, row.late > 0,
                        NEW i \in DOMAIN log, log[i].kind = "IN"
                 PROVE  log[i].time > StartDt(Shift, Day) + Span(Shift.graceIn)
    BY DEF PunctualIsNotLate
  <2>2. PICK es \in Seq(Event) : es = log /\ InOrder(es) /\ i \in 1 .. Len(es)
    BY <2>1 DEF LogInv
  <2>3. PICK t \in Instants : row = Summary(PairEvents(es), t)
    BY <2>1, <2>2 DEF RowInv
  <2>4. PICK ss : ss = PairEvents(es)
    OBVIOUS
  <2>5. Late(ss) > 0
    BY <2>1, <2>3, <2>4 DEF Summary
  <2>6. /\ Shift # NoShift
        /\ FirstIn(ss).time > StartDt(Shift, Day) + Span(Shift.graceIn)
    <3>1. ~ (0 > 0)
      OBVIOUS
    <3>. QED
      BY <2>5, <3>1 DEF Late, TimedRules
  <2>7. FirstIn(ss) \in Event /\ FirstIn(ss).time <= log[i].time
    BY <2>1, <2>2, <2>4, FirstInCovers
  <2>8. FirstIn(ss).time \in Int /\ log[i].time \in Int
    BY <2>2, <2>7, EventTimes
  <2>9. StartDt(Shift, Day) + Span(Shift.graceIn) \in Int
    BY <2>1, <2>6, ShiftTimes
  <2>. QED
    BY <2>6, <2>7, <2>8, <2>9
<1>. QED
  BY <1>1, RowAlways, PTL

----------------------------------------------------------------------------
(* WithinPresence: work and breaks go through the sessions once.           *)

\* _minutes of a duration: the most minutes that fit in it.
LEMMA MinutesBound ==
  ASSUME NEW d \in Int
  PROVE  /\ Minutes(d) \in Nat
         /\ d >= 0 => Minute * Minutes(d) <= d
         /\ \A x \in Nat : Minute * x <= d => x <= Minutes(d)
<1>. PICK u \in Nat \ {0} : u = Minute
  BY MinuteAssumption
<1>1. CASE d < 0
  <2>1. Minutes(d) = 0
    BY <1>1 DEF Minutes
  <2>2. ASSUME NEW x \in Nat, u * x <= d PROVE x <= 0
    <3>1. u * x >= 0
      OBVIOUS
    <3>. QED
      BY <1>1, <2>2, <3>1
  <2>. QED
    BY <1>1, <2>1, <2>2
<1>2. CASE ~ d < 0
  <2>1. PICK m : m = d \div u
    OBVIOUS
  <2>2. Minutes(d) = m
    BY <1>2, <2>1 DEF Minutes
  <2>3. m \in Int /\ u * m <= d /\ d < u * (m + 1)
    BY <2>1
  <2>4. m \in Nat
    <3>1. SUFFICES ASSUME m + 1 <= 0 PROVE FALSE
      BY <2>3
    <3>2. u * (m + 1) <= 0
      BY <2>3, <3>1
    <3>. QED
      BY <1>2, <2>3, <3>2
  <2>5. ASSUME NEW x \in Nat, u * x <= d PROVE x <= m
    <3>1. SUFFICES ASSUME m + 1 <= x PROVE FALSE
      BY <2>4
    <3>2. u * (m + 1) <= u * x
      BY <2>4, <3>1
    <3>3. u * (m + 1) \in Int /\ u * x \in Int
      BY <2>4
    <3>. QED
      BY <2>3, <2>5, <3>2, <3>3
  <2>. QED
    BY <2>2, <2>3, <2>4, <2>5
<1>. QED
  BY <1>1, <1>2

\* What the sums do with the next session.
Earn(sum, s) == IF Complete(s) THEN sum + Minutes(s.out.time - s.in.time) ELSE sum

EarnFold(es) ==
  CHOOSE iter : iter = [s \in SUBSET DOMAIN es |->
                          IF s = {} THEN 0 ELSE Earn(iter[s \ {Max(s)}], es[Max(s)])]

LEMMA SessionTimes ==
  ASSUME NEW s \in Paired
  PROVE  /\ s.in # NoEvent => s.in \in Event /\ s.in.time \in Int
         /\ s.out # NoEvent => s.out \in Event /\ s.out.time \in Int
BY EventTimes DEF Paired, Ending

LEMMA EarnType ==
  ASSUME NEW sum \in Nat, NEW s \in Paired
  PROVE  Earn(sum, s) \in Nat
<1>1. CASE Complete(s)
  <2>1. s.out.time - s.in.time \in Int
    BY <1>1, SessionTimes DEF Complete
  <2>. QED
    BY <1>1, <2>1, MinutesBound DEF Earn
<1>. QED
  BY <1>1 DEF Earn

\* There is a fold of all sessions by Earn.
LEMMA EarnFoldExists ==
  ASSUME NEW es \in Seq(Paired)
  PROVE  EarnFold(es) = [s \in SUBSET DOMAIN es |->
           IF s = {} THEN 0 ELSE Earn(EarnFold(es)[s \ {Max(s)}], es[Max(s)])]
<1>. DEFINE h == [p \in Nat \X Paired |-> Earn(p[1], p[2])]
<1>1. h \in [Nat \X Paired -> Nat]
  BY EarnType
<1>2. 0 \in Nat
  OBVIOUS
<1>3. \A a \in Nat, e \in Paired : h[<<a, e>>] = Earn(a, e)
  OBVIOUS
<1>. HIDE DEF h
<1>4. PICK f \in [SUBSET (1 .. Len(es)) -> Nat] : Folds(f, h, 0, es, Len(es))
  BY <1>1, <1>2, FoldsExist
<1>5. DOMAIN es = 1 .. Len(es) /\ Len(es) \in Nat
  OBVIOUS
<1>6. ASSUME NEW s \in SUBSET DOMAIN es
      PROVE  f[s] = IF s = {} THEN 0 ELSE Earn(f[s \ {Max(s)}], es[Max(s)])
  <2>1. CASE s = {}
    BY <1>4, <1>5, <2>1 DEF Folds
  <2>2. CASE s # {}
    <3>1. f[s] = h[<<f[s \ {Max(s)}], es[Max(s)]>>]
      BY <1>4, <1>5, <2>2 DEF Folds
    <3>2. f[s \ {Max(s)}] \in Nat
      <4>1. s \ {Max(s)} \in SUBSET (1 .. Len(es))
        BY <1>5
      <4>. QED
        BY <1>4, <4>1
    <3>3. Max(s) \in DOMAIN es
      BY <1>5, <2>2, LargestIn
    <3>4. es[Max(s)] \in Paired
      BY <1>5, <3>3
    <3>. QED
      BY <1>3, <2>2, <3>1, <3>2, <3>4
  <2>. QED
    BY <2>1, <2>2
<1>7. f = [s \in SUBSET DOMAIN es |-> IF s = {} THEN 0 ELSE Earn(f[s \ {Max(s)}], es[Max(s)])]
  BY <1>4, <1>5, <1>6
<1>8. \E g : g = [s \in SUBSET DOMAIN es |-> IF s = {} THEN 0 ELSE Earn(g[s \ {Max(s)}], es[Max(s)])]
  BY <1>7
<1>. QED
  BY <1>8, Zenon DEF EarnFold

\* What Gross is.
LEMMA GrossIsFold ==
  ASSUME NEW es
  PROVE  Gross(es) = EarnFold(es)[DOMAIN es]
BY DEF Gross, FoldLeft, MapThenFoldSet, EarnFold, Earn

\* It goes through the prefixes of the sessions.
LEMMA GrossSteps ==
  ASSUME NEW es \in Seq(Paired)
  PROVE  \E g \in [0 .. Len(es) -> Nat] :
           /\ g[0] = 0 /\ Gross(es) = g[Len(es)]
           /\ \A k \in 1 .. Len(es) : g[k] = Earn(g[k - 1], es[k])
<1>. DEFINE h == [p \in Nat \X Paired |-> Earn(p[1], p[2])]
<1>1. h \in [Nat \X Paired -> Nat]
  BY EarnType
<1>2. 0 \in Nat
  OBVIOUS
<1>3. \A a \in Nat, e \in Paired : h[<<a, e>>] = Earn(a, e)
  OBVIOUS
<1>. HIDE DEF h
<1>4. PICK f : f = EarnFold(es)
  OBVIOUS
<1>5. DOMAIN es = 1 .. Len(es) /\ Len(es) \in Nat /\ \A i \in 1 .. Len(es) : es[i] \in Paired
  OBVIOUS
<1>6. f = [s \in SUBSET (1 .. Len(es)) |->
             IF s = {} THEN 0 ELSE Earn(f[s \ {Max(s)}], es[Max(s)])]
  BY <1>4, <1>5, EarnFoldExists
<1>7. f[{}] = 0
  BY <1>6
<1>8. ASSUME NEW s \in SUBSET (1 .. Len(es)), s # {}, f[s \ {Max(s)}] \in Nat
      PROVE  f[s] = h[<<f[s \ {Max(s)}], es[Max(s)]>>]
  <2>1. es[Max(s)] \in Paired
    BY <1>5, <1>8, LargestIn
  <2>2. f[s] = Earn(f[s \ {Max(s)}], es[Max(s)])
    BY <1>6, <1>8
  <2>. QED
    BY <1>3, <1>8, <2>1, <2>2
<1>9. Gross(es) = f[1 .. Len(es)]
  BY <1>4, <1>5, GrossIsFold
<1>10. FoldsWithin(Nat, f, h, 0, es)
  BY <1>7, <1>8 DEF FoldsWithin
<1>11. PICK g : StepsOf(g, Nat, f, h, 0, es)
  BY <1>1, <1>2, <1>10, Unroll
<1>12. g \in [0 .. Len(es) -> Nat] /\ g[0] = 0 /\ g[Len(es)] = f[1 .. Len(es)]
  BY <1>11 DEF StepsOf
<1>13. ASSUME NEW k \in 1 .. Len(es)
       PROVE  g[k] = Earn(g[k - 1], es[k])
  <2>1. k - 1 \in 0 .. Len(es)
    BY <1>5
  <2>2. g[k] = h[<<g[k - 1], es[k]>>]
    BY <1>11 DEF StepsOf
  <2>. QED
    BY <1>3, <1>5, <1>12, <2>1, <2>2
<1>. QED
  BY <1>9, <1>12, <1>13

Resting == [sum : Nat, left : Ending]
NoRest == [sum |-> 0, left |-> NoEvent]
SumOf(m) == m.sum

RestFold(es) ==
  CHOOSE iter : iter = [s \in SUBSET DOMAIN es |->
                          IF s = {} THEN NoRest ELSE Rest(iter[s \ {Max(s)}], es[Max(s)])]

LEMMA RestType ==
  ASSUME NEW m \in Resting, NEW s \in Paired
  PROVE  Rest(m, s) \in Resting
<1>1. m.sum \in Nat /\ m.left \in Ending /\ s.out \in Ending
  BY DEF Resting, Paired
<1>2. CASE m.left = NoEvent \/ s.in = NoEvent
  BY <1>1, <1>2 DEF Rest, Resting
<1>3. CASE m.left # NoEvent /\ s.in # NoEvent
  <2>1. s.in.time - m.left.time \in Int
    BY <1>1, <1>3, SessionTimes, EventTimes DEF Ending
  <2>2. PICK d \in Nat : d = Minutes(s.in.time - m.left.time)
    BY <2>1, MinutesBound
  <2>3. Rest(m, s) = [sum |-> m.sum + d, left |-> s.out]
    BY <1>3, <2>2 DEF Rest
  <2>. QED
    BY <1>1, <2>3 DEF Resting
<1>. QED
  BY <1>2, <1>3

\* There is a fold of all sessions by Rest.
LEMMA RestFoldExists ==
  ASSUME NEW es \in Seq(Paired)
  PROVE  RestFold(es) = [s \in SUBSET DOMAIN es |->
           IF s = {} THEN NoRest ELSE Rest(RestFold(es)[s \ {Max(s)}], es[Max(s)])]
<1>. DEFINE h == [p \in Resting \X Paired |-> Rest(p[1], p[2])]
<1>1. h \in [Resting \X Paired -> Resting]
  BY RestType
<1>2. NoRest \in Resting
  BY DEF NoRest, Resting, Ending
<1>3. \A a \in Resting, e \in Paired : h[<<a, e>>] = Rest(a, e)
  OBVIOUS
<1>. HIDE DEF h
<1>4. PICK f \in [SUBSET (1 .. Len(es)) -> Resting] : Folds(f, h, NoRest, es, Len(es))
  BY <1>1, <1>2, FoldsExist
<1>5. DOMAIN es = 1 .. Len(es) /\ Len(es) \in Nat
  OBVIOUS
<1>6. ASSUME NEW s \in SUBSET DOMAIN es
      PROVE  f[s] = IF s = {} THEN NoRest ELSE Rest(f[s \ {Max(s)}], es[Max(s)])
  <2>1. CASE s = {}
    BY <1>4, <1>5, <2>1 DEF Folds
  <2>2. CASE s # {}
    <3>1. f[s] = h[<<f[s \ {Max(s)}], es[Max(s)]>>]
      BY <1>4, <1>5, <2>2 DEF Folds
    <3>2. f[s \ {Max(s)}] \in Resting
      <4>1. s \ {Max(s)} \in SUBSET (1 .. Len(es))
        BY <1>5
      <4>. QED
        BY <1>4, <4>1
    <3>3. Max(s) \in DOMAIN es
      BY <1>5, <2>2, LargestIn
    <3>4. es[Max(s)] \in Paired
      BY <1>5, <3>3
    <3>. QED
      BY <1>3, <2>2, <3>1, <3>2, <3>4
  <2>. QED
    BY <2>1, <2>2
<1>7. f = [s \in SUBSET DOMAIN es |-> IF s = {} THEN NoRest ELSE Rest(f[s \ {Max(s)}], es[Max(s)])]
  BY <1>4, <1>5, <1>6
<1>8. \E g : g = [s \in SUBSET DOMAIN es |-> IF s = {} THEN NoRest ELSE Rest(g[s \ {Max(s)}], es[Max(s)])]
  BY <1>7
<1>. QED
  BY <1>8, Zenon DEF RestFold

\* What Breaks is.
LEMMA BreaksIsFold ==
  ASSUME NEW es
  PROVE  Breaks(es) = SumOf(RestFold(es)[DOMAIN es])
BY DEF Breaks, FoldLeft, MapThenFoldSet, RestFold, SumOf, NoRest

\* It goes through the prefixes of the sessions.
LEMMA BreaksSteps ==
  ASSUME NEW es \in Seq(Paired)
  PROVE  \E g \in [0 .. Len(es) -> Resting] :
           /\ g[0] = NoRest /\ Breaks(es) = SumOf(g[Len(es)])
           /\ \A k \in 1 .. Len(es) : g[k] = Rest(g[k - 1], es[k])
<1>. DEFINE h == [p \in Resting \X Paired |-> Rest(p[1], p[2])]
<1>1. h \in [Resting \X Paired -> Resting]
  BY RestType
<1>2. NoRest \in Resting
  BY DEF NoRest, Resting, Ending
<1>3. \A a \in Resting, e \in Paired : h[<<a, e>>] = Rest(a, e)
  OBVIOUS
<1>. HIDE DEF h
<1>4. PICK f : f = RestFold(es)
  OBVIOUS
<1>5. DOMAIN es = 1 .. Len(es) /\ Len(es) \in Nat /\ \A i \in 1 .. Len(es) : es[i] \in Paired
  OBVIOUS
<1>6. f = [s \in SUBSET (1 .. Len(es)) |->
             IF s = {} THEN NoRest ELSE Rest(f[s \ {Max(s)}], es[Max(s)])]
  BY <1>4, <1>5, RestFoldExists
<1>7. f[{}] = NoRest
  BY <1>6
<1>8. ASSUME NEW s \in SUBSET (1 .. Len(es)), s # {}, f[s \ {Max(s)}] \in Resting
      PROVE  f[s] = h[<<f[s \ {Max(s)}], es[Max(s)]>>]
  <2>1. es[Max(s)] \in Paired
    BY <1>5, <1>8, LargestIn
  <2>2. f[s] = Rest(f[s \ {Max(s)}], es[Max(s)])
    BY <1>6, <1>8
  <2>. QED
    BY <1>3, <1>8, <2>1, <2>2
<1>9. Breaks(es) = SumOf(f[1 .. Len(es)])
  BY <1>4, <1>5, BreaksIsFold
<1>10. FoldsWithin(Resting, f, h, NoRest, es)
  BY <1>7, <1>8 DEF FoldsWithin
<1>11. PICK g : StepsOf(g, Resting, f, h, NoRest, es)
  BY <1>1, <1>2, <1>10, Unroll
<1>12. g \in [0 .. Len(es) -> Resting] /\ g[0] = NoRest /\ g[Len(es)] = f[1 .. Len(es)]
  BY <1>11 DEF StepsOf
<1>13. ASSUME NEW k \in 1 .. Len(es)
       PROVE  g[k] = Rest(g[k - 1], es[k])
  <2>1. k - 1 \in 0 .. Len(es)
    BY <1>5
  <2>2. g[k] = h[<<g[k - 1], es[k]>>]
    BY <1>11 DEF StepsOf
  <2>. QED
    BY <1>3, <1>5, <1>12, <2>1, <2>2
<1>. QED
  BY <1>9, <1>12, <1>13

\* What a session has of a window.
Share(from, to, sum, s) == IF Complete(s) THEN sum + Overlap(s.in.time, s.out.time, from, to) ELSE sum

ShareFold(es, from, to) ==
  CHOOSE iter : iter = [s \in SUBSET DOMAIN es |->
                          IF s = {} THEN 0 ELSE Share(from, to, iter[s \ {Max(s)}], es[Max(s)])]

LEMMA ShareType ==
  ASSUME NEW from \in Int, NEW to \in Int, NEW sum \in Nat, NEW s \in Paired
  PROVE  Share(from, to, sum, s) \in Nat
<1>1. CASE Complete(s)
  <2>1. s.in.time \in Int /\ s.out.time \in Int
    BY <1>1, SessionTimes DEF Complete
  <2>2. PICK d \in Int : d = (IF s.out.time < to THEN s.out.time ELSE to) - (IF s.in.time > from THEN s.in.time ELSE from)
    BY <2>1
  <2>3. Overlap(s.in.time, s.out.time, from, to) = Minutes(d)
    BY <2>2 DEF Overlap
  <2>. QED
    BY <1>1, <2>3, MinutesBound DEF Share
<1>. QED
  BY <1>1 DEF Share

\* There is a fold of all sessions by Share.
LEMMA ShareFoldExists ==
  ASSUME NEW es \in Seq(Paired), NEW from \in Int, NEW to \in Int
  PROVE  ShareFold(es, from, to) = [s \in SUBSET DOMAIN es |->
           IF s = {} THEN 0 ELSE Share(from, to, ShareFold(es, from, to)[s \ {Max(s)}], es[Max(s)])]
<1>. DEFINE h == [p \in Nat \X Paired |-> Share(from, to, p[1], p[2])]
<1>1. h \in [Nat \X Paired -> Nat]
  BY ShareType
<1>2. 0 \in Nat
  OBVIOUS
<1>3. \A a \in Nat, e \in Paired : h[<<a, e>>] = Share(from, to, a, e)
  OBVIOUS
<1>. HIDE DEF h
<1>4. PICK f \in [SUBSET (1 .. Len(es)) -> Nat] : Folds(f, h, 0, es, Len(es))
  BY <1>1, <1>2, FoldsExist
<1>5. DOMAIN es = 1 .. Len(es) /\ Len(es) \in Nat
  OBVIOUS
<1>6. ASSUME NEW s \in SUBSET DOMAIN es
      PROVE  f[s] = IF s = {} THEN 0 ELSE Share(from, to, f[s \ {Max(s)}], es[Max(s)])
  <2>1. CASE s = {}
    BY <1>4, <1>5, <2>1 DEF Folds
  <2>2. CASE s # {}
    <3>1. f[s] = h[<<f[s \ {Max(s)}], es[Max(s)]>>]
      BY <1>4, <1>5, <2>2 DEF Folds
    <3>2. f[s \ {Max(s)}] \in Nat
      <4>1. s \ {Max(s)} \in SUBSET (1 .. Len(es))
        BY <1>5
      <4>. QED
        BY <1>4, <4>1
    <3>3. Max(s) \in DOMAIN es
      BY <1>5, <2>2, LargestIn
    <3>4. es[Max(s)] \in Paired
      BY <1>5, <3>3
    <3>. QED
      BY <1>3, <2>2, <3>1, <3>2, <3>4
  <2>. QED
    BY <2>1, <2>2
<1>7. f = [s \in SUBSET DOMAIN es |-> IF s = {} THEN 0 ELSE Share(from, to, f[s \ {Max(s)}], es[Max(s)])]
  BY <1>4, <1>5, <1>6
<1>8. \E g : g = [s \in SUBSET DOMAIN es |-> IF s = {} THEN 0 ELSE Share(from, to, g[s \ {Max(s)}], es[Max(s)])]
  BY <1>7
<1>. QED
  BY <1>8, Zenon DEF ShareFold

\* What During is.
LEMMA DuringIsFold ==
  ASSUME NEW es, NEW from \in Int, NEW to \in Int
  PROVE  During(es, from, to) = ShareFold(es, from, to)[DOMAIN es]
BY DEF During, FoldLeft, MapThenFoldSet, ShareFold, Share

\* It goes through the prefixes of the sessions.
LEMMA DuringSteps ==
  ASSUME NEW es \in Seq(Paired), NEW from \in Int, NEW to \in Int
  PROVE  \E g \in [0 .. Len(es) -> Nat] :
           /\ g[0] = 0 /\ During(es, from, to) = g[Len(es)]
           /\ \A k \in 1 .. Len(es) : g[k] = Share(from, to, g[k - 1], es[k])
<1>. DEFINE h == [p \in Nat \X Paired |-> Share(from, to, p[1], p[2])]
<1>1. h \in [Nat \X Paired -> Nat]
  BY ShareType
<1>2. 0 \in Nat
  OBVIOUS
<1>3. \A a \in Nat, e \in Paired : h[<<a, e>>] = Share(from, to, a, e)
  OBVIOUS
<1>. HIDE DEF h
<1>4. PICK f : f = ShareFold(es, from, to)
  OBVIOUS
<1>5. DOMAIN es = 1 .. Len(es) /\ Len(es) \in Nat /\ \A i \in 1 .. Len(es) : es[i] \in Paired
  OBVIOUS
<1>6. f = [s \in SUBSET (1 .. Len(es)) |->
             IF s = {} THEN 0 ELSE Share(from, to, f[s \ {Max(s)}], es[Max(s)])]
  <2>1. ShareFold(es, from, to) = [s \in SUBSET DOMAIN es |->
          IF s = {} THEN 0 ELSE Share(from, to, ShareFold(es, from, to)[s \ {Max(s)}], es[Max(s)])]
    BY ShareFoldExists
  <2>. QED
    BY <1>4, <1>5, <2>1
<1>7. f[{}] = 0
  BY <1>6
<1>8. ASSUME NEW s \in SUBSET (1 .. Len(es)), s # {}, f[s \ {Max(s)}] \in Nat
      PROVE  f[s] = h[<<f[s \ {Max(s)}], es[Max(s)]>>]
  <2>1. es[Max(s)] \in Paired
    BY <1>5, <1>8, LargestIn
  <2>2. f[s] = Share(from, to, f[s \ {Max(s)}], es[Max(s)])
    BY <1>6, <1>8
  <2>. QED
    BY <1>3, <1>8, <2>1, <2>2
<1>9. During(es, from, to) = f[1 .. Len(es)]
  BY <1>4, <1>5, DuringIsFold
<1>10. FoldsWithin(Nat, f, h, 0, es)
  BY <1>7, <1>8 DEF FoldsWithin
<1>11. PICK g : StepsOf(g, Nat, f, h, 0, es)
  BY <1>1, <1>2, <1>10, Unroll
<1>12. g \in [0 .. Len(es) -> Nat] /\ g[0] = 0 /\ g[Len(es)] = f[1 .. Len(es)]
  BY <1>11 DEF StepsOf
<1>13. ASSUME NEW k \in 1 .. Len(es)
       PROVE  g[k] = Share(from, to, g[k - 1], es[k])
  <2>1. k - 1 \in 0 .. Len(es)
    BY <1>5
  <2>2. g[k] = h[<<g[k - 1], es[k]>>]
    BY <1>11 DEF StepsOf
  <2>. QED
    BY <1>3, <1>5, <1>12, <2>1, <2>2
<1>. QED
  BY <1>9, <1>12, <1>13

LEMMA SumsAreNat ==
  ASSUME NEW ss \in Seq(Paired), NEW from \in Int, NEW to \in Int
  PROVE  Gross(ss) \in Nat /\ Breaks(ss) \in Nat /\ During(ss, from, to) \in Nat
<1>1. Gross(ss) \in Nat
  <2>1. PICK g \in [0 .. Len(ss) -> Nat] : Gross(ss) = g[Len(ss)]
    BY GrossSteps
  <2>. QED
    BY <2>1
<1>2. Breaks(ss) \in Nat
  <2>1. PICK g \in [0 .. Len(ss) -> Resting] : Breaks(ss) = SumOf(g[Len(ss)])
    BY BreaksSteps
  <2>2. g[Len(ss)] \in Resting
    OBVIOUS
  <2>. QED
    BY <2>1, <2>2 DEF SumOf, Resting
<1>3. During(ss, from, to) \in Nat
  <2>1. PICK g \in [0 .. Len(ss) -> Nat] : During(ss, from, to) = g[Len(ss)]
    BY DuringSteps
  <2>. QED
    BY <2>1
<1>. QED
  BY <1>1, <1>2, <1>3

\* A session that has a punch, where it starts and where it ends.
Start(s) == IF s.in # NoEvent THEN s.in.time ELSE s.out.time
End(s) == IF s.out # NoEvent THEN s.out.time ELSE s.in.time
Punched(s) == s.in # NoEvent \/ s.out # NoEvent

\* Sessions one after the other between two instants.
Tidy(ss, lo, hi) ==
  /\ \A i \in 1 .. Len(ss) : /\ Punched(ss[i]) /\ lo <= Start(ss[i]) /\ Start(ss[i]) <= End(ss[i])
                             /\ End(ss[i]) <= hi
  /\ \A i, j \in 1 .. Len(ss) : j = i + 1 => End(ss[i]) <= Start(ss[j])

LEMMA PunchedTimes ==
  ASSUME NEW s \in Paired, Punched(s)
  PROVE  Start(s) \in Int /\ End(s) \in Int
BY SessionTimes DEF Punched, Start, End

\* One session more: what the sums gain fits between its end and the end before.
LEMMA OneMore ==
  ASSUME NEW s \in Paired, Punched(s), Start(s) <= End(s), NEW sum \in Nat, NEW m \in Resting,
         m.left = NoEvent \/ m.left.time <= Start(s), NEW before \in Int, before <= Start(s),
         m.left # NoEvent => m.left.time = before
  PROVE  /\ Earn(sum, s) \in Nat /\ Rest(m, s) \in Resting
         /\ Minute * (Earn(sum, s) + Rest(m, s).sum) <= Minute * (sum + m.sum) + (End(s) - before)
         /\ Rest(m, s).left # NoEvent => Rest(m, s).left.time = End(s)
<1>. PICK u \in Nat \ {0} : u = Minute
  BY MinuteAssumption
<1>1. Earn(sum, s) \in Nat /\ Rest(m, s) \in Resting /\ Start(s) \in Int /\ End(s) \in Int /\ m.sum \in Nat
  BY EarnType, RestType, PunchedTimes DEF Resting
<1>2. Rest(m, s).left = s.out
  BY DEF Rest
<1>3. s.out # NoEvent => s.out.time = End(s)
  BY DEF End
<1>4. PICK a \in Nat : Earn(sum, s) = sum + a /\ u * a <= End(s) - Start(s)
  <2>1. CASE Complete(s)
    <3>1. Start(s) = s.in.time /\ End(s) = s.out.time
      BY <2>1 DEF Start, End, Complete
    <3>2. PICK a \in Nat : a = Minutes(End(s) - Start(s))
      BY <1>1, MinutesBound
    <3>3. u * a <= End(s) - Start(s)
      <4>1. End(s) - Start(s) \in Int /\ End(s) - Start(s) >= 0
        BY <1>1
      <4>. QED
        BY <3>2, <4>1, MinutesBound
    <3>4. Earn(sum, s) = sum + a
      BY <2>1, <3>1, <3>2 DEF Earn
    <3>. QED
      BY <3>3, <3>4
  <2>2. CASE ~ Complete(s)
    <3>1. Earn(sum, s) = sum + 0 /\ u * 0 <= End(s) - Start(s)
      BY <1>1, <2>2 DEF Earn
    <3>. QED
      BY <3>1
  <2>. QED
    BY <2>1, <2>2
<1>5. PICK b \in Nat : Rest(m, s).sum = m.sum + b /\ u * b <= Start(s) - before
  <2>1. CASE m.left = NoEvent \/ s.in = NoEvent
    <3>1. Rest(m, s).sum = m.sum + 0 /\ u * 0 <= Start(s) - before
      BY <1>1, <2>1 DEF Rest
    <3>. QED
      BY <3>1
  <2>2. CASE m.left # NoEvent /\ s.in # NoEvent
    <3>1. s.in.time = Start(s) /\ m.left.time = before
      BY <2>2 DEF Start
    <3>2. Start(s) - before \in Int /\ Start(s) - before >= 0
      BY <1>1
    <3>3. PICK b \in Nat : b = Minutes(Start(s) - before)
      BY <3>2, MinutesBound
    <3>4. u * b <= Start(s) - before
      BY <3>2, <3>3, MinutesBound
    <3>5. Rest(m, s).sum = m.sum + b
      BY <2>2, <3>1, <3>3 DEF Rest
    <3>. QED
      BY <3>4, <3>5
  <2>. QED
    BY <2>1, <2>2
<1>6. u * (Earn(sum, s) + Rest(m, s).sum) <= u * (sum + m.sum) + (End(s) - before)
  <2>1. Earn(sum, s) + Rest(m, s).sum = (sum + m.sum) + (a + b)
    BY <1>1, <1>4, <1>5
  <2>2. PICK x \in Nat : x = sum + m.sum
    BY <1>1
  <2>3. u * (x + (a + b)) = u * x + (u * a + u * b)
    BY <2>2
  <2>4. u * a \in Nat /\ u * b \in Nat /\ u * x \in Nat
    BY <2>2
  <2>. QED
    BY <1>1, <1>4, <1>5, <2>1, <2>2, <2>3, <2>4
<1>. QED
  BY <1>1, <1>2, <1>3, <1>6

\* Work and breaks of sessions one after the other fit between the instants.
LEMMA TidySums ==
  ASSUME NEW ss \in Seq(Paired), NEW lo \in Int, NEW hi \in Int, lo <= hi, Tidy(ss, lo, hi)
  PROVE  Minute * (Gross(ss) + Breaks(ss)) <= hi - lo
<1>. DEFINE n == Len(ss)
<1>. PICK u \in Nat \ {0} : u = Minute
  BY MinuteAssumption
<1>1. n \in Nat /\ \A k \in 1 .. n : ss[k] \in Paired
  OBVIOUS
<1>2. PICK f \in [0 .. n -> Nat] :
        f[0] = 0 /\ Gross(ss) = f[n] /\ \A k \in 1 .. n : f[k] = Earn(f[k - 1], ss[k])
  BY GrossSteps
<1>3. PICK g \in [0 .. n -> Resting] :
        g[0] = NoRest /\ Breaks(ss) = SumOf(g[n]) /\ \A k \in 1 .. n : g[k] = Rest(g[k - 1], ss[k])
  BY BreaksSteps
<1>4. /\ \A i \in 1 .. n : /\ Punched(ss[i]) /\ lo <= Start(ss[i]) /\ Start(ss[i]) <= End(ss[i])
                           /\ End(ss[i]) <= hi
      /\ \A i, j \in 1 .. n : j = i + 1 => End(ss[i]) <= Start(ss[j])
  BY DEF Tidy
<1>. DEFINE At(k) == IF k = 0 THEN lo ELSE End(ss[k])
            Fits(k) == /\ u * (f[k] + g[k].sum) <= At(k) - lo
                       /\ g[k].left # NoEvent => g[k].left.time = At(k)
<1>. HIDE DEF n
<1>5. \A k \in 0 .. n : At(k) \in Int
  BY <1>1, <1>4, PunchedTimes
<1>6. Fits(n)
  <2>. DEFINE T == {k \in 0 .. n : Fits(k)}
  <2>1. 0 \in T
    <3>1. g[0].sum = 0 /\ g[0].left = NoEvent
      BY <1>3 DEF NoRest
    <3>2. u * (0 + 0) <= lo - lo
      OBVIOUS
    <3>. QED
      BY <1>1, <1>2, <3>1, <3>2
  <2>2. ASSUME NEW k \in 0 .. n - 1, k \in T
        PROVE  k + 1 \in T
    <3>1. k + 1 \in 1 .. n /\ (k + 1) - 1 = k /\ k + 1 \in 0 .. n /\ k \in 0 .. n /\ k \in Nat /\ k + 1 # 0
      BY <1>1
    <3>2. PICK s \in Paired, sum \in Nat, m \in Resting : s = ss[k + 1] /\ sum = f[k] /\ m = g[k]
      BY <1>1, <1>2, <1>3, <3>1
    <3>3. f[k + 1] = Earn(sum, s) /\ g[k + 1] = Rest(m, s)
      BY <1>2, <1>3, <3>1, <3>2
    <3>4. PICK before \in Int : before = At(k)
      BY <1>5, <3>1
    <3>5. before <= Start(s)
      <4>1. CASE k = 0
        BY <1>4, <3>1, <3>2, <3>4, <4>1
      <4>2. CASE k # 0
        <5>1. k \in 1 .. n
          BY <3>1, <4>2
        <5>. QED
          BY <1>4, <3>1, <3>2, <3>4, <4>2, <5>1
      <4>. QED
        BY <4>1, <4>2
    <3>6. Punched(s) /\ Start(s) <= End(s) /\ Start(s) \in Int /\ End(s) \in Int
      BY <1>4, <3>1, <3>2, PunchedTimes
    <3>7. Fits(k)
      BY <2>2
    <3>8. u * (sum + m.sum) <= before - lo /\ (m.left # NoEvent => m.left.time = before)
      BY <3>2, <3>4, <3>7
    <3>9. m.left = NoEvent \/ m.left.time <= Start(s)
      BY <3>5, <3>8
    <3>10. /\ Earn(sum, s) \in Nat /\ Rest(m, s) \in Resting
           /\ u * (Earn(sum, s) + Rest(m, s).sum) <= u * (sum + m.sum) + (End(s) - before)
           /\ Rest(m, s).left # NoEvent => Rest(m, s).left.time = End(s)
      BY <3>5, <3>6, <3>8, <3>9, OneMore
    <3>11. PICK x \in Int, y \in Int : x = u * (sum + m.sum) /\ y = u * (Earn(sum, s) + Rest(m, s).sum)
      <4>1. sum + m.sum \in Nat /\ Earn(sum, s) + Rest(m, s).sum \in Nat
        BY SMTT(30), <3>10 DEF Resting
      <4>. QED
        BY <4>1
    <3>12. y <= End(s) - lo
      <4>1. x <= before - lo /\ y <= x + (End(s) - before)
        BY <3>8, <3>10, <3>11
      <4>. QED
        BY <3>6, <4>1
    <3>13. At(k + 1) = End(s)
      BY <3>1, <3>2
    <3>14. Fits(k + 1)
      BY <3>3, <3>10, <3>11, <3>12, <3>13
    <3>. QED
      BY <3>1, <3>14
  <2>. HIDE DEF T
  <2>3. \A k \in 0 .. n : k \in T
    BY <1>1, <2>1, <2>2, UpTo
  <2>4. n \in T
    BY <1>1, <2>3
  <2>. QED
    BY <2>4 DEF T
<1>7. At(n) <= hi /\ At(n) \in Int
  <2>1. CASE n = 0
    BY <2>1
  <2>2. CASE n # 0
    <3>1. n \in 1 .. n
      BY <1>1, <2>2
    <3>. QED
      BY <1>1, <1>4, <1>5, <2>2, <3>1
  <2>. QED
    BY <2>1, <2>2
<1>8. PICK y \in Int : y = u * (f[n] + g[n].sum)
  <2>1. n \in 0 .. n
    BY <1>1
  <2>2. f[n] \in Nat /\ g[n].sum \in Nat
    BY <1>2, <1>3, <2>1 DEF Resting
  <2>3. f[n] + g[n].sum \in Nat
    BY <2>2
  <2>. QED
    BY <2>3
<1>9. y <= hi - lo
  BY <1>6, <1>7, <1>8
<1>. QED
  BY <1>2, <1>3, <1>8, <1>9 DEF SumOf

\* A later end changes nothing.
LEMMA TidyMore ==
  ASSUME NEW ss \in Seq(Paired), NEW lo \in Int, NEW hi \in Int, NEW more \in Int, hi <= more, Tidy(ss, lo, hi)
  PROVE  Tidy(ss, lo, more)
<1>1. \A i \in 1 .. Len(ss) : ss[i] \in Paired
  OBVIOUS
<1>2. ASSUME NEW i \in 1 .. Len(ss) PROVE End(ss[i]) <= more
  <2>1. End(ss[i]) \in Int /\ End(ss[i]) <= hi
    BY <1>1, PunchedTimes DEF Tidy
  <2>. QED
    BY <2>1
<1>. QED
  BY <1>2 DEF Tidy

\* A session after the last one.
LEMMA TidyAppend ==
  ASSUME NEW ss \in Seq(Paired), NEW lo \in Int, NEW hi \in Int, Tidy(ss, lo, hi), lo <= hi,
         NEW s \in Paired, Punched(s), hi <= Start(s), Start(s) <= End(s)
  PROVE  Tidy(Append(ss, s), lo, End(s))
<1>1. PICK more : more = Append(ss, s)
  OBVIOUS
<1>2. PICK n \in Nat : n = Len(ss)
  OBVIOUS
<1>3. Len(more) = n + 1 /\ more[n + 1] = s /\ \A i \in 1 .. n : more[i] = ss[i] /\ ss[i] \in Paired
  BY <1>1, <1>2
<1>4. Start(s) \in Int /\ End(s) \in Int
  BY PunchedTimes
<1>5. ASSUME NEW i \in 1 .. n
      PROVE  /\ Punched(ss[i]) /\ lo <= Start(ss[i]) /\ Start(ss[i]) <= End(ss[i])
             /\ End(ss[i]) <= hi /\ End(ss[i]) \in Int
  BY <1>2, <1>3, PunchedTimes DEF Tidy
<1>6. ASSUME NEW i \in 1 .. n + 1
      PROVE  /\ Punched(more[i]) /\ lo <= Start(more[i]) /\ Start(more[i]) <= End(more[i])
             /\ End(more[i]) <= End(s)
  <2>1. CASE i = n + 1
    BY <1>3, <1>4, <2>1
  <2>2. CASE i # n + 1
    <3>1. i \in 1 .. n
      BY <1>2, <2>2
    <3>. QED
      BY <1>3, <1>4, <1>5, <3>1
  <2>. QED
    BY <2>1, <2>2
<1>7. ASSUME NEW i \in 1 .. n + 1, NEW j \in 1 .. n + 1, j = i + 1
      PROVE  End(more[i]) <= Start(more[j])
  <2>1. i \in 1 .. n
    BY <1>2, <1>7
  <2>2. CASE j = n + 1
    BY <1>3, <1>4, <1>5, <2>1, <2>2
  <2>3. CASE j # n + 1
    <3>1. j \in 1 .. n
      BY <1>2, <2>3
    <3>. QED
      BY <1>2, <1>3, <1>7, <2>1, <3>1 DEF Tidy
  <2>. QED
    BY <2>2, <2>3
<1>. QED
  BY <1>1, <1>3, <1>6, <1>7 DEF Tidy

\* A pairing under way, up to an instant.
TidyTo(m, lo, hi) ==
  IF m.open = NoEvent THEN Tidy(m.done, lo, hi)
  ELSE m.open.time <= hi /\ lo <= m.open.time /\ Tidy(m.done, lo, m.open.time)

LEMMA OpenTime ==
  ASSUME NEW m \in Pairing
  PROVE  /\ m.done \in Seq(Paired) /\ m.open \in Ending /\ NoEvent \in Ending
         /\ m.open # NoEvent => m.open \in Event /\ m.open.time \in Int
BY EventTimes DEF Pairing, Ending

\* One turn of pairing keeps the sessions one after the other.
LEMMA TurnTidy ==
  ASSUME NEW m \in Pairing, NEW e \in Event, NEW lo \in Int, NEW hi \in Int, lo <= hi, hi <= e.time,
         TidyTo(m, lo, hi)
  PROVE  TidyTo(Turn(m, e), lo, e.time)
<1>1. e.time \in Int /\ e \in Ending /\ e # NoEvent
  BY EventTimes, NoEventAssumption DEF Event, Ending
<1>2. /\ m.done \in Seq(Paired) /\ m.open \in Ending /\ NoEvent \in Ending
      /\ m.open # NoEvent => m.open \in Event /\ m.open.time \in Int
  BY OpenTime
<1>3. CASE e.kind = "OUT" \/ (e.kind = "UNSPECIFIED" /\ m.open # NoEvent)
  <2>1. PICK s \in Paired : s = Session(m.open, e) /\ s.in = m.open /\ s.out = e
    BY <1>1, <1>2, SessionType
  <2>2. Turn(m, e) = [done |-> Append(m.done, s), open |-> NoEvent]
    BY <1>3, <2>1 DEF Turn
  <2>3. Punched(s) /\ End(s) = e.time
    BY <1>1, <2>1 DEF Punched, End
  <2>4. Tidy(Append(m.done, s), lo, End(s))
    <3>1. CASE m.open = NoEvent
      <4>1. Start(s) = e.time
        BY <2>1, <3>1 DEF Start
      <4>2. Tidy(m.done, lo, hi)
        BY <3>1 DEF TidyTo
      <4>. QED
        BY <1>1, <1>2, <2>3, <4>1, <4>2, TidyAppend
    <3>2. CASE m.open # NoEvent
      <4>1. Start(s) = m.open.time
        BY <2>1, <3>2 DEF Start
      <4>2. Tidy(m.done, lo, m.open.time) /\ lo <= m.open.time /\ m.open.time <= hi
        BY <3>2 DEF TidyTo
      <4>3. PICK o \in Int : o = m.open.time
        BY <1>2, <3>2
      <4>. QED
        BY <1>1, <1>2, <2>3, <4>1, <4>2, <4>3, TidyAppend
    <3>. QED
      BY <3>1, <3>2
  <2>. QED
    BY <2>2, <2>3, <2>4 DEF TidyTo
<1>4. CASE ~ (e.kind = "OUT" \/ (e.kind = "UNSPECIFIED" /\ m.open # NoEvent)) /\ m.open = NoEvent
  <2>1. Turn(m, e) = [done |-> m.done, open |-> e]
    BY <1>4 DEF Turn
  <2>2. Tidy(m.done, lo, hi)
    BY <1>4 DEF TidyTo
  <2>3. Tidy(m.done, lo, e.time)
    BY <1>1, <1>2, <2>2, TidyMore
  <2>. QED
    BY <1>1, <2>1, <2>3 DEF TidyTo
<1>5. CASE ~ (e.kind = "OUT" \/ (e.kind = "UNSPECIFIED" /\ m.open # NoEvent)) /\ m.open # NoEvent
  <2>1. PICK s \in Paired : s = Session(m.open, NoEvent) /\ s.in = m.open /\ s.out = NoEvent
    BY <1>2, SessionType
  <2>2. Turn(m, e) = [done |-> Append(m.done, s), open |-> e]
    BY <1>5, <2>1 DEF Turn
  <2>3. PICK o \in Int : o = m.open.time
    BY <1>2, <1>5
  <2>4. Punched(s) /\ Start(s) = o /\ End(s) = o
    BY <1>5, <2>1, <2>3 DEF Punched, Start, End
  <2>5. Tidy(m.done, lo, o) /\ lo <= o /\ o <= hi
    BY <1>5, <2>3 DEF TidyTo
  <2>6. Tidy(Append(m.done, s), lo, o)
    BY <1>2, <2>4, <2>5, TidyAppend
  <2>7. Append(m.done, s) \in Seq(Paired)
    BY <1>2
  <2>8. Tidy(Append(m.done, s), lo, e.time)
    BY <1>1, <2>5, <2>6, <2>7, TidyMore
  <2>. QED
    BY <1>1, <2>2, <2>5, <2>8 DEF TidyTo
<1>. QED
  BY <1>3, <1>4, <1>5

\* By turns, sessions lie one after the other.
LEMMA AlternatingTidy ==
  ASSUME NEW es \in Seq(Event), InOrder(es), es # <<>>
  PROVE  Tidy(Alternating(es), es[1].time, es[Len(es)].time)
<1>. DEFINE n == Len(es)
<1>1. n \in Nat /\ n # 0 /\ \A k \in 1 .. n : es[k] \in Event /\ es[k].time \in Int
  BY EmptySeq, EventTimes
<1>2. \A i, j \in 1 .. n : i <= j => es[i].time <= es[j].time
  BY DEF InOrder
<1>3. PICK g \in [0 .. n -> Pairing] :
        /\ g[0] = Unpaired /\ Alternating(es) = Closed(g[n])
        /\ \A k \in 1 .. n : g[k] = Turn(g[k - 1], es[k])
  BY AlternatingSteps
<1>. DEFINE At(k) == IF k = 0 THEN es[1].time ELSE es[k].time
<1>. HIDE DEF n
<1>4. PICK lo \in Int : lo = es[1].time
  <2>1. 1 \in 1 .. n
    BY <1>1
  <2>. QED
    BY <1>1, <2>1
<1>5. \A k \in 0 .. n : At(k) \in Int /\ lo <= At(k)
  <2>1. ASSUME NEW k \in 0 .. n PROVE At(k) \in Int /\ lo <= At(k)
    <3>1. CASE k = 0
      BY <1>4, <3>1
    <3>2. CASE k # 0
      <4>1. k \in 1 .. n /\ 1 \in 1 .. n /\ 1 <= k
        BY <1>1, <3>2
      <4>. QED
        BY <1>1, <1>2, <1>4, <3>2, <4>1
    <3>. QED
      BY <3>1, <3>2
  <2>. QED
    BY <2>1
<1>6. TidyTo(g[n], lo, At(n))
  <2>. DEFINE T == {k \in 0 .. n : TidyTo(g[k], lo, At(k))}
  <2>1. 0 \in T
    <3>1. Tidy(<<>>, lo, At(0))
      <4>1. Len(<<>>) = 0 /\ \A i \in 1 .. 0 : FALSE
        OBVIOUS
      <4>. QED
        BY <4>1 DEF Tidy
    <3>2. g[0].open = NoEvent /\ g[0].done = <<>>
      BY <1>3 DEF Unpaired
    <3>. QED
      BY <1>1, <3>1, <3>2 DEF TidyTo
  <2>2. ASSUME NEW k \in 0 .. n - 1, k \in T
        PROVE  k + 1 \in T
    <3>1. k + 1 \in 1 .. n /\ (k + 1) - 1 = k /\ k + 1 \in 0 .. n /\ k \in 0 .. n /\ k \in Nat /\ k + 1 # 0
      BY <1>1
    <3>2. PICK m \in Pairing, e \in Event : m = g[k] /\ e = es[k + 1]
      BY <1>1, <1>3, <3>1
    <3>3. g[k + 1] = Turn(m, e)
      BY <1>3, <3>1, <3>2
    <3>4. PICK hi \in Int : hi = At(k) /\ lo <= hi
      BY <1>5, <3>1
    <3>5. hi <= e.time
      <4>1. CASE k = 0
        <5>1. k + 1 = 1
          BY <4>1
        <5>. QED
          BY <1>1, <3>1, <3>2, <3>4, <4>1, <5>1
      <4>2. CASE k # 0
        <5>1. k \in 1 .. n /\ k <= k + 1
          BY <3>1, <4>2
        <5>. QED
          BY <1>2, <3>1, <3>2, <3>4, <4>2, <5>1
      <4>. QED
        BY <4>1, <4>2
    <3>6. TidyTo(m, lo, hi)
      BY <2>2, <3>2, <3>4
    <3>7. TidyTo(g[k + 1], lo, e.time)
      BY <3>3, <3>4, <3>5, <3>6, TurnTidy
    <3>8. At(k + 1) = e.time
      BY <3>1, <3>2
    <3>. QED
      BY <3>1, <3>7, <3>8
  <2>. HIDE DEF T
  <2>3. \A k \in 0 .. n : k \in T
    BY <1>1, <2>1, <2>2, UpTo
  <2>4. n \in T
    BY <1>1, <2>3
  <2>. QED
    BY <2>4 DEF T
<1>7. PICK m \in Pairing, hi \in Int : m = g[n] /\ hi = At(n) /\ lo <= hi
  <2>1. n \in 0 .. n
    BY <1>1
  <2>. QED
    BY <1>3, <1>5, <2>1
<1>8. /\ m.done \in Seq(Paired) /\ m.open \in Ending /\ NoEvent \in Ending
      /\ m.open # NoEvent => m.open \in Event /\ m.open.time \in Int
  BY OpenTime
<1>9. Tidy(Closed(m), lo, hi)
  <2>1. CASE m.open = NoEvent
    BY <1>6, <1>7, <2>1 DEF TidyTo, Closed
  <2>2. CASE m.open # NoEvent
    <3>1. PICK o \in Int : o = m.open.time
      BY <1>8, <2>2
    <3>2. PICK s \in Paired : s = Session(m.open, NoEvent) /\ s.in = m.open /\ s.out = NoEvent
      BY <1>8, SessionType
    <3>3. Punched(s) /\ Start(s) = o /\ End(s) = o
      BY <2>2, <3>1, <3>2 DEF Punched, Start, End
    <3>4. Tidy(m.done, lo, o) /\ lo <= o /\ o <= hi
      BY <1>6, <1>7, <2>2, <3>1 DEF TidyTo
    <3>5. Tidy(Append(m.done, s), lo, o)
      BY <1>8, <3>3, <3>4, TidyAppend
    <3>6. Append(m.done, s) \in Seq(Paired)
      BY <1>8
    <3>7. Tidy(Append(m.done, s), lo, hi)
      BY <3>4, <3>5, <3>6, TidyMore
    <3>. QED
      BY <2>2, <3>2, <3>7 DEF Closed
  <2>. QED
    BY <2>1, <2>2
<1>10. hi = es[n].time
  BY <1>1, <1>7
<1>. QED
  BY <1>3, <1>4, <1>7, <1>9, <1>10 DEF n

\* The sessions of a date lie between its first punch and its last.
LEMMA PairingTidy ==
  ASSUME NEW es \in Seq(Event), InOrder(es), es # <<>>
  PROVE  Tidy(PairEvents(es), es[1].time, es[Len(es)].time)
<1>1. PICK acc \in Seq(Event) : acc = Accepted(es)
  BY AcceptedType
<1>2. PICK n \in Nat : n = Len(acc)
  OBVIOUS
<1>3. Covers(acc, es, Len(es))
  BY <1>1, AcceptedCovers
<1>4. InOrder(acc)
  BY <1>3 DEF Covers
<1>5. PICK lo \in Int, hi \in Int : lo = es[1].time /\ hi = es[Len(es)].time
  <2>1. Len(es) \in Nat \ {0}
    BY EmptySeq
  <2>2. 1 \in 1 .. Len(es) /\ Len(es) \in 1 .. Len(es)
    BY <2>1
  <2>. QED
    BY <2>2, EventTimes
<1>6. \A j \in 1 .. n : acc[j] \in Event /\ acc[j].time \in Int /\ lo <= acc[j].time /\ acc[j].time <= hi
  <2>1. Len(es) \in 1 .. Len(es) /\ Len(es) >= Len(es)
    BY EmptySeq
  <2>. QED
    BY <1>2, <1>3, <1>5, <2>1, EventTimes DEF Covers
<1>7. CASE n = 0
  <2>1. PairEvents(es) = <<>>
    BY <1>1, <1>2, <1>7 DEF PairEvents
  <2>2. Len(<<>>) = 0 /\ \A i \in 1 .. 0 : FALSE
    OBVIOUS
  <2>. QED
    BY <2>1, <2>2 DEF Tidy
<1>8. CASE n # 0 /\ mode = "first_last" /\ \A k \in 1 .. n : acc[k].kind = "UNSPECIFIED"
  <2>1. 1 \in 1 .. n /\ n \in 1 .. n
    BY <1>2, <1>8
  <2>2. PICK first \in Event, last \in Event : first = acc[1] /\ last = acc[n]
    BY <1>6, <2>1
  <2>3. first # NoEvent /\ last # NoEvent /\ first \in Ending /\ last \in Ending /\ NoEvent \in Ending
    BY NoEventAssumption DEF Event, Ending
  <2>4. /\ first.time \in Int /\ last.time \in Int /\ lo <= first.time /\ last.time <= hi
        /\ first.time <= last.time
    BY <1>2, <1>4, <1>6, <2>1, <2>2 DEF InOrder
  <2>5. PICK out \in Ending : out = IF n = 1 THEN NoEvent ELSE last
    BY <2>3
  <2>6. PICK s \in Paired : s = Session(first, out) /\ s.in = first /\ s.out = out
    BY <2>3, <2>5, SessionType
  <2>7. PairEvents(es) = <<s>>
    BY <1>1, <1>2, <1>8, <2>2, <2>5, <2>6 DEF PairEvents
  <2>8. /\ Punched(s) /\ lo <= Start(s) /\ Start(s) <= End(s) /\ End(s) <= hi
    BY <2>3, <2>4, <2>5, <2>6 DEF Punched, Start, End
  <2>9. PICK ss : ss = <<s>>
    OBVIOUS
  <2>10. Len(ss) = 1 /\ ss[1] = s
    BY <2>9
  <2>11. Tidy(ss, lo, hi)
    BY <2>8, <2>10 DEF Tidy
  <2>. QED
    BY <1>5, <2>7, <2>9, <2>11
<1>9. CASE n # 0 /\ ~ (mode = "first_last" /\ \A k \in 1 .. n : acc[k].kind = "UNSPECIFIED")
  <2>1. PairEvents(es) = Alternating(acc)
    BY <1>1, <1>2, <1>9 DEF PairEvents
  <2>2. acc # <<>> /\ 1 \in 1 .. n /\ n \in 1 .. n
    BY <1>2, <1>9
  <2>3. Tidy(Alternating(acc), acc[1].time, acc[n].time)
    BY <1>2, <1>4, <2>2, AlternatingTidy
  <2>4. PICK ss \in Seq(Paired) : ss = Alternating(acc)
    BY AlternatingUses
  <2>5. acc[1].time \in Int /\ acc[n].time \in Int /\ lo <= acc[1].time /\ acc[n].time <= hi
    BY <1>6, <2>2
  <2>6. PICK a \in Int, b \in Int : a = acc[1].time /\ b = acc[n].time
    BY <2>5
  <2>7. Tidy(ss, a, hi)
    BY <2>3, <2>4, <2>5, <2>6, TidyMore
  <2>8. \A i \in 1 .. Len(ss) : ss[i] \in Paired
    OBVIOUS
  <2>9. \A i \in 1 .. Len(ss) : lo <= Start(ss[i])
    <3>1. ASSUME NEW i \in 1 .. Len(ss) PROVE lo <= Start(ss[i])
      <4>1. a <= Start(ss[i]) /\ Punched(ss[i])
        BY <2>7 DEF Tidy
      <4>2. Start(ss[i]) \in Int
        BY <2>8, <4>1, PunchedTimes
      <4>. QED
        BY <2>5, <2>6, <4>1, <4>2
    <3>. QED
      BY <3>1
  <2>10. Tidy(ss, lo, hi)
    BY <2>7, <2>9 DEF Tidy
  <2>. QED
    BY <1>5, <2>1, <2>4, <2>10
<1>. QED
  BY <1>7, <1>8, <1>9

\* Work is never more than the time in the sessions.
LEMMA WorkWithinGross ==
  ASSUME ClockInv, NEW ss \in Seq(Paired)
  PROVE  Work(ss) \in Nat /\ Work(ss) <= Gross(ss)
<1>1. Gross(ss) \in Nat /\ Breaks(ss) \in Nat
  BY SumsAreNat
<1>2. UnpaidBreak(ss) \in Nat
  <2>1. CASE Shift = NoShift \/ Shift.break.minutes = 0
    BY <2>1 DEF UnpaidBreak
  <2>2. CASE Shift # NoShift /\ Shift.break.minutes # 0
    <3>1. Shift \in Shifts
      BY <2>2, ShiftTimes
    <3>2. /\ Shift.break.minutes \in Nat
          /\ {Shift.break.start, Shift.break.end} \subseteq 0 .. DayLength - 1
      BY <3>1, FiguresAssumption
    <3>3. Shift.break.start \in Int /\ Shift.break.end \in Int /\ DayLength \in Int /\ Midnight(Day) \in Int
      BY <3>2, DayAssumption, DayLengthAssumption DEF Midnight
    <3>4. BreakStart \in Int
      BY <3>3 DEF BreakStart
    <3>5. BreakEnd \in Int
      <4>1. DateOf(BreakStart) \in Int
        BY <3>4, DateBounds
      <4>2. Midnight(DateOf(BreakStart)) \in Int
        BY <4>1, DayLengthAssumption DEF Midnight
      <4>. QED
        BY <3>3, <4>2 DEF BreakEnd
    <3>6. During(ss, BreakStart, BreakEnd) \in Nat
      BY <3>4, <3>5, SumsAreNat
    <3>. QED
      BY <1>1, <2>2, <3>2, <3>6 DEF UnpaidBreak
  <2>. QED
    BY <2>1, <2>2
<1>. QED
  BY <1>1, <1>2 DEF Work

\* Work and breaks together never exceed the time from the first punch of the
\* date to the last.
THEOREM AlwaysWithinPresence == Spec => []WithinPresence
<1>1. ClockInv /\ LogInv /\ RowInv => WithinPresence
  <2>1. SUFFICES ASSUME ClockInv, LogInv, RowInv, row # NoRow, log # <<>>
                 PROVE  row.work + row.breaks <= Minutes(log[Len(log)].time - log[1].time)
    BY DEF WithinPresence
  <2>2. PICK es \in Seq(Event) : es = log /\ InOrder(es)
    BY <2>1 DEF LogInv
  <2>3. PICK t \in Instants : row = Summary(PairEvents(es), t)
    BY <2>1, <2>2 DEF RowInv
  <2>4. PICK ss \in Seq(Paired) : ss = PairEvents(es)
    BY PairingIsFaithful
  <2>5. row.work = Work(ss) /\ row.breaks = Breaks(ss)
    BY <2>3, <2>4 DEF Summary
  <2>6. PICK lo \in Int, hi \in Int : lo = es[1].time /\ hi = es[Len(es)].time /\ lo <= hi
    <3>1. 1 \in 1 .. Len(es) /\ Len(es) \in 1 .. Len(es) /\ 1 <= Len(es)
      BY <2>1, <2>2, EmptySeq
    <3>. QED
      BY <2>2, <3>1, EventTimes DEF InOrder
  <2>7. Tidy(ss, lo, hi)
    BY <2>1, <2>2, <2>4, <2>6, PairingTidy
  <2>8. Minute * (Gross(ss) + Breaks(ss)) <= hi - lo
    BY <2>6, <2>7, TidySums
  <2>9. /\ Work(ss) \in Nat /\ Work(ss) <= Gross(ss)
        /\ Gross(ss) \in Nat /\ Breaks(ss) \in Nat
    BY <2>1, WorkWithinGross, SumsAreNat
  <2>10. Gross(ss) + Breaks(ss) \in Nat /\ hi - lo \in Int
    BY <2>9
  <2>11. Gross(ss) + Breaks(ss) <= Minutes(hi - lo) /\ Minutes(hi - lo) \in Nat
    BY <2>8, <2>10, MinutesBound
  <2>12. Work(ss) + Breaks(ss) <= Minutes(hi - lo)
    BY <2>9, <2>11
  <2>. QED
    BY <2>2, <2>5, <2>6, <2>12
<1>. QED
  BY <1>1, RowAlways, PTL
=============================================================================
