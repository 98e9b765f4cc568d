-------------------------- MODULE AlgorithmsProofs --------------------------
(***************************************************************************)
(* What the algorithms compute, for every input.  Each of them is a loop,  *)
(* modelled as a recursive function over the steps of the loop.  Recursion *)
(* says that this function exists, Ascent that what each step keeps holds  *)
(* to the end; a loop has its type, the invariant of its states after n    *)
(* steps (DialSoFar, FetchSoFar, MetadataSoFar, ScanSoFar), a lemma that   *)
(* one step keeps it, and one that puts these together.  The last sections *)
(* are about texts put together and taken apart: replacements in a text,   *)
(* and messages that are made of pieces.                                   *)
(***************************************************************************)
EXTENDS Algorithms, SequenceTheorems, FiniteSetTheorems, WellFoundedInduction, TLAPS

-----------------------------------------------------------------------------
(* Loops.                                                                  *)

\* What holds before a loop and is kept by each of its steps holds throughout:
\* induction over the steps of a loop, for a set in the place of a predicate.
LEMMA Ascent ==
  ASSUME NEW L \in Nat, NEW T, 0 \in T,
         \A n \in 1..L : n - 1 \in T => n \in T
  PROVE  0..L \subseteq T
<1> DEFINE S == (0..L) \ T
           R == OpToRel(<, Nat)
<1>1. SUFFICES ASSUME S # {} PROVE FALSE
  OBVIOUS
<1>2. S \subseteq Nat
  OBVIOUS
<1>3. IsWellFoundedOn(R, Nat)
  BY NatLessThanWellFounded
<1>4. \A x, y \in Nat : <<x, y>> \in R <=> x < y
  BY DEF OpToRel
<1>5. \A n \in S : n - 1 \in S /\ n - 1 < n
  OBVIOUS
<1> HIDE DEF S, R
<1>6. PICK n \in S : \A y \in S : ~(<<y, n>> \in R)
  BY <1>1, <1>2, <1>3, WFMin
<1> QED BY <1>2, <1>4, <1>5, <1>6

\* The states of a loop after 0 to L steps, each from the last by F.
States(f, L, s0, F) == f[0] = s0 /\ \A n \in 1..L : f[n] = F[<<n, f[n - 1]>>]

\* A loop has a result.
LEMMA Recursion ==
  ASSUME NEW L \in Nat, NEW S, NEW s0 \in S, NEW F \in [(1..L) \X S -> S]
  PROVE  \E f \in [0..L -> S] : States(f, L, s0, F)
<1> DEFINE Steps(f, n) == f[0] = s0 /\ \A k \in 1..n : f[k] = F[<<k, f[k - 1]>>]
           T == {n \in 0..L : \E f \in [0..n -> S] : Steps(f, n)}
<1>1. 0 \in T
  <2> DEFINE f == [k \in 0..0 |-> s0]
  <2>1. f \in [0..0 -> S] /\ f[0] = s0
    OBVIOUS
  <2>2. 1..0 = {} /\ 0 \in 0..L
    OBVIOUS
  <2> HIDE DEF f
  <2>3. Steps(f, 0)
    BY <2>1, <2>2
  <2> HIDE DEF Steps
  <2> QED BY <2>1, <2>2, <2>3
<1>2. \A n \in 1..L : n - 1 \in T => n \in T
  <2>1. SUFFICES ASSUME NEW n \in 1..L, n - 1 \in T PROVE n \in T
    OBVIOUS
  <2>2. PICK f \in [0..n - 1 -> S] : Steps(f, n - 1)
    BY <2>1
  <2> DEFINE g == [k \in 0..n |-> IF k = n THEN F[<<n, f[n - 1]>>] ELSE f[k]]
  <2>3. n \in 0..L /\ n - 1 \in 0..n - 1 /\ <<n, f[n - 1]>> \in (1..L) \X S
    OBVIOUS
  <2>4. \A k \in 0..n : g[k] \in S
    BY <2>3
  <2>5. g \in [0..n -> S]
    BY <2>4
  <2>6. g[0] = s0
    BY <2>2
  <2>7. \A k \in 1..n : g[k] = F[<<k, g[k - 1]>>]
    <3>1. TAKE k \in 1..n
    <3>2. CASE k = n
      <4>1. n \in 0..n /\ n - 1 \in 0..n /\ n - 1 # n
        OBVIOUS
      <4>2. g[n] = F[<<n, f[n - 1]>>] /\ g[n - 1] = f[n - 1]
        BY <4>1
      <4> HIDE DEF g
      <4> QED BY <3>2, <4>2
    <3>3. CASE k # n
      <4>1. k \in 1..n - 1 /\ k \in 0..n /\ k - 1 \in 0..n /\ k - 1 # n
        BY <3>3
      <4>2. g[k] = f[k] /\ g[k - 1] = f[k - 1]
        BY <4>1, <3>3
      <4> QED BY <2>2, <4>1, <4>2
    <3> QED BY <3>2, <3>3
  <2>8. Steps(g, n)
    BY <2>6, <2>7
  <2> HIDE DEF g, Steps
  <2> QED BY <2>3, <2>5, <2>8
<1>3. L \in T
  <2> HIDE DEF T
  <2> QED BY <1>1, <1>2, Ascent
<1>4. PICK f \in [0..L -> S] : Steps(f, L)
  BY <1>3
<1> QED BY <1>4 DEF States

\* Those of the places up to n that count.
Upto(Q, n) == {i \in 1..n : i \in Q}

\* Counting along a sequence: one more place adds one if it counts.
LEMMA Counting ==
  ASSUME NEW Q, NEW n \in Nat
  PROVE  /\ Cardinality(Upto(Q, n)) \in 0..n
         /\ n > 0 => Cardinality(Upto(Q, n)) =
                       Cardinality(Upto(Q, n - 1)) + IF n \in Q THEN 1 ELSE 0
<1> DEFINE C(k) == Upto(Q, k)
<1>1. ASSUME NEW k \in Nat PROVE IsFiniteSet(C(k)) /\ Cardinality(C(k)) \in 0..k
  <2>1. IsFiniteSet(1..k) /\ Cardinality(1..k) = k
    BY FS_Interval
  <2>2. C(k) \subseteq 1..k
    BY DEF Upto
  <2>3. IsFiniteSet(C(k)) /\ Cardinality(C(k)) <= k
    BY <2>1, <2>2, FS_Subset
  <2> HIDE DEF C
  <2>4. Cardinality(C(k)) \in Nat
    BY <2>3, FS_CardinalityType
  <2> QED BY <2>3, <2>4
<1>2. ASSUME n > 0, n \in Q PROVE Cardinality(C(n)) = Cardinality(C(n - 1)) + 1
  <2>1. C(n) = C(n - 1) \cup {n} /\ n \notin C(n - 1) /\ n - 1 \in Nat
    BY <1>2 DEF Upto
  <2> HIDE DEF C
  <2> QED BY <2>1, <1>1, FS_AddElement
<1>3. ASSUME n > 0, n \notin Q PROVE Cardinality(C(n)) = Cardinality(C(n - 1))
  <2>1. C(n) = C(n - 1)
    BY <1>3 DEF Upto
  <2> QED BY <2>1
<1>4. Cardinality(C(n - 1)) \in Int \/ n = 0
  BY <1>1
<1> HIDE DEF C
<1>5. Cardinality(C(n)) \in 0..n
  BY <1>1
<1>6. n > 0 => Cardinality(C(n)) = Cardinality(C(n - 1)) + IF n \in Q THEN 1 ELSE 0
  BY <1>2, <1>3, <1>4
<1> QED BY <1>5, <1>6 DEF C

-----------------------------------------------------------------------------
(* Dials.                                                                  *)

DialState == [elapsed : Nat, tried : Seq(Address), over : BOOLEAN, connected : BOOLEAN]

DialStart == [elapsed |-> 0, tried |-> <<>>, over |-> FALSE, connected |-> FALSE]

Deadlines == {NoDeadline} \cup 0..RequestTimeout

\* The places of the public addresses, counted.
PublicCount(a, n) == Cardinality(Public(a, n))

\* The time that a dial takes is within the budget and the deadline.
InTime(deadline, d) ==
  /\ d.elapsed <= RequestTimeout
  /\ deadline # NoDeadline => d.elapsed <= deadline

\* The public addresses among the first n were tried in their order.
InOrder(d, a, n) ==
  /\ Len(d.tried) <= PublicCount(a, n)
  /\ \A i \in Public(a, n) :
       PublicCount(a, i) <= Len(d.tried) => d.tried[PublicCount(a, i)] = a[i]

\* Until the loop is over every public address was tried, and it is over only for
\* a reason.
Justified(deadline, d, a, n) ==
  IF d.over THEN d.connected \/ d.elapsed \in {RequestTimeout, deadline}
  ELSE Len(d.tried) = PublicCount(a, n)

\* The state of the loop after n addresses.
DialSoFar(deadline, d, a, n) ==
  InTime(deadline, d) /\ InOrder(d, a, n) /\ Justified(deadline, d, a, n)

\* remainingBudget never allows more than is left, and nothing only at the end.
LEMMA BudgetFacts ==
  ASSUME NEW deadline \in Deadlines, NEW e \in Nat, e <= RequestTimeout,
         deadline # NoDeadline => e <= deadline
  PROVE  /\ RemainingBudget(deadline, e) \in Nat
         /\ e + RemainingBudget(deadline, e) <= RequestTimeout
         /\ deadline # NoDeadline => e + RemainingBudget(deadline, e) <= deadline
         /\ RemainingBudget(deadline, e) = 0 => e \in {RequestTimeout, deadline}
BY LimitsAssumption DEF Deadlines, NoDeadline, RemainingBudget

\* One more address is public or is not.
LEMMA PublicStep ==
  ASSUME NEW a \in Seq(Address), NEW n \in 1..Len(a)
  PROVE  /\ PublicCount(a, n) \in Nat
         /\ PublicCount(a, n - 1) \in Nat
         /\ PublicCount(a, n) = PublicCount(a, n - 1) + IF a[n].public THEN 1 ELSE 0
         /\ Public(a, n) = Public(a, n - 1) \cup (IF a[n].public THEN {n} ELSE {})
<1> DEFINE Q == {i \in Nat : a[i].public}
<1>1. n \in Nat /\ n > 0 /\ n - 1 \in Nat
  OBVIOUS
<1>2. \A k \in Nat : Public(a, k) = Upto(Q, k)
  BY DEF Public, Upto
<1>3. n \in Q <=> a[n].public
  BY <1>1
<1>4. Public(a, n) = Public(a, n - 1) \cup (IF a[n].public THEN {n} ELSE {})
  BY <1>1 DEF Public
<1> HIDE DEF Q
<1>5. PublicCount(a, n) \in 0..n /\ PublicCount(a, n - 1) \in 0..n - 1
  BY <1>1, <1>2, Counting DEF PublicCount
<1>6. PublicCount(a, n) = PublicCount(a, n - 1) + IF n \in Q THEN 1 ELSE 0
  <2>1. /\ PublicCount(a, n) = Cardinality(Upto(Q, n))
        /\ PublicCount(a, n - 1) = Cardinality(Upto(Q, n - 1))
    BY <1>1, <1>2 DEF PublicCount
  <2> QED BY <1>1, <2>1, Counting
<1> QED BY <1>3, <1>4, <1>5, <1>6

\* There are at least as many public addresses up to a later place.
LEMMA PublicMonotone ==
  ASSUME NEW a \in Seq(Address), NEW n \in 0..Len(a), NEW i \in Public(a, n)
  PROVE  PublicCount(a, i) <= PublicCount(a, n)
<1>1. i \in 1..n /\ n \in Nat
  BY DEF Public
<1>2. IsFiniteSet(1..n)
  BY <1>1, FS_Interval
<1>3. Public(a, n) \subseteq 1..n /\ Public(a, i) \subseteq Public(a, n)
  BY <1>1 DEF Public
<1>4. IsFiniteSet(Public(a, n))
  BY <1>2, <1>3, FS_Subset
<1> QED BY <1>3, <1>4, FS_Subset DEF PublicCount

\* An attempt keeps a state of the loop one.
LEMMA AttemptType ==
  ASSUME NEW deadline \in Deadlines, NEW d \in DialState, NEW x \in Address
  PROVE  Attempt(deadline, d, x) \in DialState
<1> DEFINE b == RemainingBudget(deadline, d.elapsed)
<1>1. b \in Nat
  BY LimitsAssumption DEF Deadlines, NoDeadline, RemainingBudget, DialState
<1>2. x.takes \in Nat
  BY BoundsAssumption DEF Address
<1>3. d.elapsed + Smaller(x.takes, b) \in Nat
  <2> HIDE DEF b
  <2> QED BY <1>1, <1>2 DEF Smaller, DialState
<1>4. Append(d.tried, x) \in Seq(Address)
  BY AppendProperties DEF DialState
<1>5. CASE d.over \/ ~x.public
  BY <1>5 DEF Attempt
<1>6. CASE ~(d.over \/ ~x.public) /\ b <= 0
  BY <1>6 DEF Attempt, DialState
<1>7. CASE ~(d.over \/ ~x.public) /\ ~(b <= 0) /\ x.connects /\ x.takes <= b
  BY <1>3, <1>4, <1>7 DEF Attempt, DialState
<1>8. CASE ~(d.over \/ ~x.public) /\ ~(b <= 0) /\ ~(x.connects /\ x.takes <= b)
  BY <1>3, <1>4, <1>8 DEF Attempt, DialState
<1> QED BY <1>5, <1>6, <1>7, <1>8

\* One attempt keeps within time.
LEMMA AttemptInTime ==
  ASSUME NEW deadline \in Deadlines, NEW d \in DialState, NEW x \in Address,
         InTime(deadline, d)
  PROVE  InTime(deadline, Attempt(deadline, d, x))
<1> DEFINE b == RemainingBudget(deadline, d.elapsed)
           e == d.elapsed + Smaller(x.takes, b)
<1>1. /\ b \in Nat /\ d.elapsed + b <= RequestTimeout
      /\ deadline # NoDeadline => d.elapsed + b <= deadline
  BY BudgetFacts DEF DialState, InTime
<1>2. x.takes \in Nat /\ d.elapsed \in Nat
  BY BoundsAssumption DEF Address, DialState
<1>3. deadline \in Int /\ RequestTimeout \in Int
  BY LimitsAssumption DEF Deadlines, NoDeadline
<1>4. e <= RequestTimeout /\ (deadline # NoDeadline => e <= deadline)
  <2> HIDE DEF b
  <2> QED BY <1>1, <1>2, <1>3 DEF Smaller
<1>5. Attempt(deadline, d, x).elapsed \in {d.elapsed, e}
  BY DEF Attempt, DialState
<1> HIDE DEF e
<1> QED BY <1>4, <1>5 DEF InTime

\* One attempt keeps the order of the attempts: it tries the next public address
\* or it is the end.
LEMMA AttemptInOrder ==
  ASSUME NEW deadline \in Deadlines, NEW d \in DialState, NEW a \in Seq(Address),
         NEW n \in 1..Len(a), DialSoFar(deadline, d, a, n - 1)
  PROVE  InOrder(Attempt(deadline, d, a[n]), a, n)
<1> DEFINE x == a[n]
           new == Attempt(deadline, d, x)
<1> SUFFICES InOrder(new, a, n)
  OBVIOUS
<1>1. x \in Address /\ x = a[n]
  BY ElementOfSeq
<1>2. /\ PublicCount(a, n) \in Nat /\ PublicCount(a, n - 1) \in Nat
      /\ PublicCount(a, n) = PublicCount(a, n - 1) + IF x.public THEN 1 ELSE 0
      /\ Public(a, n) = Public(a, n - 1) \cup (IF x.public THEN {n} ELSE {})
  BY PublicStep
<1>3. /\ Len(d.tried) \in Nat /\ d.tried \in Seq(Address)
      /\ Len(d.tried) <= PublicCount(a, n - 1)
      /\ \A i \in Public(a, n - 1) :
           PublicCount(a, i) <= Len(d.tried) => d.tried[PublicCount(a, i)] = a[i]
  BY LenProperties DEF DialSoFar, InOrder, DialState
<1>4. \A i \in Public(a, n - 1) : PublicCount(a, i) \in Nat /\ PublicCount(a, i) > 0
  <2>1. TAKE i \in Public(a, n - 1)
  <2>2. i \in 1..Len(a) /\ a[i].public
    BY DEF Public
  <2> QED BY <2>2, PublicStep
<1>5. \/ new.tried = d.tried /\ (x.public => d.over \/ new.over)
      \/ x.public /\ ~d.over /\ new.tried = Append(d.tried, x)
  BY DEF Attempt, DialState
<1> HIDE DEF new, x
<1>6. CASE new.tried = d.tried /\ ~x.public
  BY <1>2, <1>3, <1>6 DEF InOrder
<1>7. CASE new.tried = d.tried /\ x.public
  <2>1. Len(new.tried) <= PublicCount(a, n)
    BY <1>2, <1>3, <1>7
  <2>2. ~(PublicCount(a, n) <= Len(d.tried))
    BY <1>2, <1>3, <1>7
  <2> QED BY <1>2, <1>3, <1>7, <2>1, <2>2 DEF InOrder
<1>8. CASE x.public /\ ~d.over /\ new.tried = Append(d.tried, x)
  <2>1. Len(d.tried) = PublicCount(a, n - 1)
    BY <1>8 DEF DialSoFar, Justified
  <2>2. Len(new.tried) = PublicCount(a, n)
    BY <1>1, <1>2, <1>3, <1>8, <2>1, AppendProperties
  <2>3. \A k \in 1..Len(d.tried) : new.tried[k] = d.tried[k]
    BY <1>1, <1>3, <1>8, AppendProperties
  <2>4. new.tried[PublicCount(a, n)] = x
    BY <1>1, <1>2, <1>3, <1>8, <2>1, AppendProperties
  <2>5. ASSUME NEW i \in Public(a, n - 1) PROVE new.tried[PublicCount(a, i)] = a[i]
    <3>1. PublicCount(a, i) <= PublicCount(a, n - 1)
      BY PublicMonotone
    <3> QED BY <1>3, <1>4, <2>1, <2>3, <3>1
  <2>6. Len(new.tried) <= PublicCount(a, n)
    BY <1>2, <2>2
  <2> QED BY <1>1, <1>2, <1>8, <2>4, <2>5, <2>6 DEF InOrder
<1> QED BY <1>5, <1>6, <1>7, <1>8

\* The loop is over only for a reason.
LEMMA AttemptJustified ==
  ASSUME NEW deadline \in Deadlines, NEW d \in DialState, NEW a \in Seq(Address),
         NEW n \in 1..Len(a), DialSoFar(deadline, d, a, n - 1)
  PROVE  Justified(deadline, Attempt(deadline, d, a[n]), a, n)
<1> DEFINE x == a[n]
           b == RemainingBudget(deadline, d.elapsed)
           e == d.elapsed + Smaller(x.takes, b)
           new == Attempt(deadline, d, x)
<1> SUFFICES Justified(deadline, new, a, n)
  OBVIOUS
<1>1. /\ x \in Address /\ x.takes \in Nat
      /\ d.elapsed \in Nat /\ d.tried \in Seq(Address) /\ d.over \in BOOLEAN
  <2>1. x \in Address
    BY ElementOfSeq
  <2> HIDE DEF x
  <2> QED BY <2>1, BoundsAssumption DEF Address, DialState
<1>2. /\ PublicCount(a, n) \in Nat /\ PublicCount(a, n - 1) \in Nat
      /\ PublicCount(a, n) = PublicCount(a, n - 1) + IF x.public THEN 1 ELSE 0
  BY PublicStep
<1>3. /\ b \in Nat
      /\ deadline # NoDeadline => d.elapsed + b <= deadline
      /\ b = 0 => d.elapsed \in {RequestTimeout, deadline}
  BY <1>1, BudgetFacts DEF DialSoFar, InTime
<1>4. ~d.over => Len(d.tried) = PublicCount(a, n - 1)
  BY DEF DialSoFar, Justified
<1>5. deadline # NoDeadline => e <= deadline
  <2>1. deadline \in Int
    BY LimitsAssumption DEF Deadlines, NoDeadline
  <2> HIDE DEF b, x
  <2> QED BY <1>1, <1>3, <2>1 DEF Smaller
<1>6. ~d.over => Len(Append(d.tried, x)) = PublicCount(a, n - 1) + 1
  <2> HIDE DEF x
  <2> QED BY <1>1, <1>4, AppendProperties
<1>7. CASE d.over
  BY <1>7 DEF DialSoFar, Justified, Attempt
<1>8. CASE ~d.over /\ ~x.public
  <2>1. new = d
    BY <1>8 DEF Attempt
  <2> QED BY <1>2, <1>4, <1>8, <2>1 DEF Justified
<1>9. CASE ~d.over /\ x.public /\ b <= 0
  <2>1. new = [d EXCEPT !.over = TRUE] /\ b = 0
    BY <1>3, <1>9 DEF Attempt
  <2>2. new.over /\ new.elapsed = d.elapsed
    BY <2>1 DEF DialState
  <2> QED BY <1>3, <2>1, <2>2 DEF Justified
<1>10. CASE ~d.over /\ x.public /\ ~(b <= 0) /\ x.connects /\ x.takes <= b
  <2>1. new.over /\ new.connected
    BY <1>10 DEF Attempt
  <2> QED BY <2>1 DEF Justified
<1>11. CASE ~d.over /\ x.public /\ ~(b <= 0) /\ ~(x.connects /\ x.takes <= b)
  <2>1. new = [elapsed |-> e, tried |-> Append(d.tried, x),
               over |-> deadline # NoDeadline /\ e >= deadline, connected |-> FALSE]
    BY <1>11 DEF Attempt
  <2> HIDE DEF new
  <2>2. new.elapsed = e /\ new.tried = Append(d.tried, x)
    BY <2>1
  <2>3. new.over <=> (deadline # NoDeadline /\ e >= deadline)
    BY ONLY <2>1, Zenon
  <2>4. e \in Nat /\ deadline \in Int
    <3> HIDE DEF b, x
    <3> QED BY <1>1, <1>3, LimitsAssumption DEF Smaller, Deadlines, NoDeadline
  <2> HIDE DEF e, new, x
  <2>5. new.over => new.elapsed = deadline
    BY <1>5, <2>2, <2>3, <2>4
  <2>6. ~new.over => Len(new.tried) = PublicCount(a, n)
    BY <1>2, <1>6, <1>11, <2>2
  <2> QED BY <2>5, <2>6 DEF Justified
<1> QED BY <1>7, <1>8, <1>9, <1>10, <1>11

\* The loop over the addresses of a host, from its first state to its last.
LEMMA DialHolds ==
  ASSUME NEW deadline \in Deadlines, NEW a \in Seq(Address)
  PROVE  /\ Dial(deadline, a) \in DialState
         /\ DialSoFar(deadline, Dial(deadline, a), a, Len(a))
<1> DEFINE L == Len(a)
           F == [p \in (1..L) \X DialState |-> Attempt(deadline, p[2], a[p[1]])]
           Loop(f) == f = [n \in 0..L |-> IF n = 0 THEN DialStart
                                          ELSE Attempt(deadline, f[n - 1], a[n])]
           dial == CHOOSE f : Loop(f)
<1>1. L \in Nat /\ DialStart \in DialState
  BY LenProperties, EmptySeq DEF DialStart, DialState
<1>2. \A n \in 1..L : a[n] \in Address
  BY ElementOfSeq
<1>3. F \in [(1..L) \X DialState -> DialState]
  BY <1>2, AttemptType
<1>4. PICK f \in [0..L -> DialState] : States(f, L, DialStart, F)
  <2> HIDE DEF F, L
  <2> QED BY <1>1, <1>3, Recursion
<1>5. Loop(f)
  <2>1. \A n \in 1..L : F[<<n, f[n - 1]>>] = Attempt(deadline, f[n - 1], a[n])
    <3>1. TAKE n \in 1..L
    <3>2. n - 1 \in 0..L
      BY <1>1
    <3>3. <<n, f[n - 1]>> \in (1..L) \X DialState
      BY <3>2
    <3> QED BY <3>3
  <2>2. \A n \in 0..L : n = 0 \/ n \in 1..L
    BY <1>1
  <2> HIDE DEF F, L
  <2> QED BY <1>4, <2>1, <2>2 DEF States
<1>6. Loop(dial)
  BY <1>5
<1>7. Dial(deadline, a) = dial[L]
  BY DEF Dial, DialStart
<1>8. \A n \in 0..L : dial[n] = IF n = 0 THEN DialStart ELSE Attempt(deadline, dial[n - 1], a[n])
  BY <1>6
<1> DEFINE T == {n \in 0..L : /\ dial[n] \in DialState
                              /\ DialSoFar(deadline, dial[n], a, n)}
<1>9. 0 \in T
  <2>1. dial[0] = DialStart /\ 0 \in 0..L
    <3> HIDE DEF dial, L
    <3> QED BY <1>1, <1>8
  <2>2. Public(a, 0) = {} /\ PublicCount(a, 0) = 0
    <3>1. Public(a, 0) = {}
      BY DEF Public
    <3> QED BY <3>1, FS_EmptySet DEF PublicCount
  <2>3. InTime(deadline, DialStart)
    BY LimitsAssumption DEF InTime, DialStart, Deadlines, NoDeadline
  <2>4. InOrder(DialStart, a, 0) /\ Justified(deadline, DialStart, a, 0)
    BY <2>2, EmptySeq DEF InOrder, Justified, DialStart
  <2> HIDE DEF dial
  <2> QED BY <1>1, <2>1, <2>3, <2>4 DEF DialSoFar
<1>10. \A n \in 1..L : n - 1 \in T => n \in T
  <2>1. SUFFICES ASSUME NEW n \in 1..L, n - 1 \in T PROVE n \in T
    OBVIOUS
  <2>2. n \in 0..L /\ dial[n] = Attempt(deadline, dial[n - 1], a[n])
    BY <1>1, <1>8
  <2> HIDE DEF dial
  <2>3. dial[n - 1] \in DialState /\ DialSoFar(deadline, dial[n - 1], a, n - 1)
    BY <2>1
  <2>4. dial[n] \in DialState
    BY <1>2, <2>2, <2>3, AttemptType
  <2>5. DialSoFar(deadline, dial[n], a, n)
    BY <1>2, <2>2, <2>3, AttemptInTime, AttemptInOrder, AttemptJustified DEF DialSoFar
  <2> QED BY <2>2, <2>4, <2>5
<1>11. L \in T
  <2> HIDE DEF T, L
  <2> QED BY <1>1, <1>9, <1>10, Ascent, SMTT(30)
<1> HIDE DEF dial
<1> QED BY <1>7, <1>11

-----------------------------------------------------------------------------
(* Redirects.                                                              *)

FetchState == [state : {"redirected", "failed", "answered"}, requests : Nat,
               fragment : {"none", "a", "b"}]

FetchStart == [state |-> "redirected", requests |-> 0, fragment |-> "none"]

\* The places of the first n hops that have a fragment.
Named(hops, n) == {i \in 1..n : hops[i].fragment # "none"}

\* The last fragment among the first n hops.
LastFragment(hops, n) ==
  IF Named(hops, n) = {} THEN "none" ELSE hops[Max(Named(hops, n))].fragment

\* The state of the chain after n hops.
FetchSoFar(f, hops, n) ==
  /\ f.requests <= MaxRedirects + 1
  /\ f.requests <= n
  /\ f.state = "redirected" => f.requests = n
  /\ \A i \in 1..f.requests : hops[i].safe
  /\ f.fragment = LastFragment(hops, f.requests)
  /\ f.state = "answered" => f.requests \in 1..n /\ ~hops[f.requests].redirects

\* One more hop names the fragment or leaves it.
LEMMA FragmentStep ==
  ASSUME NEW hops \in Seq(Hop), NEW n \in 1..Len(hops)
  PROVE  LastFragment(hops, n) =
           IF hops[n].fragment # "none" THEN hops[n].fragment ELSE LastFragment(hops, n - 1)
<1>1. CASE hops[n].fragment # "none"
  <2>1. n \in Named(hops, n) /\ \A i \in Named(hops, n) : i \in Nat /\ i <= n
    BY <1>1 DEF Named
  <2>2. Max(Named(hops, n)) = n
    BY <2>1 DEF Max
  <2> QED BY <1>1, <2>1, <2>2 DEF LastFragment
<1>2. CASE hops[n].fragment = "none"
  <2>1. Named(hops, n) = Named(hops, n - 1)
    BY <1>2 DEF Named
  <2> QED BY <1>2, <2>1 DEF LastFragment
<1> QED BY <1>1, <1>2

\* Each hop is followed within the limit, and only to a safe address.
LEMMA FollowHolds ==
  ASSUME NEW f \in FetchState, NEW hops \in Seq(Hop), NEW n \in 1..Len(hops),
         FetchSoFar(f, hops, n - 1)
  PROVE  /\ Follow(f, hops[n]) \in FetchState
         /\ FetchSoFar(Follow(f, hops[n]), hops, n)
<1> DEFINE hop == hops[n]
           new == Follow(f, hop)
<1> SUFFICES new \in FetchState /\ FetchSoFar(new, hops, n)
  OBVIOUS
<1>1. hop \in Hop /\ hop = hops[n] /\ n \in Nat /\ f.requests \in Nat /\ MaxRedirects \in Nat
  BY ElementOfSeq, LimitsAssumption DEF FetchState
<1>2. hop.fragment \in {"none", "a", "b"} /\ hop.safe \in BOOLEAN /\ hop.redirects \in BOOLEAN
  <2> HIDE DEF hop
  <2> QED BY <1>1 DEF Hop
<1>3. CASE f.state # "redirected"
  <2>1. new = f
    BY <1>3 DEF Follow
  <2> QED BY <1>1, <1>3, <2>1 DEF FetchSoFar
<1>4. CASE f.state = "redirected" /\ (TooMany(f.requests) \/ ~hop.safe)
  <2>1. new = [f EXCEPT !.state = "failed"]
    BY <1>4 DEF Follow
  <2>2. /\ new \in FetchState /\ new.state = "failed"
        /\ new.requests = f.requests /\ new.fragment = f.fragment
    BY <2>1 DEF FetchState
  <2> HIDE DEF new
  <2> QED BY <1>1, <2>2 DEF FetchSoFar
<1>5. CASE f.state = "redirected" /\ ~TooMany(f.requests) /\ hop.safe
  <2>1. new = [state    |-> IF hop.redirects THEN "redirected" ELSE "answered",
               requests |-> f.requests + 1,
               fragment |-> IF hop.fragment # "none" THEN hop.fragment ELSE f.fragment]
    BY <1>5 DEF Follow
  <2> HIDE DEF new, hop
  <2>2. new \in FetchState
    BY <1>1, <1>2, <2>1 DEF FetchState
  <2>3. f.requests = n - 1 /\ new.requests = n /\ f.requests <= MaxRedirects
    BY <1>1, <1>5, <2>1 DEF FetchSoFar, TooMany
  <2>4. new.fragment = LastFragment(hops, n)
    BY <1>1, <2>1, <2>3, FragmentStep DEF FetchSoFar
  <2>5. \A i \in 1..n : hops[i].safe
    BY <1>1, <1>5, <2>3 DEF FetchSoFar
  <2>6. new.state = "answered" => ~hop.redirects
    BY <2>1
  <2> QED BY <1>1, <2>2, <2>3, <2>4, <2>5, <2>6 DEF FetchSoFar
<1> QED BY <1>3, <1>4, <1>5

\* A hop keeps a state of the chain one.
LEMMA FollowType ==
  ASSUME NEW f \in FetchState, NEW hop \in Hop
  PROVE  Follow(f, hop) \in FetchState
<1>1. hop.fragment \in {"none", "a", "b"}
  BY DEF Hop
<1>2. f.requests + 1 \in Nat
  BY DEF FetchState
<1>3. CASE f.state # "redirected"
  BY <1>3 DEF Follow
<1>4. CASE f.state = "redirected" /\ (TooMany(f.requests) \/ ~hop.safe)
  BY <1>4 DEF Follow, FetchState
<1>5. CASE f.state = "redirected" /\ ~TooMany(f.requests) /\ hop.safe
  BY <1>1, <1>2, <1>5 DEF Follow, FetchState
<1> QED BY <1>3, <1>4, <1>5

\* The chain of redirects, from its first hop to its last.
LEMMA FetchHolds ==
  ASSUME NEW hops \in Seq(Hop)
  PROVE  FetchChain(hops) \in FetchState /\ FetchSoFar(FetchChain(hops), hops, Len(hops))
<1> DEFINE L == Len(hops)
           F == [p \in (1..L) \X FetchState |-> Follow(p[2], hops[p[1]])]
           Loop(f) == f = [n \in 0..L |-> IF n = 0 THEN FetchStart
                                          ELSE Follow(f[n - 1], hops[n])]
           chain == CHOOSE f : Loop(f)
<1>1. L \in Nat /\ FetchStart \in FetchState
  BY LenProperties DEF FetchStart, FetchState
<1>2. \A n \in 1..L : hops[n] \in Hop
  BY ElementOfSeq
<1>3. F \in [(1..L) \X FetchState -> FetchState]
  BY <1>2, FollowType
<1>4. PICK f \in [0..L -> FetchState] : States(f, L, FetchStart, F)
  <2> HIDE DEF F, L
  <2> QED BY <1>1, <1>3, Recursion
<1>5. Loop(f)
  <2>1. \A n \in 1..L : F[<<n, f[n - 1]>>] = Follow(f[n - 1], hops[n])
    <3>1. TAKE n \in 1..L
    <3>2. n - 1 \in 0..L
      BY <1>1
    <3>3. <<n, f[n - 1]>> \in (1..L) \X FetchState
      BY <3>2
    <3> QED BY <3>3
  <2>2. \A n \in 0..L : n = 0 \/ n \in 1..L
    BY <1>1
  <2> HIDE DEF F, L
  <2> QED BY <1>4, <2>1, <2>2 DEF States
<1>6. Loop(chain)
  BY <1>5
<1>7. FetchChain(hops) = chain[L]
  BY DEF FetchChain, FetchStart
<1>8. \A n \in 0..L : chain[n] = IF n = 0 THEN FetchStart ELSE Follow(chain[n - 1], hops[n])
  BY <1>6
<1> DEFINE T == {n \in 0..L : chain[n] \in FetchState /\ FetchSoFar(chain[n], hops, n)}
<1>9. 0 \in T
  <2>1. chain[0] = FetchStart /\ 0 \in 0..L
    <3> HIDE DEF chain, L
    <3> QED BY <1>1, <1>8
  <2>2. Named(hops, 0) = {}
    BY DEF Named
  <2>3. FetchSoFar(FetchStart, hops, 0)
    BY <2>2, LimitsAssumption DEF FetchSoFar, FetchStart, LastFragment
  <2> HIDE DEF chain
  <2> QED BY <1>1, <2>1, <2>3
<1>10. \A n \in 1..L : n - 1 \in T => n \in T
  <2>1. SUFFICES ASSUME NEW n \in 1..L, n - 1 \in T PROVE n \in T
    OBVIOUS
  <2>2. n \in 0..L /\ chain[n] = Follow(chain[n - 1], hops[n])
    BY <1>1, <1>8
  <2> HIDE DEF chain
  <2>3. chain[n - 1] \in FetchState /\ FetchSoFar(chain[n - 1], hops, n - 1)
    BY <2>1
  <2>4. chain[n] \in FetchState /\ FetchSoFar(chain[n], hops, n)
    BY <1>2, <2>2, <2>3, FollowType, FollowHolds
  <2> QED BY <2>2, <2>4
<1>11. L \in T
  <2> HIDE DEF T, L
  <2>1. L \in Nat /\ L \in 0..L
    BY <1>1
  <2>2. 0..L \subseteq T
    BY <1>1, <1>9, <1>10, Ascent
  <2> QED BY <2>1, <2>2
<1> HIDE DEF chain
<1> QED BY <1>7, <1>11

-----------------------------------------------------------------------------
(* The inputs, and what is proved of every one.                            *)

\* The inputs of every kind.
TextInput    == [kind : {"text"}, text : Texts]
MessageInput == [kind : {"message"}, pieces : SeqOf(Pieces, MaxPieces)]
NoticeInput  ==
  {s \in [kind : {"notice"}, before : Words, name : Words, after : Words, copy : BOOLEAN] :
     Trim(s.name) = s.name /\ (s.before # <<>> => Head(s.before) # "_")}
PageInput    == [kind : {"page"}, page : SeqOf(Element, MaxPieces)]
DialInput    == [kind : {"dial"}, addresses : SeqOf(Address, MaxAddresses)]
FetchInput   == [kind : {"fetch"}, hops : SeqOf(Hop, MaxAddresses)]

Input == UNION {{NoSample}, TextInput, MessageInput, NoticeInput, PageInput, DialInput,
                FetchInput}

\* A short sequence is one.
LEMMA SeqOfIsSeq == ASSUME NEW S, NEW n \in Nat PROVE SeqOf(S, n) \subseteq Seq(S)
BY IsASeq DEF SeqOf

\* Every sample is an input: what Choose draws.
LEMMA SampleIsInput == Sampling => [](sample \in Input)
<1>1. NothingYet => sample \in Input
  BY DEF NothingYet, Input
<1>2. sample \in Input /\ [NothingYet /\ Choose]_sample => (sample \in Input)'
  <2>1. SUFFICES ASSUME Choose PROVE sample' \in Input
    <3>1. sample \in Input /\ UNCHANGED sample => (sample \in Input)'
      BY DEF Input
    <3> QED BY <3>1
  <2>2. CASE \E t \in Texts : sample' = [kind |-> "text", text |-> t]
    <3>1. sample' \in TextInput
      BY <2>2 DEF TextInput
    <3> QED BY <3>1 DEF Input
  <2>3. CASE \E p \in SeqOf(Pieces, MaxPieces) : sample' = [kind |-> "message", pieces |-> p]
    <3>1. sample' \in MessageInput
      BY <2>3 DEF MessageInput
    <3> QED BY <3>1 DEF Input
  <2>4. CASE \E before, name, after \in Words, copy \in BOOLEAN :
               /\ Trim(name) = name
               /\ before # <<>> => Head(before) # "_"
               /\ sample' = [kind |-> "notice", before |-> before, name |-> name,
                             after |-> after, copy |-> copy]
    <3>1. sample' \in NoticeInput
      <4>1. PICK before, name, after \in Words, copy \in BOOLEAN :
               /\ Trim(name) = name
               /\ before # <<>> => Head(before) # "_"
               /\ sample' = [kind |-> "notice", before |-> before, name |-> name,
                             after |-> after, copy |-> copy]
        BY <2>4
      <4>2. sample' \in [kind : {"notice"}, before : Words, name : Words, after : Words,
                         copy : BOOLEAN]
        BY <4>1
      <4>3. sample'.name = name /\ sample'.before = before
        BY <4>1
      <4> QED BY <4>1, <4>2, <4>3 DEF NoticeInput
    <3> QED BY <3>1 DEF Input
  <2>5. CASE \E p \in SeqOf(Element, MaxPieces) : sample' = [kind |-> "page", page |-> p]
    <3>1. sample' \in PageInput
      BY <2>5 DEF PageInput
    <3> QED BY <3>1 DEF Input
  <2>6. CASE \E a \in SeqOf(Address, MaxAddresses) :
               sample' = [kind |-> "dial", addresses |-> a]
    <3>1. sample' \in DialInput
      BY <2>6 DEF DialInput
    <3> QED BY <3>1 DEF Input
  <2>7. CASE \E h \in SeqOf(Hop, MaxAddresses) : sample' = [kind |-> "fetch", hops |-> h]
    <3>1. sample' \in FetchInput
      BY <2>7 DEF FetchInput
    <3> QED BY <3>1 DEF Input
  <2> QED BY <2>1, <2>2, <2>3, <2>4, <2>5, <2>6, <2>7 DEF Choose
<1> QED BY <1>1, <1>2, PTL DEF Sampling

\* What is an input of a kind, is one of that kind's inputs.
LEMMA InputOfKind ==
  ASSUME NEW s \in Input
  PROVE  /\ s.kind = "text" => s \in TextInput
         /\ s.kind = "message" => s \in MessageInput
         /\ s.kind = "notice" => s \in NoticeInput
         /\ s.kind = "page" => s \in PageInput
         /\ s.kind = "dial" => s \in DialInput
         /\ s.kind = "fetch" => s \in FetchInput
<1>1. s = NoSample => s.kind = "none"
  BY DEF NoSample
<1>2. s \in TextInput => s.kind = "text"
  BY DEF TextInput
<1>3. s \in MessageInput => s.kind = "message"
  BY DEF MessageInput
<1>4. s \in NoticeInput => s.kind = "notice"
  BY DEF NoticeInput
<1>5. s \in PageInput => s.kind = "page"
  BY DEF PageInput
<1>6. s \in DialInput => s.kind = "dial"
  BY DEF DialInput
<1>7. s \in FetchInput => s.kind = "fetch"
  BY DEF FetchInput
<1>8. \/ s = NoSample \/ s \in TextInput \/ s \in MessageInput \/ s \in NoticeInput
      \/ s \in PageInput \/ s \in DialInput \/ s \in FetchInput
  BY DEF Input
<1> QED BY <1>1, <1>2, <1>3, <1>4, <1>5, <1>6, <1>7, <1>8

\* A dial stays in its budget and tries the public addresses in order, for every
\* budget, deadline and number of addresses (dialContext, remainingBudget).
LEMMA DialIsBounded == sample \in Input => DialStaysInBudget
<1>1. SUFFICES ASSUME sample \in Input, sample.kind = "dial", NEW deadline \in Deadlines
      PROVE LET a   == sample.addresses
                d   == Dial(deadline, a)
                all == Cardinality(Public(a, Len(a)))
            IN /\ d.elapsed <= RequestTimeout
               /\ deadline # NoDeadline => d.elapsed <= deadline
               /\ Len(d.tried) <= all
               /\ \A i \in Public(a, Len(a)) :
                    LET n == Cardinality(Public(a, i))
                    IN n <= Len(d.tried) => d.tried[n] = a[i]
               /\ \/ d.connected \/ Len(d.tried) = all
                  \/ d.elapsed \in {RequestTimeout, deadline}
  BY DEF DialStaysInBudget, Deadlines
<1> DEFINE a == sample.addresses
           d == Dial(deadline, a)
<1>2. sample \in DialInput
  BY <1>1, InputOfKind
<1>3. a \in Seq(Address)
  BY <1>2, BoundsAssumption, SeqOfIsSeq DEF DialInput
<1>4. DialSoFar(deadline, d, a, Len(a))
  BY <1>1, <1>3, DialHolds
<1> HIDE DEF a, d
<1> QED BY <1>4 DEF DialSoFar, InTime, InOrder, Justified, PublicCount, a, d

\* A chain of redirects stays within its limit and at safe addresses, and carries
\* the last fragment, for every limit and every chain (CheckRedirect, fetch).
LEMMA ChainIsBounded == sample \in Input => RedirectsAreBounded
<1>1. SUFFICES ASSUME sample \in Input, sample.kind = "fetch"
      PROVE  RedirectsAreBounded
  BY DEF RedirectsAreBounded
<1> DEFINE hops == sample.hops
           f == FetchChain(hops)
<1>2. sample \in FetchInput
  BY <1>1, InputOfKind
<1>3. hops \in Seq(Hop)
  BY <1>2, BoundsAssumption, SeqOfIsSeq DEF FetchInput
<1>4. FetchSoFar(f, hops, Len(hops))
  BY <1>3, FetchHolds
<1> QED BY <1>4 DEF FetchSoFar, RedirectsAreBounded, LastFragment, Named

\* A fetch is bounded: whatever addresses a host has and however it redirects, all
\* attempts stay in one budget and the deadline, every public address gets its
\* turn before the dial gives up for another reason, and no unsafe hop is asked.
THEOREM FetchAlwaysBounded == Sampling => []FetchIsBounded
<1>1. sample \in Input => FetchIsBounded
  BY DialIsBounded, ChainIsBounded DEF FetchIsBounded
<1> QED BY <1>1, SampleIsInput, PTL

-----------------------------------------------------------------------------
(* Pages.                                                                  *)

Content == Contents \cup {<<>>}

MetadataState == [site : Content, title : Content, description : Content, card : BOOLEAN]

\* The places among the first n where a page says something of the properties.
SaidOf(page, properties, n) ==
  {i \in 1..n : page[i].property \in properties /\ page[i].content # <<>>}

Earliest(S) == CHOOSE i \in S : \A j \in S : i <= j

\* What stands first among the first n.
FirstOf(page, properties, n) ==
  IF SaidOf(page, properties, n) = {} THEN <<>>
  ELSE page[Earliest(SaidOf(page, properties, n))].content

\* What the walk has found after n elements.
MetadataSoFar(m, page, n) ==
  /\ m.title = FirstOf(page, CardTitle \cup {"title"}, n)
  /\ m.site = FirstOf(page, {"og:site_name"}, n)
  /\ m.description = FirstOf(page, Description, n)
  /\ m.card <=> \E i \in 1..n : page[i].property \in CardTitle

\* A set of places has an earliest one.
LEMMA EarliestIsIn ==
  ASSUME NEW S \in SUBSET Nat, S # {}
  PROVE  Earliest(S) \in S /\ \A j \in S : Earliest(S) <= j
<1> DEFINE R == OpToRel(<, Nat)
<1>1. IsWellFoundedOn(R, Nat)
  BY NatLessThanWellFounded
<1>2. \A x, y \in Nat : <<x, y>> \in R <=> x < y
  BY DEF OpToRel
<1> HIDE DEF R
<1>3. PICK i \in S : \A y \in S : ~(<<y, i>> \in R)
  BY <1>1, WFMin
<1>4. \A j \in S : i <= j
  <2>1. TAKE j \in S
  <2>2. i \in Nat /\ j \in Nat /\ ~(j < i)
    BY <1>2, <1>3
  <2> QED BY <2>2
<1> QED BY <1>4 DEF Earliest

\* It is the only one.
LEMMA EarliestIs ==
  ASSUME NEW S \in SUBSET Nat, NEW i \in S, \A j \in S : i <= j
  PROVE  Earliest(S) = i
<1>1. Earliest(S) \in S /\ Earliest(S) <= i
  BY EarliestIsIn
<1>2. Earliest(S) \in Nat /\ i \in Nat /\ i <= Earliest(S)
  BY <1>1
<1> QED BY <1>1, <1>2

\* What is said first is said somewhere, and is not empty.
LEMMA FirstIsSaid ==
  ASSUME NEW page, NEW P, NEW n \in Nat
  PROVE  /\ FirstOf(page, P, n) = <<>> <=> SaidOf(page, P, n) = {}
         /\ FirstOf(page, P, n) # <<>> =>
              \E i \in 1..n : page[i].property \in P /\ FirstOf(page, P, n) = page[i].content
<1>1. SaidOf(page, P, n) \in SUBSET Nat
  BY DEF SaidOf
<1>2. CASE SaidOf(page, P, n) = {}
  BY <1>2 DEF FirstOf
<1>3. CASE SaidOf(page, P, n) # {}
  <2>1. Earliest(SaidOf(page, P, n)) \in SaidOf(page, P, n)
    BY <1>1, <1>3, EarliestIsIn
  <2> DEFINE i == Earliest(SaidOf(page, P, n))
  <2>2. i \in 1..n /\ page[i].property \in P /\ page[i].content # <<>>
    BY <2>1 DEF SaidOf
  <2>3. FirstOf(page, P, n) = page[i].content
    BY <1>3 DEF FirstOf
  <2> QED BY <1>3, <2>2, <2>3
<1> QED BY <1>2, <1>3

\* One more element is the first to say something only if none did before.
LEMMA FirstStep ==
  ASSUME NEW page, NEW P, NEW n \in Nat, n > 0
  PROVE  FirstOf(page, P, n) =
           IF page[n].property \in P
           THEN FirstNonEmpty(FirstOf(page, P, n - 1), page[n].content)
           ELSE FirstOf(page, P, n - 1)
<1> DEFINE A == SaidOf(page, P, n - 1)
           B == SaidOf(page, P, n)
<1>1. n - 1 \in Nat /\ A \in SUBSET Nat /\ B \in SUBSET Nat
  BY DEF SaidOf
<1>2. CASE ~(page[n].property \in P /\ page[n].content # <<>>)
  <2>1. A = B
    BY <1>2 DEF SaidOf
  <2>2. FirstOf(page, P, n) = FirstOf(page, P, n - 1)
    BY <2>1 DEF FirstOf
  <2> QED BY <1>2, <2>2 DEF FirstNonEmpty
<1>3. CASE page[n].property \in P /\ page[n].content # <<>>
  <2>1. B = A \cup {n} /\ \A i \in A : i <= n
    BY <1>3 DEF SaidOf
  <2>2. CASE A = {}
    <3>1. Earliest(B) = n
      BY <1>1, <2>1, <2>2, EarliestIs
    <3> QED BY <1>3, <2>1, <2>2, <3>1 DEF FirstOf, FirstNonEmpty
  <2>3. CASE A # {}
    <3>1. Earliest(A) \in A /\ \A j \in A : Earliest(A) <= j
      BY <1>1, <2>3, EarliestIsIn
    <3>2. Earliest(B) = Earliest(A)
      BY <1>1, <2>1, <3>1, EarliestIs
    <3>3. FirstOf(page, P, n) = FirstOf(page, P, n - 1)
      BY <2>1, <2>3, <3>2 DEF FirstOf
    <3>4. FirstOf(page, P, n - 1) # <<>>
      BY <1>1, <2>3, FirstIsSaid
    <3> QED BY <3>3, <3>4, <1>3 DEF FirstNonEmpty
  <2> QED BY <2>2, <2>3
<1> QED BY <1>2, <1>3

\* An element keeps a state of the walk one.
LEMMA ReadType ==
  ASSUME NEW m \in MetadataState, NEW e \in Element
  PROVE  ReadNodeMetadata(m, e) \in MetadataState
<1>1. e.content \in Content /\ e.property \in CardTitle \cup Description \cup {"og:site_name", "title"}
  BY DEF Element, Property, Content
<1>2. \A x \in Content : FirstNonEmpty(x, e.content) \in Content
  BY <1>1 DEF FirstNonEmpty
<1>3. m.site \in Content /\ m.title \in Content /\ m.description \in Content
  BY DEF MetadataState
<1>4. CASE e.property \in CardTitle
  <2>1. ReadNodeMetadata(m, e) =
          [m EXCEPT !.title = FirstNonEmpty(@, e.content), !.card = TRUE]
    BY <1>4 DEF ReadNodeMetadata, CardTitle, Description
  <2> QED BY <1>2, <1>3, <2>1 DEF MetadataState
<1>5. CASE e.property \in Description
  <2>1. ReadNodeMetadata(m, e) = [m EXCEPT !.description = FirstNonEmpty(@, e.content)]
    BY <1>5 DEF ReadNodeMetadata, CardTitle, Description
  <2> QED BY <1>2, <1>3, <2>1 DEF MetadataState
<1>6. CASE e.property = "og:site_name"
  <2>1. ReadNodeMetadata(m, e) = [m EXCEPT !.site = FirstNonEmpty(@, e.content)]
    BY <1>6 DEF ReadNodeMetadata, CardTitle, Description
  <2> QED BY <1>2, <1>3, <2>1 DEF MetadataState
<1>7. CASE e.property = "title"
  <2>1. ReadNodeMetadata(m, e) = [m EXCEPT !.title = FirstNonEmpty(@, e.content)]
    BY <1>7 DEF ReadNodeMetadata, CardTitle, Description
  <2> QED BY <1>2, <1>3, <2>1 DEF MetadataState
<1> QED BY <1>1, <1>4, <1>5, <1>6, <1>7

\* An element says what it says, unless it was said before.
LEMMA ReadHolds ==
  ASSUME NEW m \in MetadataState, NEW page \in Seq(Element), NEW n \in 1..Len(page),
         MetadataSoFar(m, page, n - 1)
  PROVE  MetadataSoFar(ReadNodeMetadata(m, page[n]), page, n)
<1> DEFINE e == page[n]
           new == ReadNodeMetadata(m, e)
           title == CardTitle \cup {"title"}
<1> SUFFICES MetadataSoFar(new, page, n)
  OBVIOUS
<1>1. /\ e \in Element /\ e = page[n] /\ n \in Nat /\ n > 0
      /\ e.property \in CardTitle \cup Description \cup {"og:site_name", "title"}
  <2>1. e \in Element /\ n \in Nat /\ n > 0
    BY ElementOfSeq
  <2> HIDE DEF e
  <2>2. e.property \in CardTitle \cup Description \cup {"og:site_name", "title"}
    BY <2>1 DEF Element, Property
  <2> QED BY <2>1, <2>2 DEF e
<1>2. \A P : FirstOf(page, P, n) =
               IF e.property \in P THEN FirstNonEmpty(FirstOf(page, P, n - 1), e.content)
               ELSE FirstOf(page, P, n - 1)
  BY <1>1, FirstStep
<1>3. /\ m.title = FirstOf(page, title, n - 1)
      /\ m.site = FirstOf(page, {"og:site_name"}, n - 1)
      /\ m.description = FirstOf(page, Description, n - 1)
      /\ m.card <=> \E i \in 1..n - 1 : page[i].property \in CardTitle
  BY DEF MetadataSoFar
<1>4. (\E i \in 1..n : page[i].property \in CardTitle) <=>
        (\E i \in 1..n - 1 : page[i].property \in CardTitle) \/ e.property \in CardTitle
  BY <1>1
<1> HIDE DEF e
<1>5. CASE e.property \in CardTitle
  <2>1. new = [m EXCEPT !.title = FirstNonEmpty(@, e.content), !.card = TRUE]
    BY <1>5 DEF ReadNodeMetadata, CardTitle, Description
  <2> HIDE DEF new
  <2>2. /\ new.title = FirstNonEmpty(m.title, e.content) /\ new.site = m.site
        /\ new.description = m.description /\ new.card
    BY <2>1 DEF MetadataState
  <2>3. /\ e.property \in CardTitle /\ e.property \in title
        /\ e.property \notin {"og:site_name"} /\ e.property \notin Description
    BY <1>5 DEF CardTitle, Description
  <2> HIDE DEF title
  <2> QED BY <1>2, <1>3, <1>4, <2>2, <2>3 DEF MetadataSoFar, title
<1>6. CASE e.property \in Description
  <2>1. new = [m EXCEPT !.description = FirstNonEmpty(@, e.content)]
    BY <1>6 DEF ReadNodeMetadata, CardTitle, Description
  <2> HIDE DEF new
  <2>2. /\ new.title = m.title /\ new.site = m.site
        /\ new.description = FirstNonEmpty(m.description, e.content) /\ new.card = m.card
    BY <2>1 DEF MetadataState
  <2>3. /\ e.property \notin CardTitle /\ e.property \notin title
        /\ e.property \notin {"og:site_name"} /\ e.property \in Description
    BY <1>6 DEF CardTitle, Description
  <2> HIDE DEF title
  <2> QED BY <1>2, <1>3, <1>4, <2>2, <2>3 DEF MetadataSoFar, title
<1>7. CASE e.property = "og:site_name"
  <2>1. new = [m EXCEPT !.site = FirstNonEmpty(@, e.content)]
    BY <1>7 DEF ReadNodeMetadata, CardTitle, Description
  <2> HIDE DEF new
  <2>2. /\ new.title = m.title /\ new.site = FirstNonEmpty(m.site, e.content)
        /\ new.description = m.description /\ new.card = m.card
    BY <2>1 DEF MetadataState
  <2>3. /\ e.property \notin CardTitle /\ e.property \notin title
        /\ e.property \in {"og:site_name"} /\ e.property \notin Description
    BY <1>7 DEF CardTitle, Description
  <2> HIDE DEF title
  <2> QED BY <1>2, <1>3, <1>4, <2>2, <2>3 DEF MetadataSoFar, title
<1>8. CASE e.property = "title"
  <2>1. new = [m EXCEPT !.title = FirstNonEmpty(@, e.content)]
    BY <1>8 DEF ReadNodeMetadata, CardTitle, Description
  <2> HIDE DEF new
  <2>2. /\ new.title = FirstNonEmpty(m.title, e.content) /\ new.site = m.site
        /\ new.description = m.description /\ new.card = m.card
    BY <2>1 DEF MetadataState
  <2>3. /\ e.property \notin CardTitle /\ e.property \in title
        /\ e.property \notin {"og:site_name"} /\ e.property \notin Description
    BY <1>8 DEF CardTitle, Description
  <2> HIDE DEF title
  <2> QED BY <1>2, <1>3, <1>4, <2>2, <2>3 DEF MetadataSoFar, title
<1> QED BY <1>1, <1>5, <1>6, <1>7, <1>8

\* The walk over a page, from its first element to its last.
LEMMA ExtractHolds ==
  ASSUME NEW page \in Seq(Element)
  PROVE  Extract(page) \in MetadataState /\ MetadataSoFar(Extract(page), page, Len(page))
<1> DEFINE L == Len(page)
           F == [p \in (1..L) \X MetadataState |-> ReadNodeMetadata(p[2], page[p[1]])]
           Loop(f) == f = [n \in 0..L |-> IF n = 0 THEN NoMetadata
                                          ELSE ReadNodeMetadata(f[n - 1], page[n])]
           read == CHOOSE f : Loop(f)
<1>1. L \in Nat /\ NoMetadata \in MetadataState
  BY LenProperties DEF NoMetadata, MetadataState, Content
<1>2. \A n \in 1..L : page[n] \in Element
  BY ElementOfSeq
<1>3. F \in [(1..L) \X MetadataState -> MetadataState]
  BY <1>2, ReadType
<1>4. PICK f \in [0..L -> MetadataState] : States(f, L, NoMetadata, F)
  <2> HIDE DEF F, L
  <2> QED BY <1>1, <1>3, Recursion
<1>5. Loop(f)
  <2>1. \A n \in 1..L : F[<<n, f[n - 1]>>] = ReadNodeMetadata(f[n - 1], page[n])
    <3>1. TAKE n \in 1..L
    <3>2. n - 1 \in 0..L
      BY <1>1
    <3>3. <<n, f[n - 1]>> \in (1..L) \X MetadataState
      BY <3>2
    <3> QED BY <3>3
  <2>2. \A n \in 0..L : n = 0 \/ n \in 1..L
    BY <1>1
  <2> HIDE DEF F, L
  <2> QED BY <1>4, <2>1, <2>2 DEF States
<1>6. Loop(read)
  BY <1>5
<1>7. Extract(page) = read[L]
  BY DEF Extract
<1>8. \A n \in 0..L : read[n] = IF n = 0 THEN NoMetadata ELSE ReadNodeMetadata(read[n - 1], page[n])
  BY <1>6
<1> DEFINE T == {n \in 0..L : read[n] \in MetadataState /\ MetadataSoFar(read[n], page, n)}
<1>9. 0 \in T
  <2>1. read[0] = NoMetadata /\ 0 \in 0..L
    <3> HIDE DEF read, L
    <3> QED BY <1>1, <1>8
  <2>2. \A P : FirstOf(page, P, 0) = <<>>
    BY DEF FirstOf, SaidOf
  <2>3. MetadataSoFar(NoMetadata, page, 0)
    BY <2>2 DEF MetadataSoFar, NoMetadata
  <2> HIDE DEF read
  <2> QED BY <1>1, <2>1, <2>3
<1>10. \A n \in 1..L : n - 1 \in T => n \in T
  <2>1. SUFFICES ASSUME NEW n \in 1..L, n - 1 \in T PROVE n \in T
    OBVIOUS
  <2>2. n \in 0..L /\ read[n] = ReadNodeMetadata(read[n - 1], page[n])
    BY <1>1, <1>8
  <2> HIDE DEF read
  <2>3. read[n - 1] \in MetadataState /\ MetadataSoFar(read[n - 1], page, n - 1)
    BY <2>1
  <2>4. read[n] \in MetadataState
    BY <1>2, <2>2, <2>3, ReadType
  <2>5. MetadataSoFar(read[n], page, n)
    BY <2>2, <2>3, ReadHolds
  <2> QED BY <2>2, <2>4, <2>5
<1>11. L \in T
  <2> HIDE DEF T, L
  <2>1. L \in Nat /\ L \in 0..L
    BY <1>1
  <2>2. 0..L \subseteq T
    BY <1>1, <1>9, <1>10, Ascent
  <2> QED BY <2>1, <2>2
<1> HIDE DEF read
<1> QED BY <1>7, <1>11

\* What a page is judged by is what stands first in it, in whatever order its
\* elements come (Extract, Useful).
LEMMA PageIsJudged == sample \in Input => UsefulAsDocumented
<1>1. SUFFICES ASSUME sample \in Input, sample.kind = "page"
      PROVE  LET page  == sample.page
                 title == First(page, {"title"})
                 site  == First(page, {"og:site_name"})
                 text  == First(page, Description)
             IN Useful(Inspect(TRUE, page)) <=>
                  \/ First(page, CardTitle) # <<>>
                  \/ title # <<>> /\ text # <<>>
                  \/ title # <<>> /\ title # site /\ ~IsBareSiteName(title, PageHost)
                  \/ site # <<>> /\ text # <<>>
                  \/ title # <<>> /\ EmptyCard(page)
  BY DEF UsefulAsDocumented
<1> DEFINE page == sample.page
           L == Len(page)
           m == Extract(page)
<1>2. page \in Seq(Element)
  <2>1. sample \in PageInput
    BY <1>1, InputOfKind
  <2> QED BY <2>1, BoundsAssumption, SeqOfIsSeq DEF PageInput
<1>3. L \in Nat /\ DOMAIN page = 1..L
  BY <1>2, LenProperties
<1>4. m \in MetadataState /\ MetadataSoFar(m, page, L)
  BY <1>2, ExtractHolds
<1> HIDE DEF page, L, m
<1>6. \A P : First(page, P) = FirstOf(page, P, L)
  BY <1>3 DEF First, FirstOf, SaidOf, Earliest
<1>7. /\ m.title = First(page, CardTitle \cup {"title"})
      /\ m.site = First(page, {"og:site_name"})
      /\ m.description = First(page, Description)
      /\ m.card <=> \E i \in 1..L : page[i].property \in CardTitle
  BY <1>4, <1>6 DEF MetadataSoFar
<1>5. SaidOf(page, CardTitle \cup {"title"}, L) =
        SaidOf(page, CardTitle, L) \cup SaidOf(page, {"title"}, L)
  BY DEF SaidOf
<1>8. CASE \E i \in 1..L : page[i].property \in CardTitle
  <2>1. m.title = <<>> <=>
          First(page, CardTitle) = <<>> /\ First(page, {"title"}) = <<>>
    <3>1. \A P : First(page, P) = <<>> <=> SaidOf(page, P, L) = {}
      <4>1. TAKE P
      <4>2. FirstOf(page, P, L) = <<>> <=> SaidOf(page, P, L) = {}
        BY <1>3, FirstIsSaid
      <4> QED BY <1>6, <4>2
    <3>2. SaidOf(page, CardTitle \cup {"title"}, L) = {} <=>
            SaidOf(page, CardTitle, L) = {} /\ SaidOf(page, {"title"}, L) = {}
      BY <1>5
    <3> QED BY <1>7, <3>1, <3>2
  <2>2. First(page, CardTitle) = <<>> => EmptyCard(page)
    <3>1. PICK i \in 1..L : page[i].property \in CardTitle
      BY <1>8
    <3>2. First(page, CardTitle) = <<>> => i \notin SaidOf(page, CardTitle, L)
      BY <1>3, <1>6, FirstIsSaid
    <3> QED BY <1>3, <3>1, <3>2 DEF SaidOf, EmptyCard
  <2>3. Useful(m) <=> m.title # <<>> \/ (m.site # <<>> /\ m.description # <<>>)
    BY <1>7, <1>8 DEF Useful, TitleFallback
  <2> QED BY <1>7, <2>1, <2>2, <2>3 DEF Inspect, m, page
<1>9. CASE ~\E i \in 1..L : page[i].property \in CardTitle
  <2>1. /\ SaidOf(page, CardTitle, L) = {}
        /\ SaidOf(page, CardTitle \cup {"title"}, L) = SaidOf(page, {"title"}, L)
    BY <1>9 DEF SaidOf
  <2>2. First(page, CardTitle) = <<>> /\ m.title = First(page, {"title"})
    BY <1>6, <1>7, <2>1 DEF FirstOf
  <2>3. Useful(m) <=> IF m.title = <<>> THEN m.site # <<>> /\ m.description # <<>>
                      ELSE \/ m.description # <<>>
                           \/ m.title # m.site /\ ~IsBareSiteName(m.title, PageHost)
    BY <1>7, <1>9 DEF Useful, TitleFallback
  <2>4. ~EmptyCard(page)
    BY <1>3, <1>9 DEF EmptyCard
  <2> QED BY <1>7, <2>2, <2>3, <2>4 DEF Inspect, m, page
<1> QED BY <1>8, <1>9

\* The documented rule for a useful page, for every page and host name: a card
\* title is enough, a title of HTML only with a description or when it says more
\* than the site or the host, and otherwise it takes site name and description.
\* The one exception is a page with an empty card title, where any title is enough.
THEOREM PagesAreJudgedAsDocumented == Sampling => []UsefulAsDocumented
BY PageIsJudged, SampleIsInput, PTL

-----------------------------------------------------------------------------
(* Spans.                                                                  *)

\* The state of the loop over the characters of a text.
ScanState == [units : Nat, first : Nat, last : Nat \cup {-1}]

ScanStart == [units |-> 0, first |-> 0, last |-> -1]

\* Where the loop has stopped, or n.
Reached(s, n) == IF s.last = -1 THEN n ELSE s.last

\* The state of the loop after n characters: first and last, as far as they are
\* found, are where the span begins and ends.
ScanSoFar(text, offset, length, s, n) ==
  /\ s.last = -1 =>
       s.units = Units(text, n) /\ \A q \in 1..n : Units(text, q) # offset + length
  /\ s.last # -1 => s.last \in 1..n /\ Units(text, s.last) = offset + length
  /\ \/ s.first = 0 /\ \A p \in 1..Reached(s, n) : Units(text, p - 1) # offset
     \/ s.first \in 1..Reached(s, n) /\ Units(text, s.first - 1) = offset

\* The characters with two units, counted.
LEMMA UnitsFacts ==
  ASSUME NEW text
  PROVE  /\ Units(text, 0) = 0
         /\ \A n \in Nat : Units(text, n) \in Nat
         /\ \A n \in Nat : n > 0 =>
              Units(text, n) = Units(text, n - 1) + Utf16Width(text[n])
         /\ \A i, j \in Nat : i < j => Units(text, i) < Units(text, j)
<1> DEFINE Q == {i \in Nat : text[i] = "w"}
           C(n) == Cardinality(Upto(Q, n))
<1>1. \A n \in Nat : {i \in 1..n : text[i] = "w"} = Upto(Q, n)
  BY DEF Upto
<1>2. \A n \in Nat : Units(text, n) = n + C(n)
  BY <1>1 DEF Units
<1>3. \A n \in Nat : n \in Q <=> text[n] = "w"
  OBVIOUS
<1> HIDE DEF Q
<1>4. \A n \in Nat : C(n) \in 0..n
  BY Counting
<1>5. ASSUME NEW n \in Nat, n > 0 PROVE C(n) = C(n - 1) + IF n \in Q THEN 1 ELSE 0
  BY <1>5, Counting
<1>6. ASSUME NEW i \in Nat, NEW j \in Nat, i < j PROVE C(i) <= C(j)
  <2>1. Upto(Q, i) \subseteq Upto(Q, j) /\ Upto(Q, j) \subseteq 1..j
    BY <1>6 DEF Upto
  <2>2. IsFiniteSet(1..j)
    BY FS_Interval
  <2>3. IsFiniteSet(Upto(Q, j))
    BY <2>1, <2>2, FS_Subset
  <2> QED BY <2>1, <2>3, FS_Subset
<1> HIDE DEF C
<1>7. Units(text, 0) = 0
  BY <1>2, <1>4
<1>8. \A n \in Nat : Units(text, n) \in Nat
  BY <1>2, <1>4
<1>9. \A n \in Nat : n > 0 => Units(text, n) = Units(text, n - 1) + Utf16Width(text[n])
  <2>1. SUFFICES ASSUME NEW n \in Nat, n > 0
                 PROVE  Units(text, n) = Units(text, n - 1) + Utf16Width(text[n])
    OBVIOUS
  <2>2. n - 1 \in Nat
    BY <2>1
  <2>3. Units(text, n) = n + C(n) /\ Units(text, n - 1) = n - 1 + C(n - 1)
    BY <1>2, <2>2
  <2>4. C(n) \in Nat /\ C(n - 1) \in Nat
    BY <1>4, <2>2
  <2> QED BY <1>3, <1>5, <2>1, <2>2, <2>3, <2>4 DEF Utf16Width
<1>10. \A i, j \in Nat : i < j => Units(text, i) < Units(text, j)
  <2>1. SUFFICES ASSUME NEW i \in Nat, NEW j \in Nat, i < j
                 PROVE  Units(text, i) < Units(text, j)
    OBVIOUS
  <2> QED BY <1>2, <1>4, <1>6, <2>1
<1> QED BY <1>7, <1>8, <1>9, <1>10

\* One more character.
LEMMA ScanStepHolds ==
  ASSUME NEW text, NEW offset \in Int, NEW length \in Int, NEW n \in Nat, n > 0,
         NEW s \in ScanState, ScanSoFar(text, offset, length, s, n - 1)
  PROVE  LET new == ScanStep(offset, length, s, n, text[n])
         IN new \in ScanState /\ ScanSoFar(text, offset, length, new, n)
<1> DEFINE new == ScanStep(offset, length, s, n, text[n])
<1>1. s.units \in Nat /\ s.first \in Nat /\ s.last \in Nat \cup {-1}
  BY DEF ScanState
<1>2. Utf16Width(text[n]) \in Nat
  BY DEF Utf16Width
<1>3. CASE s.last # -1
  <2>1. new = s
    BY <1>1, <1>3 DEF ScanStep
  <2>2. Reached(s, n) = Reached(s, n - 1) /\ s.last \in 1..n
    BY <1>3 DEF Reached, ScanSoFar
  <2> HIDE DEF new
  <2>3. ScanSoFar(text, offset, length, s, n)
    BY <1>3, <2>2 DEF ScanSoFar
  <2> QED BY <2>1, <2>3 DEF new
<1>4. CASE s.last = -1
  <2> DEFINE units == s.units + Utf16Width(text[n])
             first == IF s.units = offset THEN n ELSE s.first
             last  == IF units = offset + length THEN n ELSE -1
  <2>1. new = [units |-> units, first |-> first, last |-> last]
    BY <1>4 DEF ScanStep
  <2>2. new.units = units /\ new.first = first /\ new.last = last
    BY <2>1
  <2>3. s.units = Units(text, n - 1) /\ units = Units(text, n)
    BY <1>4, UnitsFacts DEF ScanSoFar
  <2>4. new \in ScanState
    BY <1>1, <1>2, <2>1 DEF ScanState
  <2>5. Reached(s, n - 1) = n - 1
    BY <1>4 DEF Reached
  <2> HIDE DEF new, units
  <2>6. Reached(new, n) = n
    BY <2>2 DEF Reached
  <2>7. \A q \in 1..n : q = n \/ q \in 1..n - 1
    OBVIOUS
  <2>8. \A q \in 1..n - 1 : Units(text, q) # offset + length
    BY <1>4 DEF ScanSoFar
  <2>9. \/ s.first = 0 /\ \A p \in 1..n - 1 : Units(text, p - 1) # offset
        \/ s.first \in 1..n - 1 /\ Units(text, s.first - 1) = offset
    BY <2>5 DEF ScanSoFar
  <2>10. \/ new.first = 0 /\ \A p \in 1..n : Units(text, p - 1) # offset
         \/ new.first \in 1..n /\ Units(text, new.first - 1) = offset
    <3>1. CASE s.units = offset
      BY <2>2, <2>3, <3>1
    <3>2. CASE s.units # offset
      BY <2>2, <2>3, <2>7, <2>9, <3>2
    <3> QED BY <3>1, <3>2
  <2>11. new.last # -1 => new.last \in 1..n /\ Units(text, new.last) = offset + length
    BY <2>2, <2>3
  <2>12. new.last = -1 => /\ new.units = Units(text, n)
                          /\ \A q \in 1..n : Units(text, q) # offset + length
    BY <2>2, <2>3, <2>7, <2>8
  <2>13. ScanSoFar(text, offset, length, new, n)
    BY <2>6, <2>10, <2>11, <2>12 DEF ScanSoFar
  <2> QED BY <2>4, <2>13 DEF new
<1> QED BY <1>1, <1>3, <1>4

\* A character keeps a state of the loop one.
LEMMA ScanStepType ==
  ASSUME NEW offset \in Int, NEW length \in Int, NEW n \in Nat, NEW c, NEW s \in ScanState
  PROVE  ScanStep(offset, length, s, n, c) \in ScanState
<1>1. Utf16Width(c) \in Nat
  BY DEF Utf16Width
<1>2. s.units \in Nat /\ s.first \in Nat
  BY DEF ScanState
<1> QED BY <1>1, <1>2 DEF ScanStep, ScanState

\* The loop over the characters of a text, from its first state to its last.
LEMMA ScanHolds ==
  ASSUME NEW text \in Seq(Char), NEW offset \in Int, NEW length \in Int
  PROVE  /\ Scan(text, offset, length) \in ScanState
         /\ ScanSoFar(text, offset, length, Scan(text, offset, length), Len(text))
<1> DEFINE L == Len(text)
           F == [p \in (1..L) \X ScanState |-> ScanStep(offset, length, p[2], p[1], text[p[1]])]
           Loop(f) == f = [n \in 0..L |-> IF n = 0 THEN ScanStart
                                          ELSE ScanStep(offset, length, f[n - 1], n, text[n])]
           scan == CHOOSE f : Loop(f)
<1>1. L \in Nat /\ ScanStart \in ScanState
  BY LenProperties DEF ScanStart, ScanState
<1>2. F \in [(1..L) \X ScanState -> ScanState]
  BY ScanStepType
<1>3. PICK f \in [0..L -> ScanState] : States(f, L, ScanStart, F)
  <2> HIDE DEF F, L
  <2> QED BY <1>1, <1>2, Recursion
<1>4. Loop(f)
  <2>1. \A n \in 1..L : F[<<n, f[n - 1]>>] = ScanStep(offset, length, f[n - 1], n, text[n])
    <3>1. TAKE n \in 1..L
    <3>2. n - 1 \in 0..L
      BY <1>1
    <3>3. <<n, f[n - 1]>> \in (1..L) \X ScanState
      BY <3>2
    <3> QED BY <3>3
  <2>2. \A n \in 0..L : n = 0 \/ n \in 1..L
    BY <1>1
  <2> HIDE DEF F, L
  <2> QED BY <1>3, <2>1, <2>2 DEF States
<1>5. Loop(scan)
  BY <1>4
<1>6. Scan(text, offset, length) = scan[L]
  BY DEF Scan, ScanStart
<1>7. \A n \in 0..L : scan[n] = IF n = 0 THEN ScanStart
                                ELSE ScanStep(offset, length, scan[n - 1], n, text[n])
  BY <1>5
<1> DEFINE T == {n \in 0..L : /\ scan[n] \in ScanState
                              /\ ScanSoFar(text, offset, length, scan[n], n)}
<1>8. 0 \in T
  <2>1. scan[0] = ScanStart /\ 0 \in 0..L
    <3> HIDE DEF scan, L
    <3> QED BY <1>1, <1>7
  <2>2. ScanSoFar(text, offset, length, ScanStart, 0)
    BY UnitsFacts DEF ScanSoFar, ScanStart, Reached
  <2> HIDE DEF scan
  <2> QED BY <1>1, <2>1, <2>2
<1>9. \A n \in 1..L : n - 1 \in T => n \in T
  <2>1. SUFFICES ASSUME NEW n \in 1..L, n - 1 \in T PROVE n \in T
    OBVIOUS
  <2>2. /\ n \in 0..L /\ n \in Nat /\ n > 0
        /\ scan[n] = ScanStep(offset, length, scan[n - 1], n, text[n])
    BY <1>1, <1>7
  <2> HIDE DEF scan
  <2>3. scan[n - 1] \in ScanState /\ ScanSoFar(text, offset, length, scan[n - 1], n - 1)
    BY <2>1
  <2>4. scan[n] \in ScanState /\ ScanSoFar(text, offset, length, scan[n], n)
    BY <2>2, <2>3, ScanStepHolds
  <2> QED BY <2>2, <2>4
<1>10. L \in T
  <2> HIDE DEF T, L
  <2>1. L \in Nat /\ L \in 0..L
    BY <1>1
  <2>2. 0..L \subseteq T
    BY <1>1, <1>8, <1>9, Ascent
  <2> QED BY <2>1, <2>2
<1> HIDE DEF scan
<1> QED BY <1>6, <1>10

\* A pair of places is the span of these offsets.
Spanned(text, offset, length, p, q) ==
  /\ p \in 1..Len(text) /\ q \in p..Len(text)
  /\ Units(text, p - 1) = offset
  /\ Units(text, q) = offset + length

\* utf16Span finds the span of two offsets, if they have one.
LEMMA SpanFound ==
  ASSUME NEW text \in Seq(Char), NEW offset \in Int, NEW length \in Int, NEW p, NEW q,
         Spanned(text, offset, length, p, q)
  PROVE  Utf16Span(text, offset, length) = <<p, q>> /\ <<p, q>> # NoSpan
<1> DEFINE L == Len(text)
           s == Scan(text, offset, length)
<1>1. L \in Nat
  BY LenProperties
<1>2. s \in ScanState /\ ScanSoFar(text, offset, length, s, L)
  BY ScanHolds
<1>3. Utf16Span(text, offset, length) =
        IF offset >= 0 /\ length > 0 /\ s.first > 0 /\ s.last >= s.first
        THEN <<s.first, s.last>> ELSE NoSpan
  BY DEF Utf16Span
<1> HIDE DEF L, s
<1>4. /\ p \in 1..L /\ q \in p..L /\ q \in 1..L /\ p - 1 \in Nat /\ p \in Nat /\ q \in Nat
      /\ Units(text, p - 1) = offset /\ Units(text, q) = offset + length
  BY <1>1 DEF Spanned, L
<1>5. \A i, j \in Nat : Units(text, i) = Units(text, j) => i = j
  <2>1. TAKE i, j \in Nat
  <2>2. Units(text, i) \in Nat /\ Units(text, j) \in Nat
    BY UnitsFacts
  <2>3. /\ i < j => Units(text, i) < Units(text, j)
        /\ j < i => Units(text, j) < Units(text, i)
    BY UnitsFacts
  <2> QED BY <2>2, <2>3
<1>6. offset >= 0 /\ length > 0
  <2>1. offset \in Nat /\ offset + length \in Nat
    BY <1>4, UnitsFacts
  <2>2. Units(text, p - 1) < Units(text, q)
    BY <1>4, UnitsFacts
  <2> QED BY <1>4, <2>1, <2>2
<1>7. s.last # -1
  BY <1>2, <1>4 DEF ScanSoFar
<1>8. s.last \in 1..L /\ s.last = q
  <2>1. s.last \in 1..L /\ Units(text, s.last) = offset + length
    BY <1>2, <1>7 DEF ScanSoFar
  <2> QED BY <1>1, <1>4, <1>5, <2>1
<1>9. s.first = p
  <2>1. p \in 1..Reached(s, L) /\ Reached(s, L) = q
    BY <1>4, <1>7, <1>8 DEF Reached
  <2>2. s.first \in 1..q /\ Units(text, s.first - 1) = offset
    BY <1>2, <1>4, <2>1 DEF ScanSoFar
  <2>3. s.first - 1 = p - 1
    BY <1>4, <1>5, <2>2
  <2> QED BY <1>4, <2>2, <2>3
<1> QED BY <1>3, <1>4, <1>6, <1>8, <1>9 DEF NoSpan

\* And what it finds is the span of these offsets.
LEMMA SpanSound ==
  ASSUME NEW text \in Seq(Char), NEW offset \in Int, NEW length \in Int,
         Utf16Span(text, offset, length) # NoSpan
  PROVE  LET span == Utf16Span(text, offset, length) IN
         /\ span \in (1..Len(text)) \X (1..Len(text))
         /\ Spanned(text, offset, length, span[1], span[2])
<1> DEFINE L == Len(text)
           s == Scan(text, offset, length)
<1>1. L \in Nat
  BY LenProperties
<1>2. s \in ScanState /\ ScanSoFar(text, offset, length, s, L)
  BY ScanHolds
<1>3. /\ Utf16Span(text, offset, length) = <<s.first, s.last>>
      /\ s.first > 0 /\ s.last >= s.first
  BY DEF Utf16Span
<1> HIDE DEF s
<1>4. s.first \in Nat /\ s.last \in Nat \cup {-1}
  BY <1>2 DEF ScanState
<1>5. s.last # -1
  BY <1>3, <1>4
<1>6. s.last \in 1..L /\ Units(text, s.last) = offset + length
  BY <1>2, <1>5 DEF ScanSoFar
<1>7. s.first \in 1..s.last /\ Units(text, s.first - 1) = offset
  BY <1>2, <1>3, <1>4, <1>5 DEF ScanSoFar, Reached
<1>8. s.first \in 1..L /\ s.last \in s.first..L
  BY <1>1, <1>6, <1>7
<1> QED BY <1>3, <1>6, <1>7, <1>8 DEF Spanned

\* The pairs of places between two offsets are the span that is found, if one is.
LEMMA SpansInTexts == sample \in Input => SpanIsExact
<1> DEFINE Between(text, offset, length) ==
             {s \in (DOMAIN text) \X (DOMAIN text) :
                /\ s[1] <= s[2]
                /\ Units(text, s[1] - 1) = offset
                /\ Units(text, s[2]) = offset + length}
           Found(text, offset, length) == {Utf16Span(text, offset, length)} \ {NoSpan}
<1>1. SUFFICES ASSUME sample \in Input, sample.kind = "text",
                      NEW offset \in Offsets, NEW length \in Offsets
      PROVE  Between(sample.text, offset, length) = Found(sample.text, offset, length)
  BY DEF SpanIsExact
<1> DEFINE text == sample.text
<1>2. text \in Seq(Char) /\ offset \in Int /\ length \in Int
  <2>1. sample \in TextInput
    BY <1>1, InputOfKind
  <2> QED BY <2>1, TextsAssumption DEF TextInput
<1>3. DOMAIN text = 1..Len(text) /\ Len(text) \in Nat
  BY <1>2, LenProperties
<1> HIDE DEF text
<1>4. ASSUME NEW p \in 1..Len(text), NEW q \in 1..Len(text)
      PROVE  <<p, q>> \in Between(text, offset, length) <=> Spanned(text, offset, length, p, q)
  BY <1>3 DEF Spanned
<1> HIDE DEF Between
<1>5. Between(text, offset, length) \subseteq (1..Len(text)) \X (1..Len(text))
  BY <1>3 DEF Between
<1>6. Between(text, offset, length) \subseteq Found(text, offset, length)
  <2>1. SUFFICES ASSUME NEW s \in Between(text, offset, length)
                 PROVE  s \in Found(text, offset, length)
    OBVIOUS
  <2>2. PICK p \in 1..Len(text), q \in 1..Len(text) : s = <<p, q>>
    BY <1>5
  <2>3. Spanned(text, offset, length, p, q)
    BY <1>4, <2>2
  <2>4. Utf16Span(text, offset, length) = s /\ s # NoSpan
    BY <1>2, <2>2, <2>3, SpanFound
  <2> QED BY <2>4
<1>7. Found(text, offset, length) \subseteq Between(text, offset, length)
  <2>1. SUFFICES ASSUME Utf16Span(text, offset, length) # NoSpan
                 PROVE  Utf16Span(text, offset, length) \in Between(text, offset, length)
    OBVIOUS
  <2> DEFINE s == Utf16Span(text, offset, length)
  <2>2. /\ s \in (1..Len(text)) \X (1..Len(text))
        /\ Spanned(text, offset, length, s[1], s[2])
    BY <1>2, <2>1, SpanSound
  <2> HIDE DEF s
  <2>3. s = <<s[1], s[2]>> /\ s[1] \in 1..Len(text) /\ s[2] \in 1..Len(text)
    BY <2>2
  <2>4. <<s[1], s[2]>> \in Between(text, offset, length)
    BY <1>4, <2>2, <2>3
  <2> QED BY <2>3, <2>4 DEF s
<1> HIDE DEF Found
<1>8. Between(text, offset, length) = Found(text, offset, length)
  BY <1>6, <1>7
<1> QED BY <1>8 DEF text

\* utf16Span is exact: for every text and every pair of offsets it finds the
\* characters between them, and nothing when an offset falls outside the text or
\* inside of a character.
THEOREM SpansAreExact == Sampling => []SpanIsExact
BY SpansInTexts, SampleIsInput, PTL

-----------------------------------------------------------------------------
(* Notices.                                                                *)

\* A set of places has a last one.
LEMMA LatestIsIn ==
  ASSUME NEW L \in Nat, NEW S \in SUBSET (1..L), S # {}
  PROVE  Max(S) \in S /\ \A j \in S : j <= Max(S)
<1> DEFINE D == {L - i : i \in S}
<1>1. D \in SUBSET Nat /\ D # {}
  OBVIOUS
<1>2. Earliest(D) \in D /\ \A j \in D : Earliest(D) <= j
  BY <1>1, EarliestIsIn
<1>3. PICK i \in S : Earliest(D) = L - i
  BY <1>2
<1>4. \A j \in S : i >= j
  <2>1. TAKE j \in S
  <2>2. Earliest(D) <= L - j
    BY <1>2
  <2> QED BY <1>3, <2>2
<1>5. Max(S) \in S /\ \A j \in S : Max(S) >= j
  BY <1>4 DEF Max
<1>6. \A j \in S : j \in Int
  OBVIOUS
<1>7. ASSUME NEW j \in S PROVE j <= Max(S)
  <2>1. Max(S) \in Int /\ j \in Int /\ Max(S) >= j
    BY <1>5, <1>6
  <2> QED BY <2>1
<1> QED BY <1>5, <1>7

\* strings.TrimSpace of a text that begins with a letter keeps its beginning.
LEMMA TrimFacts ==
  ASSUME NEW v \in Seq(Char)
  PROVE  /\ Trim(v) \in Seq(Char) /\ Len(Trim(v)) <= Len(v)
         /\ v # <<>> /\ v[1] # "_" => \E k \in 1..Len(v) : Trim(v) = SubSeq(v, 1, k)
         /\ Trim(v) = v /\ v # <<>> => v[1] # "_"
<1> DEFINE solid == {i \in DOMAIN v : v[i] # "_"}
           L == Len(v)
<1>1. L \in Nat /\ L = Len(v) /\ DOMAIN v = 1..L /\ \A i \in 1..L : v[i] \in Char
  BY LenProperties, ElementOfSeq
<1>2. <<>> \in Seq(Char) /\ Len(<<>>) = 0
  BY EmptySeq
<1>3. (v # <<>> => L > 0) /\ (L > 0 => 1 \in 1..L)
  BY <1>1, EmptySeq
<1> HIDE DEF L
<1>4. CASE Blank(v)
  <2>1. Trim(v) = <<>>
    BY <1>4 DEF Trim
  <2>2. \A i \in 1..L : v[i] = "_"
    BY <1>1, <1>4, Zenon DEF Blank
  <2>3. L > 0 => v[1] = "_"
    BY <1>3, <2>2
  <2>4. Trim(v) \in Seq(Char) /\ Len(Trim(v)) = 0
    BY <1>2, <2>1
  <2>5. v # <<>> => v[1] = "_"
    BY <1>3, <2>3
  <2>6. Trim(v) = v => v = <<>>
    BY <2>1
  <2>7. Len(Trim(v)) <= Len(v)
    BY <1>1, <2>4
  <2> QED BY <2>4, <2>5, <2>6, <2>7, Zenon
<1>5. CASE ~Blank(v)
  <2>1. solid # {} /\ solid \in SUBSET (1..L) /\ solid \in SUBSET Nat
    <3>1. solid # {}
      BY <1>5, Zenon DEF Blank
    <3>2. solid \subseteq 1..L
      BY <1>1, Zenon
    <3>3. 1..L \subseteq Nat
      BY <1>1
    <3> HIDE DEF solid
    <3> QED BY <3>1, <3>2, <3>3
  <2>2. Trim(v) = SubSeq(v, Min(solid), Max(solid))
    BY <1>5 DEF Trim
  <2>3. \A i \in solid : v[i] # "_"
    OBVIOUS
  <2>4. v[1] # "_" /\ L > 0 => 1 \in solid
    BY <1>1, <1>3, Zenon
  <2> HIDE DEF solid
  <2>5. Min(solid) = Earliest(solid)
    BY DEF Min, Earliest
  <2>6. Min(solid) \in solid /\ \A j \in solid : Min(solid) <= j
    BY <2>1, <2>5, EarliestIsIn
  <2>7. Max(solid) \in solid
    BY <1>1, <2>1, LatestIsIn
  <2> DEFINE a == Min(solid)
             b == Max(solid)
  <2>8. a \in 1..L /\ b \in 1..L /\ a <= b /\ a \in Int /\ b \in Int
    <3>1. a \in 1..L /\ b \in 1..L
      BY <2>1, <2>6, <2>7, Zenon
    <3>2. a <= b
      BY <2>6, <2>7, Zenon
    <3> HIDE DEF a, b
    <3> QED BY <1>1, <3>1, <3>2
  <2> HIDE DEF a, b
  <2>9. \A i \in a..b : v[i] \in Char
    BY <1>1, <2>8
  <2>10. /\ SubSeq(v, a, b) \in Seq(Char)
         /\ Len(SubSeq(v, a, b)) = b - a + 1
         /\ \A i \in 1..b - a + 1 : SubSeq(v, a, b)[i] = v[a + i - 1]
    BY <2>8, <2>9, SubSeqProperties
  <2>11. Len(SubSeq(v, a, b)) <= L /\ SubSeq(v, a, b)[1] = v[a]
    BY <1>1, <2>8, <2>10
  <2>12. v[a] # "_"
    BY <2>3, <2>6 DEF a
  <2>13. v # <<>> /\ v[1] # "_" => a = 1
    <3>1. v # <<>> /\ v[1] # "_" => a <= 1
      BY <1>3, <2>4, <2>6, Zenon DEF a
    <3>2. a \in Int /\ a >= 1
      BY <1>1, <2>8
    <3>3. a <= 1 => a = 1
      BY <3>2
    <3> QED BY <3>1, <3>3, Zenon
  <2> QED BY <1>1, <2>2, <2>8, <2>10, <2>11, <2>12, <2>13 DEF a, b
<1> QED BY <1>4, <1>5

\* A text that does not begin with a space.
Solid(v) == v # <<>> => v[1] # "_"

\* r is v, or its first k characters and the ellipsis.
Clipped(r, v, k) ==
  /\ k \in 0..Len(v)
  /\ \A i \in 1..k : r[i] = v[i]
  /\ \/ Len(r) = k /\ k = Len(v)
     \/ Len(r) = k + 1 /\ r[k + 1] = "~" /\ k < Len(v)

\* The beginning of a text.
LEMMA BeginningFacts ==
  ASSUME NEW v \in Seq(Char), NEW k \in 0..Len(v)
  PROVE  /\ SubSeq(v, 1, k) \in Seq(Char) /\ Len(SubSeq(v, 1, k)) = k
         /\ \A i \in 1..k : SubSeq(v, 1, k)[i] = v[i]
<1>1. k \in Nat /\ k \in Int /\ 1 \in Int /\ Len(v) \in Nat
  BY LenProperties
<1>2. \A i \in 1..k : v[i] \in Char
  <2>1. TAKE i \in 1..k
  <2>2. i \in 1..Len(v)
    BY <1>1
  <2> QED BY <2>2, ElementOfSeq
<1>3. /\ SubSeq(v, 1, k) \in Seq(Char)
      /\ Len(SubSeq(v, 1, k)) = IF 1 <= k THEN k - 1 + 1 ELSE 0
      /\ \A i \in 1..k - 1 + 1 : SubSeq(v, 1, k)[i] = v[1 + i - 1]
  BY <1>1, <1>2, SubSeqProperties
<1>4. k - 1 + 1 = k /\ \A i \in 1..k : 1 + i - 1 = i
  BY <1>1
<1>5. (IF 1 <= k THEN k - 1 + 1 ELSE 0) = k
  BY <1>1
<1>6. Len(SubSeq(v, 1, k)) = k
  BY <1>3, <1>5
<1>7. \A i \in 1..k : SubSeq(v, 1, k)[i] = v[i]
  BY <1>3, <1>4, Zenon
<1> QED BY <1>3, <1>6, <1>7, Zenon

\* TruncateRunes keeps its limit, the ellipsis aside.
LEMMA TruncateLength ==
  ASSUME NEW v \in Seq(Char), NEW limit \in Nat
  PROVE  /\ TruncateRunes(v, limit) \in Seq(Char)
         /\ Len(TruncateRunes(v, limit)) <= limit + 1
<1> DEFINE b == SubSeq(v, 1, limit)
<1>1. Len(v) \in Nat
  BY LenProperties
<1>2. CASE Len(v) <= limit
  BY <1>1, <1>2 DEF TruncateRunes
<1>3. CASE ~(Len(v) <= limit)
  <2>1. TruncateRunes(v, limit) = Append(Trim(b), "~")
    BY <1>3 DEF TruncateRunes
  <2>2. limit \in 0..Len(v)
    BY <1>1, <1>3
  <2>3. b \in Seq(Char) /\ Len(b) = limit
    BY <2>2, BeginningFacts
  <2> HIDE DEF b
  <2>4. Trim(b) \in Seq(Char) /\ Len(Trim(b)) <= limit
    BY <2>3, TrimFacts
  <2>5. "~" \in Char
    BY DEF Char
  <2>6. Append(Trim(b), "~") \in Seq(Char) /\ Len(Append(Trim(b), "~")) = Len(Trim(b)) + 1
    BY <2>4, <2>5, AppendProperties
  <2>7. Len(Trim(b)) \in Nat
    BY <2>4, LenProperties
  <2>8. Len(Trim(b)) + 1 <= limit + 1
    BY <2>4, <2>7
  <2> QED BY <2>1, <2>6, <2>8
<1> QED BY <1>2, <1>3

\* A text that does not begin with a space is clipped, and nothing else.
LEMMA TruncateClips ==
  ASSUME NEW v \in Seq(Char), NEW limit \in Nat, Solid(v)
  PROVE  \E k \in 0..Len(v) : Clipped(TruncateRunes(v, limit), v, k)
<1> DEFINE b == SubSeq(v, 1, limit)
           r == TruncateRunes(v, limit)
<1>1. Len(v) \in Nat
  BY LenProperties
<1>2. CASE Len(v) <= limit
  <2>1. r = v
    BY <1>2 DEF TruncateRunes
  <2> HIDE DEF r
  <2>2. Clipped(r, v, Len(v))
    BY <1>1, <2>1 DEF Clipped
  <2> QED BY <1>1, <2>2 DEF r
<1>3. CASE ~(Len(v) <= limit)
  <2>1. r = Append(Trim(b), "~")
    BY <1>3 DEF TruncateRunes
  <2>2. limit \in 0..Len(v) /\ limit < Len(v)
    BY <1>1, <1>3
  <2>3. b \in Seq(Char) /\ Len(b) = limit /\ \A i \in 1..limit : b[i] = v[i]
    BY <2>2, BeginningFacts
  <2>4. "~" \in Char
    BY DEF Char
  <2> HIDE DEF b, r
  <2>5. \E k \in 0..limit : Trim(b) \in Seq(Char) /\ Len(Trim(b)) = k /\ \A i \in 1..k : Trim(b)[i] = v[i]
    <3>1. CASE limit = 0
      <4>1. Trim(b) \in Seq(Char) /\ Len(Trim(b)) <= 0
        BY <2>3, <3>1, TrimFacts
      <4>2. Len(Trim(b)) \in Nat
        BY <4>1, LenProperties
      <4>3. Len(Trim(b)) = 0
        BY <4>1, <4>2
      <4> QED BY <3>1, <4>1, <4>3
    <3>2. CASE limit > 0
      <4>1. b # <<>> /\ v # <<>> /\ b[1] = v[1]
        <5>1. Len(b) # 0 /\ Len(v) # 0 /\ 1 \in 1..limit
          BY <1>1, <2>2, <2>3, <3>2
        <5>2. b # <<>> /\ v # <<>>
          BY <5>1, EmptySeq
        <5> QED BY <2>3, <5>1, <5>2
      <4>9. b # <<>> /\ b[1] # "_"
        BY <4>1, Zenon DEF Solid
      <4>2. PICK k \in 1..Len(b) : Trim(b) = SubSeq(b, 1, k)
        BY ONLY <2>3, <4>9, TrimFacts
      <4>3. k \in 0..Len(b) /\ k \in 0..limit
        BY <2>3, <4>2
      <4>4. /\ SubSeq(b, 1, k) \in Seq(Char) /\ Len(SubSeq(b, 1, k)) = k
            /\ \A i \in 1..k : SubSeq(b, 1, k)[i] = b[i]
        BY <2>3, <4>3, BeginningFacts
      <4>5. \A i \in 1..k : i \in 1..limit
        BY <4>3
      <4>6. \A i \in 1..k : Trim(b)[i] = v[i]
        BY <2>3, <4>2, <4>4, <4>5
      <4>7. Trim(b) \in Seq(Char) /\ Len(Trim(b)) = k
        BY <4>2, <4>4
      <4> QED BY <4>3, <4>6, <4>7
    <3> QED BY <3>1, <3>2
  <2>6. PICK k \in 0..limit : /\ Trim(b) \in Seq(Char) /\ Len(Trim(b)) = k
                              /\ \A i \in 1..k : Trim(b)[i] = v[i]
    BY <2>5
  <2>7. /\ Len(r) = k + 1 /\ r[k + 1] = "~"
        /\ \A i \in 1..k : r[i] = Trim(b)[i]
    BY <2>1, <2>4, <2>6, AppendProperties
  <2>8. k \in 0..Len(v) /\ k < Len(v)
    BY <1>1, <2>2
  <2>9. Clipped(r, v, k)
    BY <2>6, <2>7, <2>8 DEF Clipped
  <2> QED BY <2>8, <2>9 DEF r
<1> QED BY <1>2, <1>3

\* Clipping what was clipped is clipping.
LEMMA ClippedTwice ==
  ASSUME NEW u \in Seq(Char), NEW r \in Seq(Char), NEW v \in Seq(Char),
         NEW j \in Nat, NEW k \in Nat, Clipped(r, v, j), Clipped(u, r, k)
  PROVE  \E m \in {j, k} : Clipped(u, v, m) /\ m <= k
<1>1. Len(u) \in Nat /\ Len(r) \in Nat /\ Len(v) \in Nat
  BY LenProperties
<1>2. /\ j \in 0..Len(v) /\ \A i \in 1..j : r[i] = v[i]
      /\ \/ Len(r) = j /\ j = Len(v)
         \/ Len(r) = j + 1 /\ r[j + 1] = "~" /\ j < Len(v)
  BY DEF Clipped
<1>3. /\ k \in 0..Len(r) /\ \A i \in 1..k : u[i] = r[i]
      /\ \/ Len(u) = k /\ k = Len(r)
         \/ Len(u) = k + 1 /\ u[k + 1] = "~" /\ k < Len(r)
  BY DEF Clipped
<1>4. CASE Len(u) = k /\ k = Len(r)
  <2>1. j \in Nat /\ j <= k
    BY <1>1, <1>2, <1>4
  <2>2. \A i \in 1..j : u[i] = v[i]
    BY <1>2, <1>3, <1>4, <2>1
  <2>3. Len(r) = j + 1 => u[j + 1] = "~"
    BY <1>1, <1>2, <1>3, <1>4, <2>1
  <2>4. Clipped(u, v, j)
    BY <1>2, <1>4, <2>2, <2>3 DEF Clipped
  <2> QED BY <2>1, <2>4
<1>5. CASE Len(u) = k + 1 /\ u[k + 1] = "~" /\ k < Len(r)
  <2>1. k \in Nat /\ k <= j /\ k < Len(v)
    BY <1>1, <1>2, <1>3, <1>5
  <2>2. \A i \in 1..k : u[i] = v[i]
    BY <1>1, <1>2, <1>3, <2>1
  <2>3. k \in 0..Len(v) /\ k <= k
    BY <1>1, <2>1
  <2>4. Clipped(u, v, k)
    BY <1>5, <2>1, <2>2, <2>3 DEF Clipped
  <2> QED BY <2>3, <2>4
<1> QED BY <1>3, <1>4, <1>5

\* The name stands in the text after its first n characters.
StandsAt(text, name, n) ==
  n \in 0..(Len(text) - Len(name)) /\ \A i \in 1..Len(name) : text[n + i] = name[i]

\* A place of a name is where it stands, character by character.
LEMMA PlacesAre ==
  ASSUME NEW text \in Seq(Char), NEW name \in Seq(Char)
  PROVE  /\ \A n : n \in Places(text, name) <=> StandsAt(text, name, n)
         /\ Places(text, name) \in SUBSET Nat
<1>1. Len(text) \in Nat /\ Len(name) \in Nat
  BY LenProperties
<1>2. ASSUME NEW n \in 0..(Len(text) - Len(name))
      PROVE  SubSeq(text, n + 1, n + Len(name)) = name
               <=> \A i \in 1..Len(name) : text[n + i] = name[i]
  <2> DEFINE s == SubSeq(text, n + 1, n + Len(name))
             m == Len(name)
  <2>1. n + 1 \in Int /\ n + m \in Int /\ m \in Nat /\ n \in Nat
    BY <1>1
  <2>2. \A i \in n + 1..n + m : text[i] \in Char
    <3>1. TAKE i \in n + 1..n + m
    <3>2. i \in 1..Len(text)
      BY <1>1
    <3> QED BY <3>2, ElementOfSeq
  <2> HIDE DEF m
  <2>3. /\ SubSeq(text, n + 1, n + m) \in Seq(Char)
        /\ Len(SubSeq(text, n + 1, n + m)) = IF n + 1 <= n + m THEN n + m - (n + 1) + 1 ELSE 0
        /\ \A i \in 1..n + m - (n + 1) + 1 : SubSeq(text, n + 1, n + m)[i] = text[n + 1 + i - 1]
    BY <2>1, <2>2, SubSeqProperties, SMTT(30)
  <2>4. n + m - (n + 1) + 1 = m /\ (n + 1 <= n + m \/ m = 0)
    BY <2>1
  <2>5. Len(SubSeq(text, n + 1, n + m)) = m
    BY <2>1, <2>3, <2>4
  <2>6. \A i \in 1..m : n + 1 + i - 1 = n + i
    BY <2>1
  <2>7. \A i \in 1..m : SubSeq(text, n + 1, n + m)[i] = text[n + i]
    BY <2>3, <2>4, <2>6
  <2>8. s \in Seq(Char) /\ Len(s) = m /\ \A i \in 1..m : s[i] = text[n + i]
    BY <2>3, <2>5, <2>7 DEF m
  <2> HIDE DEF s
  <2>9. s = name => \A i \in 1..m : text[n + i] = name[i]
    BY <2>8
  <2>10. (\A i \in 1..m : text[n + i] = name[i]) => s = name
    BY <2>8, SeqEqual DEF m
  <2> QED BY <2>9, <2>10 DEF s, m
<1>3. \A n : n \in Places(text, name) <=> StandsAt(text, name, n)
  BY <1>2 DEF Places, StandsAt
<1>4. 0..(Len(text) - Len(name)) \subseteq Nat
  BY <1>1
<1> QED BY <1>3, <1>4 DEF StandsAt

\* A name without an ellipsis stands in a clipped text only where it stands in the
\* whole text, and wherever it stands there before the clip.
LEMMA PlaceKept ==
  ASSUME NEW r \in Seq(Char), NEW v \in Seq(Char), NEW name \in Seq(Char), NEW k,
         Clipped(r, v, k), name # <<>>, \A i \in 1..Len(name) : name[i] # "~"
  PROVE  /\ \A n \in Places(r, name) : n + Len(name) <= k /\ n \in Places(v, name)
         /\ \A n \in Places(v, name) : n + Len(name) <= k => n \in Places(r, name)
<1> DEFINE m == Len(name)
<1>1. Len(r) \in Nat /\ Len(v) \in Nat /\ m \in Nat /\ m > 0
  BY LenProperties, EmptySeq
<1>2. /\ k \in 0..Len(v) /\ \A i \in 1..k : r[i] = v[i]
      /\ Len(r) = k \/ (Len(r) = k + 1 /\ r[k + 1] = "~")
  BY DEF Clipped
<1>3. \A n : /\ n \in Places(r, name) <=> StandsAt(r, name, n)
             /\ n \in Places(v, name) <=> StandsAt(v, name, n)
  BY PlacesAre
<1>4. m \in 1..m /\ \A i \in 1..m : name[i] # "~"
  BY <1>1
<1>5. \A n : /\ StandsAt(r, name, n) <=> n \in 0..(Len(r) - m) /\ \A i \in 1..m : r[n + i] = name[i]
             /\ StandsAt(v, name, n) <=> n \in 0..(Len(v) - m) /\ \A i \in 1..m : v[n + i] = name[i]
  BY DEF StandsAt
<1> HIDE DEF m
<1>6. ASSUME NEW n \in Places(r, name) PROVE n + m <= k /\ n \in Places(v, name)
  <2>1. n \in 0..(Len(r) - m) /\ \A i \in 1..m : r[n + i] = name[i]
    BY <1>3, <1>5
  <2>2. n \in Nat /\ n + m \in Nat /\ k \in Nat /\ n + m <= Len(r)
    BY <1>1, <1>2, <2>1
  <2>3. r[n + m] # "~"
    BY <1>4, <2>1
  <2>4. n + m # k + 1 \/ Len(r) = k
    BY <1>2, <2>3
  <2>5. n + m <= k
    BY <1>2, <2>2, <2>4
  <2>6. \A i \in 1..m : n + i \in 1..k
    BY <1>1, <2>2, <2>5
  <2>7. \A i \in 1..m : v[n + i] = name[i]
    BY <1>2, <2>1, <2>6
  <2>8. n \in 0..(Len(v) - m)
    BY <1>1, <1>2, <2>2, <2>5
  <2> QED BY <1>3, <1>5, <2>5, <2>7, <2>8
<1>7. ASSUME NEW n \in Places(v, name), n + m <= k PROVE n \in Places(r, name)
  <2>1. n \in 0..(Len(v) - m) /\ \A i \in 1..m : v[n + i] = name[i]
    BY <1>3, <1>5
  <2>2. n \in Nat /\ k \in Nat /\ k <= Len(r)
    BY <1>1, <1>2, <2>1
  <2>3. \A i \in 1..m : n + i \in 1..k
    BY <1>1, <1>7, <2>2
  <2>4. \A i \in 1..m : r[n + i] = name[i]
    BY <1>2, <2>1, <2>3
  <2>5. n \in 0..(Len(r) - m)
    BY <1>1, <1>7, <2>2
  <2> QED BY <1>3, <1>5, <2>4, <2>5
<1> QED BY <1>6, <1>7 DEF m

\* Texts that begin the same have as many units there.
LEMMA UnitsAgree ==
  ASSUME NEW t, NEW u, NEW n \in Nat, \A i \in 1..n : t[i] = u[i]
  PROVE  Units(t, n) = Units(u, n)
<1>1. {i \in 1..n : t[i] = "w"} = {i \in 1..n : u[i] = "w"}
  OBVIOUS
<1> QED BY <1>1 DEF Units

\* Where a name stands, its units are those of its characters.
LEMMA UnitsOfName ==
  ASSUME NEW text, NEW name, NEW n \in Nat, NEW m \in Nat,
         \A i \in 1..m : text[n + i] = name[i]
  PROVE  Units(text, n + m) = Units(text, n) + Units(name, m)
<1> DEFINE T == {j \in 0..m : Units(text, n + j) = Units(text, n) + Units(name, j)}
<1>1. 0 \in T
  <2>1. Units(text, n) \in Nat /\ Units(name, 0) = 0 /\ n + 0 = n /\ 0 \in 0..m
    BY UnitsFacts
  <2> QED BY <2>1
<1>2. \A j \in 1..m : j - 1 \in T => j \in T
  <2>1. SUFFICES ASSUME NEW j \in 1..m, j - 1 \in T PROVE j \in T
    OBVIOUS
  <2>2. j \in 0..m /\ j \in Nat /\ j > 0 /\ n + j \in Nat /\ n + j > 0 /\ n + j - 1 = n + (j - 1)
    OBVIOUS
  <2>3. Units(text, n + j) = Units(text, n + j - 1) + Utf16Width(text[n + j])
    BY <2>2, UnitsFacts
  <2>4. Units(name, j) = Units(name, j - 1) + Utf16Width(name[j])
    BY <2>2, UnitsFacts
  <2>5. Units(text, n + (j - 1)) = Units(text, n) + Units(name, j - 1)
    BY <2>1
  <2>6. Utf16Width(text[n + j]) = Utf16Width(name[j]) /\ Utf16Width(name[j]) \in Nat
    BY DEF Utf16Width
  <2>7. Units(text, n) \in Nat /\ Units(name, j - 1) \in Nat
    BY <2>2, UnitsFacts, SMTT(30)
  <2>8. Units(text, n + j) = Units(text, n) + Units(name, j)
    BY <2>2, <2>3, <2>4, <2>5, <2>6, <2>7
  <2> QED BY <2>2, <2>8
<1>3. m \in T
  <2> HIDE DEF T
  <2>1. m \in 0..m
    OBVIOUS
  <2> QED BY <1>1, <1>2, <2>1, Ascent
<1> QED BY <1>3

\* The length of a text in UTF-16 units.
LEMMA UnitsOfText ==
  ASSUME NEW text \in Seq(Char)
  PROVE  Utf16Units(text) = Units(text, Len(text))
<1>1. DOMAIN text = 1..Len(text)
  BY LenProperties
<1> QED BY <1>1 DEF Utf16Units, Units

\* An entity with the units before a name and those of the name covers it, in every
\* text where it stands there.
LEMMA NameIsCovered ==
  ASSUME NEW text \in Seq(Char), NEW name \in Seq(Char), name # <<>>,
         NEW n, StandsAt(text, name, n)
  PROVE  LET span == Utf16Span(text, Units(text, n), Utf16Units(name))
         IN /\ span # NoSpan /\ Cut(text, span) = name
            /\ span = <<n + 1, n + Len(name)>>
<1> DEFINE m == Len(name)
<1>1. Len(text) \in Nat /\ m \in Nat /\ m > 0
  BY LenProperties, EmptySeq
<1>2. n \in 0..(Len(text) - m) /\ \A i \in 1..m : text[n + i] = name[i]
  BY DEF StandsAt
<1>3. n \in Places(text, name)
  BY PlacesAre
<1>4. SubSeq(text, n + 1, n + m) = name
  BY <1>3 DEF Places
<1>5. Utf16Units(name) = Units(name, m)
  BY UnitsOfText
<1> HIDE DEF m
<1>6. n \in Nat /\ n + m \in Nat /\ n + 1 \in 1..Len(text) /\ n + m \in n + 1..Len(text)
  BY <1>1, <1>2
<1>7. Units(text, n + m) = Units(text, n) + Units(name, m)
  BY <1>1, <1>2, <1>6, UnitsOfName
<1>8. Units(text, n) \in Int /\ Units(name, m) \in Int
  BY <1>1, <1>6, UnitsFacts
<1>9. Spanned(text, Units(text, n), Units(name, m), n + 1, n + m)
  <2>1. n + 1 - 1 = n
    BY <1>6
  <2> QED BY <1>6, <1>7, <2>1 DEF Spanned
<1>10. /\ Utf16Span(text, Units(text, n), Units(name, m)) = <<n + 1, n + m>>
       /\ <<n + 1, n + m>> # NoSpan
  BY <1>8, <1>9, SpanFound
<1> QED BY <1>4, <1>5, <1>10 DEF Cut, m

\* A notice says the name of the sender after what comes before it, and does not
\* begin with a space if it has one.
LEMMA NoticeFacts ==
  ASSUME NEW before \in Seq(Char), NEW name \in Seq(Char), NEW after \in Seq(Char),
         Solid(before), Trim(name) = name, name # <<>>
  PROVE  LET notice == Render(before, name, after)
         IN /\ notice \in Seq(Char) /\ Solid(notice)
            /\ StandsAt(notice, name, Len(before))
<1> DEFINE p == Len(before)
           m == Len(name)
           q == Len(after)
           notice == Render(before, name, after)
<1>1. p \in Nat /\ m \in Nat /\ q \in Nat /\ m > 0
  BY LenProperties, EmptySeq
<1>2. /\ before \o name \in Seq(Char) /\ Len(before \o name) = p + m
      /\ \A i \in 1..p + m : (before \o name)[i] = IF i <= p THEN before[i] ELSE name[i - p]
  BY ConcatProperties
<1>3. /\ notice \in Seq(Char) /\ Len(notice) = Len(before \o name) + q
      /\ \A i \in 1..Len(before \o name) + q :
           notice[i] = IF i <= Len(before \o name) THEN (before \o name)[i]
                       ELSE after[i - Len(before \o name)]
  BY <1>2, ConcatProperties DEF Render
<1> HIDE DEF p, m, q, notice
<1>4. \A i \in 1..p + m : notice[i] = IF i <= p THEN before[i] ELSE name[i - p]
  <2>1. TAKE i \in 1..p + m
  <2>2. i \in 1..p + m + q /\ i <= p + m
    BY <1>1
  <2>3. notice[i] = (before \o name)[i]
    BY <1>2, <1>3, <2>2
  <2> QED BY <1>2, <2>3
<1>5. \A i \in 1..m : notice[p + i] = name[i]
  <2>1. TAKE i \in 1..m
  <2>2. p + i \in 1..p + m /\ ~(p + i <= p) /\ (p + i) - p = i
    BY <1>1
  <2> DEFINE j == p + i
  <2>3. j \in 1..p + m /\ ~(j <= p) /\ j - p = i
    BY <2>2, Zenon
  <2> HIDE DEF j
  <2>4. notice[j] = name[j - p]
    BY ONLY <1>4, <2>3
  <2>5. notice[j] = name[i]
    BY <2>3, <2>4, Zenon
  <2> QED BY <2>5, Zenon DEF j
<1>6. p \in 0..(Len(notice) - m)
  BY <1>1, <1>2, <1>3
<1>7. StandsAt(notice, name, p)
  BY <1>5, <1>6 DEF StandsAt, m
<1>8. notice[1] # "_"
  <2>1. CASE p = 0
    <3>1. 1 \in 1..p + m /\ ~(1 <= p) /\ 1 - p = 1
      BY <1>1, <2>1
    <3>2. notice[1] = name[1]
      BY <1>4, <3>1
    <3>3. name[1] # "_"
      BY TrimFacts, Zenon
    <3> QED BY <3>2, <3>3
  <2>2. CASE p > 0
    <3>1. 1 \in 1..p + m /\ 1 <= p
      BY <1>1, <2>2
    <3>2. notice[1] = before[1]
      BY <1>4, <3>1
    <3>3. before # <<>>
      BY <2>2, EmptySeq DEF p
    <3>4. before[1] # "_"
      BY <3>3, Zenon DEF Solid
    <3> QED BY <3>2, <3>4
  <2>3. p = 0 \/ p > 0
    BY <1>1
  <2> QED BY <2>1, <2>2, <2>3, Zenon
<1>9. Solid(notice)
  BY <1>8, Zenon DEF Solid
<1> QED BY <1>3, <1>7, <1>9 DEF notice, p

\* What was clipped from a text that does not begin with a space does not either.
LEMMA ClippedIsSolid ==
  ASSUME NEW r \in Seq(Char), NEW v \in Seq(Char), NEW k, Clipped(r, v, k), Solid(v)
  PROVE  Solid(r)
<1>1. Len(r) \in Nat /\ Len(v) \in Nat
  BY LenProperties
<1>2. /\ k \in 0..Len(v) /\ \A i \in 1..k : r[i] = v[i]
      /\ Len(r) = k \/ (Len(r) = k + 1 /\ r[k + 1] = "~")
  BY DEF Clipped
<1>3. CASE k > 0
  <2>1. r[1] = v[1] /\ Len(v) # 0
    BY <1>1, <1>2, <1>3
  <2>2. v # <<>>
    BY <2>1, EmptySeq
  <2>3. v[1] # "_"
    BY <2>2, Zenon DEF Solid
  <2>4. r[1] # "_"
    BY <2>1, <2>3
  <2> QED BY <2>4, Zenon DEF Solid
<1>4. CASE k = 0
  <2>1. Len(r) = 0 \/ r[1] = "~"
    BY <1>2, <1>4
  <2>2. CASE r[1] = "~"
    <3>1. r[1] # "_"
      BY <2>2
    <3> QED BY <3>1, Zenon DEF Solid
  <2>3. CASE Len(r) = 0
    <3>1. r = <<>>
      BY <2>3, EmptySeq
    <3> QED BY <3>1, Zenon DEF Solid
  <2> QED BY <2>1, <2>2, <2>3
<1> QED BY <1>1, <1>2, <1>3, <1>4

\* The whole response and the text that is sent are clipped from the notice, the
\* text also from the whole, and both to their limits.
LEMMA PayloadFacts ==
  ASSUME NEW notice \in Seq(Char), NEW name, NEW copy \in BOOLEAN
  PROVE  LET payload == Payload(notice, name, copy)
         IN /\ payload.text \in Seq(Char) /\ payload.fallback \in Seq(Char)
            /\ Len(payload.text) <= (IF copy THEN CaptionLimit ELSE TextLimit) + 1
            /\ payload.entities = ResponseEntities(payload.text, name)
            /\ Solid(notice) =>
                 \E k \in Nat, j \in Nat :
                   /\ Clipped(payload.text, notice, k)
                   /\ Clipped(payload.text, payload.fallback, j) /\ k <= j
<1> DEFINE whole == TruncateRunes(notice, TextLimit)
           text  == IF copy THEN TruncateRunes(whole, CaptionLimit) ELSE whole
           payload == Payload(notice, name, copy)
<1>1. /\ payload.text = text /\ payload.fallback = whole
      /\ payload.entities = ResponseEntities(text, name)
  BY DEF Payload
<1>2. TextLimit \in Nat /\ CaptionLimit \in Nat
  BY TextLimitsAssumption
<1>3. whole \in Seq(Char) /\ Len(whole) <= TextLimit + 1
  BY <1>2, TruncateLength
<1>4. Len(whole) \in Nat
  BY <1>3, LenProperties
<1>5. CASE ~copy
  <2>1. text = whole
    BY <1>5
  <2> HIDE DEF payload, text, whole
  <2>2. ASSUME Solid(notice)
        PROVE  \E k \in Nat, j \in Nat :
                 /\ Clipped(payload.text, notice, k)
                 /\ Clipped(payload.text, payload.fallback, j) /\ k <= j
    <3>1. PICK k \in 0..Len(notice) : Clipped(whole, notice, k)
      BY <1>2, <2>2, TruncateClips DEF whole
    <3>2. Clipped(whole, whole, Len(whole))
      BY <1>4 DEF Clipped
    <3>3. k \in Nat /\ k <= Len(whole)
      <4>1. Len(notice) \in Nat
        BY LenProperties
      <4> QED BY <3>1, <4>1 DEF Clipped
    <3> QED BY <1>1, <1>4, <2>1, <3>1, <3>2, <3>3
  <2> QED BY <1>1, <1>3, <1>5, <2>1, <2>2 DEF payload
<1>6. CASE copy
  <2>1. text = TruncateRunes(whole, CaptionLimit)
    BY <1>6
  <2> HIDE DEF payload, text, whole
  <2>2. text \in Seq(Char) /\ Len(text) <= CaptionLimit + 1
    BY <1>2, <1>3, <2>1, TruncateLength
  <2>3. ASSUME Solid(notice)
        PROVE  \E k \in Nat, j \in Nat :
                 /\ Clipped(payload.text, notice, k)
                 /\ Clipped(payload.text, payload.fallback, j) /\ k <= j
    <3>1. PICK i \in 0..Len(notice) : Clipped(whole, notice, i)
      BY <1>2, <2>3, TruncateClips DEF whole
    <3>2. Solid(whole)
      BY <1>3, <2>3, <3>1, ClippedIsSolid
    <3>3. PICK j \in 0..Len(whole) : Clipped(text, whole, j)
      BY <1>2, <1>3, <2>1, <3>2, TruncateClips
    <3>4. PICK k \in {i, j} : Clipped(text, notice, k) /\ k <= j
      <4>1. text \in Seq(Char) /\ whole \in Seq(Char) /\ notice \in Seq(Char)
        BY <1>3, <2>2
      <4>2. i \in Nat /\ j \in Nat
        <5>1. Len(notice) \in Nat
          BY LenProperties
        <5> QED BY <1>4, <3>1, <3>3, <5>1
      <4> QED BY ONLY <3>1, <3>3, <4>1, <4>2, ClippedTwice
    <3>5. k \in Nat /\ j \in Nat
      <4>1. Len(notice) \in Nat
        BY LenProperties
      <4> QED BY <1>4, <3>1, <3>3, <3>4, <4>1
    <3> QED BY <1>1, <3>3, <3>4, <3>5
  <2> QED BY <1>1, <1>3, <1>6, <2>2, <2>3 DEF payload
<1> QED BY <1>5, <1>6

\* No name in the notices has an ellipsis, so none can stand where a text was cut.
NoEllipsis == \A name \in Words : \A i \in 1..Len(name) : name[i] # "~"

\* The mention is that of the name, in the text and in what replaces it.
LEMMA MentionHolds ==
  ASSUME NEW before \in Words, NEW name \in Words, NEW after \in Words, NEW copy \in BOOLEAN,
         NoEllipsis, Solid(before), Trim(name) = name
  PROVE  LET notice  == Render(before, name, after)
             payload == Payload(notice, name, copy)
             place   == Len(before)
             Names(text, e) == LET span == Utf16Span(text, e.offset, e.length)
                               IN span # NoSpan /\ Cut(text, span) = name
         IN \A n \in DOMAIN payload.entities :
              /\ Names(payload.text, payload.entities[n])
              /\ Names(payload.fallback, payload.entities[n])
              /\ \/ payload.entities[n].offset = Units(notice, place)
                 \/ \E earlier \in Places(notice, name) : earlier < place
<1> DEFINE notice  == Render(before, name, after)
           payload == Payload(notice, name, copy)
           text    == payload.text
           whole   == payload.fallback
           place   == Len(before)
           Names(t, e) == LET span == Utf16Span(t, e.offset, e.length)
                          IN span # NoSpan /\ Cut(t, span) = name
           InPlace(e) == \/ e.offset = Units(notice, place)
                         \/ \E earlier \in Places(notice, name) : earlier < place
<1> SUFFICES \A n \in DOMAIN payload.entities :
               /\ Names(text, payload.entities[n])
               /\ Names(whole, payload.entities[n])
               /\ InPlace(payload.entities[n])
  OBVIOUS
<1> HIDE DEF Names, InPlace
<1>1. before \in Seq(Char) /\ name \in Seq(Char) /\ after \in Seq(Char)
  BY TextsAssumption
<1>2. payload.entities = ResponseEntities(text, name)
  BY DEF Payload
<1>3. CASE name = <<>> \/ Places(text, name) = {}
  <2>1. payload.entities = <<>>
    BY <1>2, <1>3 DEF ResponseEntities
  <2>2. DOMAIN payload.entities = {}
    BY <2>1
  <2> HIDE DEF payload
  <2> QED BY <2>2
<1>4. CASE ~(name = <<>> \/ Places(text, name) = {})
  <2> DEFINE p == Min(Places(text, name))
             e == [offset |-> Utf16Units(SubSeq(text, 1, p)), length |-> Utf16Units(name)]
  <2>1. payload.entities = <<e>>
    BY <1>2, <1>4 DEF ResponseEntities
  <2>2. name # <<>> /\ Places(text, name) # {}
    BY <1>4
  <2>3. notice \in Seq(Char) /\ Solid(notice) /\ StandsAt(notice, name, place)
    BY <1>1, <2>2, NoticeFacts
  <2> HIDE DEF notice
  <2>4. /\ text \in Seq(Char) /\ whole \in Seq(Char)
        /\ \E k \in Nat, j \in Nat :
             Clipped(text, notice, k) /\ Clipped(text, whole, j) /\ k <= j
    BY <2>3, PayloadFacts
  <2>5. PICK k \in Nat, j \in Nat :
          Clipped(text, notice, k) /\ Clipped(text, whole, j) /\ k <= j
    BY <2>4
  <2> HIDE DEF payload, text, whole, p, e
  <2>6. \A i \in 1..Len(name) : name[i] # "~"
    BY DEF NoEllipsis
  <2>7. /\ \A n \in Places(text, name) : n + Len(name) <= k /\ n \in Places(notice, name)
        /\ \A n \in Places(notice, name) : n + Len(name) <= k => n \in Places(text, name)
    BY ONLY <1>1, <2>2, <2>3, <2>4, <2>5, <2>6, PlaceKept
  <2>8. \A n \in Places(text, name) : n + Len(name) <= j /\ n \in Places(whole, name)
    BY ONLY <1>1, <2>2, <2>4, <2>5, <2>6, PlaceKept
  <2>9. p \in Places(text, name) /\ \A n \in Places(text, name) : p <= n
    <3>1. Places(text, name) \in SUBSET Nat
      BY <1>1, <2>4, PlacesAre
    <3>2. p = Earliest(Places(text, name))
      BY DEF p, Min, Earliest
    <3> QED BY <2>2, <3>1, <3>2, EarliestIsIn
  <2>10. /\ StandsAt(text, name, p) /\ StandsAt(whole, name, p) /\ p \in Places(notice, name)
         /\ p + Len(name) <= k /\ p \in Nat /\ Len(name) \in Nat
    <3>1. Places(text, name) \in SUBSET Nat
      BY <1>1, <2>4, PlacesAre
    <3>2. p \in Places(whole, name) /\ p \in Places(notice, name) /\ p + Len(name) <= k
      BY <2>7, <2>8, <2>9
    <3>3. StandsAt(text, name, p) /\ StandsAt(whole, name, p)
      BY <1>1, <2>4, <2>9, <3>2, PlacesAre
    <3>4. Len(name) \in Nat
      BY <1>1, LenProperties
    <3> QED BY <2>9, <3>1, <3>2, <3>3, <3>4
  <2>11. p <= k /\ p \in 0..Len(text)
    <3>1. Len(text) \in Nat
      BY <2>4, LenProperties
    <3>2. k <= Len(text)
      BY <2>5, <3>1 DEF Clipped
    <3> QED BY <2>5, <2>10, <3>1, <3>2
  <2>12. Utf16Units(SubSeq(text, 1, p)) = Units(text, p)
    <3> DEFINE b == SubSeq(text, 1, p)
    <3>1. b \in Seq(Char) /\ Len(b) = p /\ \A i \in 1..p : b[i] = text[i]
      BY <2>4, <2>11, BeginningFacts
    <3> HIDE DEF b
    <3>2. Utf16Units(b) = Units(b, p)
      BY <3>1, UnitsOfText
    <3>3. Units(b, p) = Units(text, p)
      BY <2>10, <3>1, UnitsAgree
    <3> QED BY <3>2, <3>3 DEF b
  <2>13. e.offset = Units(text, p) /\ e.length = Utf16Units(name)
    BY <2>12 DEF e
  <2>14. \A i \in 1..p : text[i] = whole[i] /\ text[i] = notice[i]
    <3>1. \A i \in 1..p : i \in 1..k /\ i \in 1..j
      BY <2>5, <2>10, <2>11
    <3>2. (\A i \in 1..k : text[i] = notice[i]) /\ (\A i \in 1..j : text[i] = whole[i])
      BY <2>5 DEF Clipped
    <3> QED BY <3>1, <3>2
  <2>15. Units(text, p) = Units(whole, p) /\ Units(text, p) = Units(notice, p)
    BY <2>10, <2>14, UnitsAgree
  <2>16. Names(text, e)
    <3>1. LET span == Utf16Span(text, Units(text, p), Utf16Units(name))
          IN span # NoSpan /\ Cut(text, span) = name
      BY ONLY <1>1, <2>2, <2>4, <2>10, NameIsCovered
    <3> QED BY <2>13, <3>1, Zenon DEF Names
  <2>17. Names(whole, e)
    <3>1. LET span == Utf16Span(whole, Units(whole, p), Utf16Units(name))
          IN span # NoSpan /\ Cut(whole, span) = name
      BY ONLY <1>1, <2>2, <2>4, <2>10, NameIsCovered
    <3> QED BY <2>13, <2>15, <3>1, Zenon DEF Names
  <2>18. place \in Places(notice, name) /\ place \in Nat
    BY <1>1, <2>3, PlacesAre
  <2>19. InPlace(e)
    <3> HIDE DEF place
    <3>1. CASE p < place
      BY <2>10, <3>1 DEF InPlace
    <3>2. CASE p = place
      BY <2>13, <2>15, <3>2 DEF InPlace
    <3>3. CASE p > place
      <4>1. place + Len(name) <= k
        BY <2>5, <2>10, <2>18, <3>3
      <4>2. p <= place
        BY <2>7, <2>9, <2>18, <4>1
      <4> QED BY <2>10, <2>18, <3>3, <4>2
    <3> QED BY <2>10, <2>18, <3>1, <3>2, <3>3
  <2>20. DOMAIN payload.entities = {1} /\ payload.entities[1] = e
    BY <2>1
  <2> QED BY <2>16, <2>17, <2>19, <2>20
<1> QED BY <1>3, <1>4

\* Every notice mentions its sender as it should.
LEMMA NoticeIsMentioned == ASSUME NoEllipsis PROVE sample \in Input => MentionIsExact
<1>1. SUFFICES ASSUME sample \in Input, sample.kind = "notice" PROVE MentionIsExact
  BY DEF MentionIsExact
<1> DEFINE before  == sample.before
           name    == sample.name
           after   == sample.after
           copy    == sample.copy
           notice  == Render(before, name, after)
           payload == Payload(notice, name, copy)
<1>2. sample \in NoticeInput
  BY <1>1, InputOfKind
<1>3. /\ before \in Words /\ name \in Words /\ after \in Words /\ copy \in BOOLEAN
      /\ Trim(name) = name
  BY <1>2 DEF NoticeInput
<1>4. Solid(before)
  <2>1. before # <<>> => Head(before) # "_"
    BY <1>2, Zenon DEF NoticeInput
  <2>2. before \in Seq(Char)
    BY <1>3, TextsAssumption
  <2>3. before # <<>> => Head(before) = before[1]
    BY <2>2, HeadTailProperties
  <2> HIDE DEF before
  <2> QED BY <2>1, <2>3, Zenon DEF Solid
<1>5. notice \in Seq(Char)
  <2>1. before \in Seq(Char) /\ name \in Seq(Char) /\ after \in Seq(Char)
    BY <1>3, TextsAssumption
  <2> HIDE DEF before, name, after
  <2>2. before \o name \in Seq(Char)
    BY <2>1, ConcatProperties
  <2> QED BY <2>1, <2>2, ConcatProperties DEF Render
<1>6. /\ Len(payload.text) <= (IF copy THEN CaptionLimit ELSE TextLimit) + 1
      /\ payload.entities = ResponseEntities(payload.text, name)
  BY <1>3, <1>5, PayloadFacts
<1>7. payload.entities = <<>> => name = <<>> \/ Places(payload.text, name) = {}
  <2>1. SUFFICES ASSUME ~(name = <<>> \/ Places(payload.text, name) = {})
                 PROVE  payload.entities # <<>>
    OBVIOUS
  <2> HIDE DEF payload, name
  <2> DEFINE e == [offset |-> Utf16Units(SubSeq(payload.text, 1, Min(Places(payload.text, name)))),
                   length |-> Utf16Units(name)]
  <2>2. payload.entities = <<e>>
    BY <1>6, <2>1, Zenon DEF ResponseEntities
  <2> HIDE DEF e
  <2>3. <<e>> # <<>>
    OBVIOUS
  <2> QED BY <2>2, <2>3
<1>8. LET place == Len(before)
          Names(text, e) == LET span == Utf16Span(text, e.offset, e.length)
                            IN span # NoSpan /\ Cut(text, span) = name
      IN \A n \in DOMAIN payload.entities :
           /\ Names(payload.text, payload.entities[n])
           /\ Names(payload.fallback, payload.entities[n])
           /\ \/ payload.entities[n].offset = Units(notice, place)
              \/ \E earlier \in Places(notice, name) : earlier < place
  BY <1>3, <1>4, MentionHolds
<1> QED BY <1>6, <1>7, <1>8, Zenon DEF MentionIsExact

\* The mention in a response is that of its sender: for every notice, both limits
\* and every name without an ellipsis, wherever the text is cut, the entity covers
\* the name in the text and in the longer one that replaces it, and it is left out
\* only when the name is not in the text (Payload, ResponseEntities, utf16Span).
THEOREM MentionsAreExact == ASSUME NoEllipsis PROVE Sampling => []MentionIsExact
BY NoticeIsMentioned, SampleIsInput, PTL

-----------------------------------------------------------------------------
(* Parts put together: FlattenSeq, and \o under a name of its own, which the*)
(* provers do not expand.                                                  *)

\* The parts put together one after the other.
Joins(g, seqs) == g[0] = <<>> /\ \A n \in 1..Len(seqs) : g[n] = g[n - 1] \o seqs[n]

\* The first n parts.
Joined(seqs, n) == FlattenSeq(SubSeq(seqs, 1, n))

\* FlattenSeq puts the parts together.
LEMMA FlattenHolds ==
  ASSUME NEW S, NEW seqs \in Seq(Seq(S))
  PROVE  \E g \in [0..Len(seqs) -> Seq(S)] : Joins(g, seqs) /\ FlattenSeq(seqs) = g[Len(seqs)]
<1> DEFINE L == Len(seqs)
           F == [p \in (1..L) \X Seq(S) |-> p[2] \o seqs[p[1]]]
           Loop(f) == f = [i \in 1..L |-> IF i = 1 THEN seqs[i] ELSE f[i - 1] \o seqs[i]]
           flatten == CHOOSE f : Loop(f)
<1>1. L \in Nat /\ <<>> \in Seq(S) /\ \A i \in 1..L : seqs[i] \in Seq(S)
  BY LenProperties, EmptySeq, ElementOfSeq
<1>2. F \in [(1..L) \X Seq(S) -> Seq(S)]
  BY <1>1, ConcatProperties
<1>3. PICK g \in [0..L -> Seq(S)] : States(g, L, <<>>, F)
  <2> HIDE DEF F, L
  <2> QED BY <1>1, <1>2, Recursion
<1>4. g[0] = <<>> /\ \A n \in 1..L : g[n - 1] \in Seq(S) /\ g[n] = g[n - 1] \o seqs[n]
  <2>1. \A n \in 1..L : n - 1 \in 0..L
    BY <1>1
  <2>2. \A n \in 1..L : g[n - 1] \in Seq(S)
    <3> HIDE DEF L
    <3> QED BY <1>3, <2>1
  <2>3. \A n \in 1..L : F[<<n, g[n - 1]>>] = g[n - 1] \o seqs[n]
    BY <2>2
  <2> HIDE DEF F, L
  <2> QED BY <1>3, <2>2, <2>3 DEF States
<1>5. Joins(g, seqs)
  BY <1>4 DEF Joins
<1>a. ASSUME L # 0 PROVE g[1] = seqs[1]
  <2>1. 1 \in 1..L /\ 1 - 1 = 0
    BY <1>1, <1>a
  <2>2. g[1] = <<>> \o seqs[1] /\ seqs[1] \in Seq(S)
    <3> HIDE DEF L
    <3> QED BY <1>1, <1>4, <2>1
  <2> QED BY <2>2, ConcatEmptySeq
<1>6. CASE L = 0
  <2>1. seqs = <<>>
    BY <1>6, EmptySeq
  <2>2. FlattenSeq(seqs) = seqs
    BY <1>6 DEF FlattenSeq
  <2> QED BY <1>3, <1>4, <1>5, <1>6, <2>1, <2>2
<1>7. CASE L # 0
  <2> DEFINE h == [i \in 1..L |-> g[i]]
  <2>1. Loop(h)
    <3>1. \A i \in 1..L : h[i] = IF i = 1 THEN seqs[i] ELSE h[i - 1] \o seqs[i]
      <4>1. TAKE i \in 1..L
      <4>2. CASE i = 1
        BY <1>7, <1>a, <4>2
      <4>3. CASE i # 1
        <5>1. i - 1 \in 1..L
          BY <1>1, <4>3
        <5>2. h[i - 1] = g[i - 1] /\ h[i] = g[i]
          BY <5>1
        <5> HIDE DEF h
        <5> QED BY <1>4, <4>3, <5>2
      <4> QED BY <4>2, <4>3
    <3> QED BY <3>1
  <2>2. Loop(flatten)
    BY <2>1
  <2>3. FlattenSeq(seqs) = flatten[L]
    BY <1>7 DEF FlattenSeq
  <2>4. \A i \in 1..L : flatten[i] = IF i = 1 THEN seqs[i] ELSE flatten[i - 1] \o seqs[i]
    BY <2>2
  <2> HIDE DEF flatten
  <2> DEFINE T == {n \in 0..L : n # 0 => flatten[n] = g[n]}
  <2>5. 0 \in T
    BY <1>1
  <2>6. \A n \in 1..L : n - 1 \in T => n \in T
    <3>1. SUFFICES ASSUME NEW n \in 1..L, n - 1 \in T PROVE flatten[n] = g[n]
      BY <1>1
    <3>2. CASE n = 1
      BY <1>7, <1>a, <2>4, <3>2
    <3>3. CASE n # 1
      <4>1. n - 1 # 0
        BY <3>3
      <4>2. flatten[n - 1] = g[n - 1]
        BY <3>1, <4>1
      <4>3. flatten[n] = flatten[n - 1] \o seqs[n]
        BY <2>4, <3>3
      <4> QED BY <1>4, <4>2, <4>3
    <3> QED BY <3>2, <3>3
  <2>7. L \in T
    <3> HIDE DEF T, L
    <3>1. L \in Nat /\ L \in 0..L
      BY <1>1
    <3>2. 0..L \subseteq T
      BY <1>1, <2>5, <2>6, Ascent
    <3> QED BY <3>1, <3>2
  <2> QED BY <1>3, <1>5, <1>7, <2>3, <2>7
<1> QED BY <1>6, <1>7

\* The first parts put together depend on no others.
LEMMA JoinsAgree ==
  ASSUME NEW g, NEW a, NEW h, NEW b, Joins(g, a), Joins(h, b),
         NEW m \in Nat, Len(a) \in Nat, Len(b) \in Nat, m <= Len(a), m <= Len(b),
         \A i \in 1..m : a[i] = b[i]
  PROVE  g[m] = h[m]
<1> DEFINE T == {n \in 0..m : g[n] = h[n]}
<1>1. 0 \in T
  BY DEF Joins
<1>2. \A n \in 1..m : n - 1 \in T => n \in T
  <2>1. SUFFICES ASSUME NEW n \in 1..m, n - 1 \in T PROVE g[n] = h[n]
    OBVIOUS
  <2>2. n \in 1..Len(a) /\ n \in 1..Len(b)
    OBVIOUS
  <2>3. g[n] = g[n - 1] \o a[n] /\ h[n] = h[n - 1] \o b[n]
    BY <2>2 DEF Joins
  <2> QED BY <2>1, <2>3
<1>3. 0..m \subseteq T
  <2> HIDE DEF T
  <2> QED BY <1>1, <1>2, Ascent
<1> QED BY <1>3

\* Parts are joined one by one.
LEMMA JoinedFacts ==
  ASSUME NEW S, NEW seqs \in Seq(Seq(S))
  PROVE  /\ \A n \in 0..Len(seqs) : Joined(seqs, n) \in Seq(S)
         /\ Joined(seqs, 0) = <<>>
         /\ \A n \in 1..Len(seqs) : Joined(seqs, n) = Joined(seqs, n - 1) \o seqs[n]
         /\ Joined(seqs, Len(seqs)) = FlattenSeq(seqs)
<1> DEFINE L == Len(seqs)
<1>1. L \in Nat
  BY LenProperties
<1>2. PICK g \in [0..L -> Seq(S)] : Joins(g, seqs) /\ FlattenSeq(seqs) = g[L]
  BY FlattenHolds
<1>3. \A n \in 0..L : Joined(seqs, n) = g[n]
  <2>1. TAKE n \in 0..L
  <2> DEFINE part == SubSeq(seqs, 1, n)
  <2>2. part \in Seq(Seq(S)) /\ Len(part) = n /\ \A i \in 1..n : part[i] = seqs[i]
    <3>1. \A i \in 1..n : seqs[i] \in Seq(S)
      <4>1. \A i \in 1..n : i \in 1..Len(seqs)
        BY <1>1
      <4> QED BY <4>1, ElementOfSeq
    <3>2. n \in Int /\ 1 \in Int /\ n - 1 + 1 = n /\ (1 <= n \/ n = 0)
      BY <1>1
    <3>3. /\ part \in Seq(Seq(S)) /\ Len(part) = IF 1 <= n THEN n - 1 + 1 ELSE 0
          /\ \A i \in 1..n - 1 + 1 : part[i] = seqs[1 + i - 1]
      BY <3>1, <3>2, SubSeqProperties
    <3>4. \A i \in 1..n : 1 + i - 1 = i
      OBVIOUS
    <3> HIDE DEF part
    <3> QED BY <3>2, <3>3, <3>4
  <2> HIDE DEF part
  <2>3. PICK h \in [0..Len(part) -> Seq(S)] : Joins(h, part) /\ FlattenSeq(part) = h[Len(part)]
    BY <2>2, FlattenHolds
  <2>4. n \in Nat /\ n <= Len(seqs) /\ n <= Len(part) /\ Len(part) \in Nat
    BY <1>1, <2>2
  <2>5. h[n] = g[n]
    <3>1. Joins(h, part) /\ Joins(g, seqs) /\ Len(seqs) \in Nat /\ \A i \in 1..n : part[i] = seqs[i]
      BY <1>1, <1>2, <2>2, <2>3
    <3> QED BY <2>4, <3>1, JoinsAgree
  <2> QED BY <2>2, <2>3, <2>5 DEF Joined, part
<1>4. \A n \in 1..L : n \in 0..L /\ n - 1 \in 0..L
  BY <1>1
<1>5. 0 \in 0..L /\ L \in 0..L
  BY <1>1
<1>6. g[0] = <<>> /\ \A n \in 1..L : g[n] = g[n - 1] \o seqs[n]
  BY <1>2 DEF Joins
<1> HIDE DEF L
<1>7. Joined(seqs, 0) = <<>> /\ Joined(seqs, L) = FlattenSeq(seqs)
  BY <1>2, <1>3, <1>5, <1>6
<1>8. \A n \in 1..L : Joined(seqs, n) = Joined(seqs, n - 1) \o seqs[n]
  BY <1>3, <1>4, <1>6
<1>9. \A n \in 0..L : Joined(seqs, n) \in Seq(S)
  BY <1>2, <1>3
<1> QED BY <1>7, <1>8, <1>9 DEF L

\* \o under a name that the provers do not look into.
Cat(x, y) == x \o y

\* Texts put together are a text.
LEMMA CatType == \A S : \A x, y \in Seq(S) : Cat(x, y) \in Seq(S)
BY ConcatProperties DEF Cat

\* In whatever order they are put together.
LEMMA CatAssociative ==
  \A S : \A x, y, z \in Seq(S) : Cat(Cat(x, y), z) = Cat(x, Cat(y, z))
BY ConcatAssociative DEF Cat

\* Nothing adds nothing.
LEMMA CatEmpty == \A S : \A x \in Seq(S) : Cat(x, <<>>) = x /\ Cat(<<>>, x) = x
BY ConcatEmptySeq DEF Cat

\* A case of a function on an interval.
LEMMA SecondCase ==
  ASSUME NEW f, NEW m \in Nat, NEW n \in Nat, NEW i \in 1..n, NEW a, NEW c,
         \A k \in 1..m + n : f[k] = IF k <= m THEN a[k] ELSE c[k - m]
  PROVE  f[m + i] = c[i]
<1>1. m + i \in 1..m + n /\ ~(m + i <= m) /\ m + i - m = i
  OBVIOUS
<1>2. f[m + i] = c[m + i - m]
  BY <1>1
<1> QED BY <1>1, <1>2

\* One more character of the text.
LEMMA Extend ==
  ASSUME NEW S, NEW text \in Seq(S), NEW a \in 1..Len(text), NEW p \in a..Len(text),
         NEW x \in Seq(S)
  PROVE  Cat(Cat(x, SubSeq(text, a, p - 1)), <<text[p]>>) = Cat(x, SubSeq(text, a, p))
<1> DEFINE y == SubSeq(text, a, p - 1)
           z == <<text[p]>>
<1>1. Len(text) \in Nat
  BY LenProperties
<1>2. SubSeq(text, a, p) = y \o z
  BY SubSeqRecursiveSecond
<1>3. z \in Seq(S)
  <2>1. text[p] \in S
    BY <1>1, ElementOfSeq
  <2> QED BY <2>1
<1>4. y \in Seq(S)
  <2>1. \A i \in a..p - 1 : text[i] \in S
    <3>1. \A i \in a..p - 1 : i \in 1..Len(text)
      BY <1>1
    <3> QED BY <3>1, ElementOfSeq
  <2> QED BY <1>1, <2>1, SubSeqProperties
<1> HIDE DEF y, z
<1>5. Cat(Cat(x, y), z) = Cat(x, Cat(y, z))
  BY <1>3, <1>4, CatAssociative
<1> QED BY <1>2, <1>5 DEF y, z, Cat

\* What was put together is taken apart again.
LEMMA FrontAndBack ==
  ASSUME NEW S, NEW a \in Seq(S), NEW c \in Seq(S)
  PROVE  /\ SubSeq(a \o c, 1, Len(a)) = a
         /\ SubSeq(a \o c, Len(a) + 1, Len(a \o c)) = c
<1> DEFINE m == Len(a)
           n == Len(c)
           s == a \o c
<1>1. m \in Nat /\ n \in Nat
  BY LenProperties
<1>2. /\ s \in Seq(S) /\ Len(s) = m + n
      /\ \A i \in 1..m + n : s[i] = IF i <= m THEN a[i] ELSE c[i - m]
  BY ConcatProperties
<1> HIDE DEF s
<1>3. \A i \in 1..m + n : s[i] \in S
  <2>1. \A i \in 1..Len(s) : s[i] \in S
    BY <1>2, ElementOfSeq
  <2> QED BY <1>2, <2>1
<1>4. SubSeq(s, 1, m) = a
  <2>1. \A i \in 1..m : s[i] \in S
    <3>1. \A i \in 1..m : i \in 1..m + n
      BY <1>1
    <3> QED BY <1>3, <3>1
  <2>2. m \in Int /\ 1 \in Int /\ m - 1 + 1 = m /\ (1 <= m \/ m = 0)
    BY <1>1
  <2>3. /\ SubSeq(s, 1, m) \in Seq(S) /\ Len(SubSeq(s, 1, m)) = IF 1 <= m THEN m - 1 + 1 ELSE 0
        /\ \A i \in 1..m - 1 + 1 : SubSeq(s, 1, m)[i] = s[1 + i - 1]
    BY <2>1, <2>2, SubSeqProperties
  <2> HIDE DEF m, n
  <2>4. Len(SubSeq(s, 1, m)) = m
    BY <2>2, <2>3
  <2>5. \A i \in 1..m : SubSeq(s, 1, m)[i] = a[i]
    <3>1. TAKE i \in 1..m
    <3>2. i \in 1..m - 1 + 1 /\ 1 + i - 1 = i /\ i \in 1..m + n /\ i <= m
      BY <1>1
    <3> QED BY <1>2, <2>3, <3>2
  <2> QED BY <2>3, <2>4, <2>5, SeqEqual DEF m
<1>5. SubSeq(s, m + 1, m + n) = c
  <2>1. \A i \in m + 1..m + n : s[i] \in S
    <3>1. \A i \in m + 1..m + n : i \in 1..m + n
      BY <1>1
    <3> QED BY <1>3, <3>1
  <2>2. m + 1 \in Int /\ m + n \in Int /\ m + n - (m + 1) + 1 = n /\ (m + 1 <= m + n \/ n = 0)
    BY <1>1
  <2> DEFINE b == SubSeq(s, m + 1, m + n)
  <2>3. /\ b \in Seq(S) /\ Len(b) = IF m + 1 <= m + n THEN m + n - (m + 1) + 1 ELSE 0
        /\ \A i \in 1..m + n - (m + 1) + 1 : b[i] = s[m + 1 + i - 1]
    BY <2>1, <2>2, SubSeqProperties
  <2> HIDE DEF m, n, b
  <2>4. Len(b) = n
    <3>1. n = 0 => ~(m + 1 <= m + n)
      BY <1>1
    <3> QED BY <2>2, <2>3, <3>1
  <2>5. \A i \in 1..n : b[i] = c[i]
    <3>1. TAKE i \in 1..n
    <3>2. /\ i \in 1..m + n - (m + 1) + 1 /\ m + 1 + i - 1 = m + i /\ m + i \in 1..m + n
          /\ ~(m + i <= m) /\ m + i - m = i
      BY <1>1
    <3>3. b[i] = s[m + i]
      BY <2>3, <3>2
    <3>4. s[m + i] = c[i]
      BY <1>1, <1>2, SecondCase
    <3> QED BY <3>3, <3>4
  <2> QED BY <2>3, <2>4, <2>5, SeqEqual DEF n, b
<1> QED BY <1>2, <1>4, <1>5 DEF s

\* Parts of which each is one character of the text are that part of the text,
\* and parts that are empty add nothing.
LEMMA JoinedPlain ==
  ASSUME NEW S, NEW text \in Seq(S), NEW cells \in Seq(Seq(S)), Len(cells) = Len(text),
         NEW a \in 0..Len(text), NEW b \in a..Len(text),
         \A p \in a + 1..b : cells[p] = <<text[p]>>
  PROVE  Joined(cells, b) = Cat(Joined(cells, a), SubSeq(text, a + 1, b))
<1> DEFINE L == Len(text)
           J(n) == Joined(cells, n)
           m == b - a
<1>1. L \in Nat /\ m \in Nat /\ a \in Int /\ b \in Int
  BY LenProperties
<1>2. /\ \A n \in 0..L : J(n) \in Seq(S)
      /\ \A n \in 1..L : J(n) = J(n - 1) \o cells[n]
  BY JoinedFacts
<1> HIDE DEF J
<1> DEFINE T == {n \in 0..m : J(a + n) = Cat(J(a), SubSeq(text, a + 1, a + n))}
<1>3. 0 \in T
  <2>1. a + 0 = a /\ a < a + 1 /\ a \in 0..L /\ 0 \in 0..m
    BY <1>1
  <2>2. SubSeq(text, a + 1, a) = <<>>
    BY <1>1, <2>1, SubSeqEmpty
  <2>3. Cat(J(a), <<>>) = J(a)
    BY <1>2, <2>1, CatEmpty
  <2> QED BY <2>1, <2>2, <2>3
<1>4. \A n \in 1..m : n - 1 \in T => n \in T
  <2>1. SUFFICES ASSUME NEW n \in 1..m, n - 1 \in T PROVE n \in T
    OBVIOUS
  <2> DEFINE p == a + n
  <2>2. /\ p \in a + 1..b /\ p \in 1..L /\ p - 1 = a + (n - 1) /\ a + 1 \in 1..L
        /\ p \in a + 1..L /\ a \in 0..L /\ n \in 0..m
    BY <1>1
  <2>3. J(p - 1) = Cat(J(a), SubSeq(text, a + 1, p - 1))
    BY <2>1, <2>2
  <2> HIDE DEF p, T
  <2>4. J(p) = J(p - 1) \o <<text[p]>>
    BY <1>2, <2>2
  <2>5. J(a) \in Seq(S)
    BY <1>2, <2>2
  <2>6. Cat(Cat(J(a), SubSeq(text, a + 1, p - 1)), <<text[p]>>)
          = Cat(J(a), SubSeq(text, a + 1, p))
    BY <2>2, <2>5, Extend
  <2>7. J(p) = Cat(J(a), SubSeq(text, a + 1, p))
    BY <2>3, <2>4, <2>6 DEF Cat
  <2> QED BY <2>2, <2>7 DEF p, T
<1>5. m \in T
  <2> HIDE DEF T, m
  <2>1. m \in 0..m
    BY <1>1
  <2> QED BY <1>1, <1>3, <1>4, <2>1, Ascent
<1>6. a + m = b
  BY <1>1
<1> QED BY <1>5, <1>6 DEF J

\* Empty parts add nothing.
LEMMA JoinedEmpty ==
  ASSUME NEW S, NEW cells \in Seq(Seq(S)), NEW a \in 0..Len(cells),
         NEW b \in a..Len(cells), \A p \in a + 1..b : cells[p] = <<>>
  PROVE  Joined(cells, b) = Joined(cells, a)
<1> DEFINE L == Len(cells)
           J(n) == Joined(cells, n)
           m == b - a
<1>1. L \in Nat /\ m \in Nat /\ a \in Int /\ b \in Int
  BY LenProperties
<1>2. /\ \A n \in 0..L : J(n) \in Seq(S)
      /\ \A n \in 1..L : J(n) = J(n - 1) \o cells[n]
  BY JoinedFacts
<1> HIDE DEF J
<1> DEFINE T == {n \in 0..m : J(a + n) = J(a)}
<1>3. 0 \in T
  BY <1>1
<1>4. \A n \in 1..m : n - 1 \in T => n \in T
  <2>1. SUFFICES ASSUME NEW n \in 1..m, n - 1 \in T PROVE n \in T
    OBVIOUS
  <2> DEFINE p == a + n
  <2>2. p \in a + 1..b /\ p \in 1..L /\ p - 1 = a + (n - 1) /\ p - 1 \in 0..L /\ n \in 0..m
    BY <1>1
  <2>3. J(p - 1) = J(a)
    BY <2>1, <2>2
  <2> HIDE DEF p, T
  <2>4. J(p) = J(p - 1) \o <<>> /\ J(p - 1) \in Seq(S)
    BY <1>2, <2>2
  <2>5. J(p) = J(p - 1)
    BY <2>4, ConcatEmptySeq
  <2> QED BY <2>2, <2>3, <2>5 DEF p, T
<1>5. m \in T
  <2> HIDE DEF T, m
  <2>1. m \in 0..m
    BY <1>1
  <2> QED BY <1>1, <1>3, <1>4, <2>1, Ascent
<1>6. a + m = b
  BY <1>1
<1> QED BY <1>5, <1>6 DEF J

-----------------------------------------------------------------------------
(* Sorted edits.                                                           *)

\* The order that a sort gives to the places 1 to n: p[k] is the place of the
\* element that comes to place k.
Order(n, p) ==
  /\ p \in [1..n -> 1..n]
  /\ \A i, j \in 1..n : p[i] = p[j] => i = j
  /\ \A i \in 1..n : \E k \in 1..n : p[k] = i

\* Precedes is a strict total order, whatever spans begin at the same place.
LEMMA PrecedesOrder ==
  ASSUME NEW edits, NEW n \in Nat, \A i \in 1..n : edits[i].span[1] \in Int
  PROVE  /\ \A i \in 1..n : ~Precedes(edits, i, i)
         /\ \A i, j \in 1..n : i # j => Precedes(edits, i, j) \/ Precedes(edits, j, i)
         /\ \A i, j, k \in 1..n :
              Precedes(edits, i, j) /\ Precedes(edits, j, k) => Precedes(edits, i, k)
         /\ \A i, j \in 1..n :
              Precedes(edits, i, j) => edits[i].span[1] >= edits[j].span[1]
<1> DEFINE b(i) == edits[i].span[1]
<1>1. \A i \in 1..n : b(i) \in Int /\ i \in Int
  OBVIOUS
<1>2. \A i, j \in 1..n : Precedes(edits, i, j) <=> b(i) > b(j) \/ (i < j /\ ~(b(j) > b(i)))
  BY DEF Precedes, EditOrder
<1> HIDE DEF b
<1>3. \A i, j \in 1..n : Precedes(edits, i, j) => b(i) >= b(j)
  BY <1>1, <1>2
<1>4. \A i, j, k \in 1..n : Precedes(edits, i, j) /\ Precedes(edits, j, k) => Precedes(edits, i, k)
  <2>1. TAKE i, j, k \in 1..n
  <2>2. /\ b(i) \in Int /\ b(j) \in Int /\ b(k) \in Int
        /\ i \in Int /\ j \in Int /\ k \in Int
    BY <1>1
  <2>3. /\ Precedes(edits, i, j) <=> b(i) > b(j) \/ (i < j /\ ~(b(j) > b(i)))
        /\ Precedes(edits, j, k) <=> b(j) > b(k) \/ (j < k /\ ~(b(k) > b(j)))
        /\ Precedes(edits, i, k) <=> b(i) > b(k) \/ (i < k /\ ~(b(k) > b(i)))
    BY <1>2
  <2> QED BY <2>2, <2>3
<1>5. \A i \in 1..n : ~Precedes(edits, i, i)
  BY <1>1, <1>2
<1>6. \A i, j \in 1..n : i # j => Precedes(edits, i, j) \/ Precedes(edits, j, i)
  BY <1>1, <1>2
<1> QED BY <1>3, <1>4, <1>5, <1>6 DEF b

\* The rank of an edit is a place, and what precedes has the lower one.
LEMMA RankFacts ==
  ASSUME NEW edits, NEW n \in Nat, DOMAIN edits = 1..n,
         \A i \in 1..n : edits[i].span[1] \in Int
  PROVE  /\ \A i \in 1..n : Rank(edits, i) \in 1..n
         /\ \A i, j \in 1..n : Precedes(edits, i, j) => Rank(edits, i) < Rank(edits, j)
<1> DEFINE B(i) == {j \in 1..n : Precedes(edits, j, i)}
<1>1. \A i \in 1..n : Rank(edits, i) = Cardinality(B(i)) + 1
  BY DEF Rank
<1>2. IsFiniteSet(1..n) /\ Cardinality(1..n) = n
  BY FS_Interval
<1>3. \A i \in 1..n : IsFiniteSet(B(i)) /\ Cardinality(B(i)) \in Nat
  <2>1. TAKE i \in 1..n
  <2>2. B(i) \in SUBSET (1..n)
    OBVIOUS
  <2> HIDE DEF B
  <2>3. IsFiniteSet(B(i))
    BY <1>2, <2>2, FS_Subset
  <2> QED BY <2>3, FS_CardinalityType
<1>4. ASSUME NEW i \in 1..n PROVE Cardinality(B(i)) < n
  <2>1. B(i) \cup {i} \in SUBSET (1..n) /\ i \notin B(i)
    BY PrecedesOrder
  <2> HIDE DEF B
  <2>2. Cardinality(B(i) \cup {i}) = Cardinality(B(i)) + 1
    BY <1>3, <2>1, FS_AddElement
  <2>3. Cardinality(B(i) \cup {i}) <= n
    BY <1>2, <2>1, FS_Subset
  <2> QED BY <1>3, <2>2, <2>3
<1>5. ASSUME NEW i \in 1..n, NEW j \in 1..n, Precedes(edits, i, j)
      PROVE  Cardinality(B(i)) < Cardinality(B(j))
  <2>1. i \notin B(i) /\ i \in B(j)
    BY <1>5, PrecedesOrder
  <2>2. \A k \in B(i) : k \in B(j)
    <3>1. TAKE k \in B(i)
    <3>2. k \in 1..n /\ Precedes(edits, k, i)
      OBVIOUS
    <3> QED BY <1>5, <3>2, PrecedesOrder
  <2>3. B(i) \cup {i} \in SUBSET B(j)
    BY <2>1, <2>2
  <2> HIDE DEF B
  <2>4. Cardinality(B(i) \cup {i}) = Cardinality(B(i)) + 1
    BY <1>3, <2>1, FS_AddElement
  <2>5. Cardinality(B(i) \cup {i}) <= Cardinality(B(j))
    BY <1>3, <2>3, FS_Subset
  <2> QED BY <1>3, <2>4, <2>5
<1> DEFINE C(i) == Cardinality(B(i))
<1>6. ASSUME NEW i \in 1..n
      PROVE  Rank(edits, i) = C(i) + 1 /\ C(i) \in Nat /\ C(i) < n
  <2> HIDE DEF B
  <2> QED BY <1>1, <1>3, <1>4
<1> HIDE DEF C
<1>7. \A i \in 1..n : Rank(edits, i) \in 1..n
  <2>1. TAKE i \in 1..n
  <2> HIDE DEF B
  <2>2. Rank(edits, i) = C(i) + 1 /\ C(i) \in Nat /\ C(i) < n
    BY <1>6
  <2>3. C(i) + 1 \in 1..n
    BY <2>2
  <2> QED BY <2>2, <2>3
<1>8. ASSUME NEW i \in 1..n, NEW j \in 1..n, Precedes(edits, i, j)
      PROVE  Rank(edits, i) < Rank(edits, j)
  <2>1. C(i) < C(j)
    BY <1>5, <1>8 DEF C
  <2> QED BY <1>6, <2>1
<1> QED BY <1>7, <1>8

\* sort.Slice returns the edits in another order, the last spans first.
LEMMA SortHolds ==
  ASSUME NEW edits, NEW n \in Nat, DOMAIN edits = 1..n,
         \A i \in 1..n : edits[i].span[1] \in Int
  PROVE  \E p : /\ Order(n, p)
                /\ Sorted(edits) = [k \in 1..n |-> edits[p[k]]]
                /\ \A i, j \in 1..n : i < j => edits[p[i]].span[1] >= edits[p[j]].span[1]
<1> DEFINE rank == [i \in 1..n |-> Rank(edits, i)]
           p == [k \in 1..n |-> CHOOSE i \in 1..n : Rank(edits, i) = k]
<1>1. /\ \A i \in 1..n : Rank(edits, i) \in 1..n
      /\ \A i, j \in 1..n : Precedes(edits, i, j) => Rank(edits, i) < Rank(edits, j)
  BY RankFacts
<1>2. \A i, j \in 1..n : Rank(edits, i) = Rank(edits, j) => i = j
  <2>1. TAKE i, j \in 1..n
  <2>2. i # j => Rank(edits, i) < Rank(edits, j) \/ Rank(edits, j) < Rank(edits, i)
    BY <1>1, PrecedesOrder
  <2>3. Rank(edits, i) \in 1..n /\ Rank(edits, j) \in 1..n
    BY <1>1
  <2> QED BY <2>2, <2>3
<1>3. \A k \in 1..n : \E i \in 1..n : Rank(edits, i) = k
  <2>1. rank \in Injection(1..n, 1..n)
    BY <1>1, <1>2 DEF Injection, IsInjective
  <2> HIDE DEF rank
  <2>2. rank \in Surjection(1..n, 1..n)
    BY <2>1, FS_Interval, FS_Injection
  <2>3. \A k \in 1..n : \E i \in 1..n : rank[i] = k
    BY <2>2 DEF Surjection
  <2> QED BY <2>3 DEF rank
<1>4. \A k \in 1..n : p[k] \in 1..n /\ Rank(edits, p[k]) = k
  BY <1>3
<1>5. Sorted(edits) = [k \in 1..n |-> edits[p[k]]]
  BY DEF Sorted
<1>p. p \in [1..n -> 1..n]
  BY <1>4
<1> HIDE DEF p
<1>6. Order(n, p)
  <2>1. \A i, j \in 1..n : p[i] = p[j] => i = j
    BY <1>4
  <2>2. \A i \in 1..n : p[Rank(edits, i)] = i
    BY <1>1, <1>2, <1>4
  <2> QED BY <1>1, <1>p, <2>1, <2>2 DEF Order
<1>7. ASSUME NEW i \in 1..n, NEW j \in 1..n, i < j
      PROVE  edits[p[i]].span[1] >= edits[p[j]].span[1]
  <2>1. p[i] \in 1..n /\ p[j] \in 1..n /\ Rank(edits, p[i]) = i /\ Rank(edits, p[j]) = j
    BY <1>4
  <2>2. ~Precedes(edits, p[j], p[i])
    <3>1. Precedes(edits, p[j], p[i]) => j < i
      BY <1>1, <2>1
    <3> QED BY <1>7, <3>1
  <2>3. p[i] # p[j]
    BY <1>7, <2>1
  <2> QED BY <2>1, <2>2, <2>3, PrecedesOrder
<1> QED BY <1>5, <1>6, <1>7

-----------------------------------------------------------------------------
(* Replacements: one span after the other, from the last to the first.     *)

\* A part of a text.
LEMMA PartFacts ==
  ASSUME NEW S, NEW text \in Seq(S), NEW a \in Int, NEW b \in Int, a >= 1, b <= Len(text)
  PROVE  /\ SubSeq(text, a, b) \in Seq(S)
         /\ b >= a - 1 => Len(SubSeq(text, a, b)) = b - a + 1
         /\ \A i \in 1..b - a + 1 : SubSeq(text, a, b)[i] = text[a + i - 1]
<1>1. Len(text) \in Nat
  BY LenProperties
<1>2. \A i \in a..b : text[i] \in S
  <2>1. \A i \in a..b : i \in 1..Len(text)
    BY <1>1
  <2> QED BY <2>1, ElementOfSeq
<1>3. /\ SubSeq(text, a, b) \in Seq(S)
      /\ Len(SubSeq(text, a, b)) = IF a <= b THEN b - a + 1 ELSE 0
      /\ \A i \in 1..b - a + 1 : SubSeq(text, a, b)[i] = text[a + i - 1]
  BY <1>2, SubSeqProperties
<1> QED BY <1>3

\* A part of a text and the part that comes after it.
LEMMA PartsMeet ==
  ASSUME NEW S, NEW text \in Seq(S), NEW a \in 1..Len(text) + 1,
         NEW k \in a - 1..Len(text), NEW b \in k..Len(text)
  PROVE  Cat(SubSeq(text, a, k), SubSeq(text, k + 1, b)) = SubSeq(text, a, b)
BY ConcatAdjacentSubSeq DEF Cat

\* What was put together is taken apart again.
LEMMA CatParts ==
  \A S : \A a, c \in Seq(S) : /\ SubSeq(Cat(a, c), 1, Len(a)) = a
                             /\ SubSeq(Cat(a, c), Len(a) + 1, Len(Cat(a, c))) = c
BY FrontAndBack DEF Cat

\* The places around a span of a text of L characters, and before q.
LEMMA SpanPlaces ==
  ASSUME NEW L \in Nat, NEW f \in 1..L, NEW l \in f..L, NEW q \in l + 1..L + 1
  PROVE  /\ f \in Int /\ l \in Int /\ q \in Int /\ 1 \in Int /\ f >= 1 /\ l <= L /\ l >= 1 - 1
         /\ f - 1 \in Int /\ f - 1 <= L /\ f - 1 >= 1 - 1 /\ f - 1 - 1 + 1 = f - 1
         /\ l - 1 + 1 = l /\ f - 1 + 1 = f /\ l + 1 >= 1 /\ l + 1 \in Int
         /\ q - 1 \in Int /\ q - 1 <= L
         /\ 1 \in 1..L + 1 /\ f - 1 \in 1 - 1..L /\ l \in f - 1..L
         /\ l \in 1 - 1..L /\ q - 1 \in l..L /\ 1 >= 1
         /\ l + 1 \in 1..L + 1 /\ q - 1 \in l + 1 - 1..L /\ l + 1 - 1 = l
         /\ f + 1 \in 1..L + 1 /\ l \in f + 1 - 1..L /\ f + 1 - 1 = f
         /\ f - 1 \in 0..L /\ f \in 0..L /\ l \in 0..L /\ q - 1 \in 0..L
OBVIOUS

\* What an edit says.
Says(edit, f, l, v) == edit.span[1] = f /\ edit.span[2] = l /\ edit.value = v

\* One replacement, with everything behind it replaced already: what stands
\* before the span is kept, and so is what stands between it and the last one.
LEMMA SpliceHolds ==
  ASSUME NEW S, NEW text \in Seq(S), NEW v \in Seq(S),
         NEW f \in 1..Len(text), NEW l \in f..Len(text), NEW q \in l + 1..Len(text) + 1,
         NEW t \in Seq(S), NEW edit, Says(edit, f, l, v)
  PROVE  Splice(Cat(SubSeq(text, 1, q - 1), t), edit) =
           Cat(SubSeq(text, 1, f - 1), Cat(v, Cat(SubSeq(text, l + 1, q - 1), t)))
<1> DEFINE A == SubSeq(text, 1, f - 1)
           M == SubSeq(text, f, l)
           B == SubSeq(text, l + 1, q - 1)
           P == SubSeq(text, 1, l)
           u == Cat(SubSeq(text, 1, q - 1), t)
<1>1. Len(text) \in Nat /\ f \in Nat /\ l \in Nat /\ q \in Nat
  BY LenProperties
<1>g. /\ f \in Int /\ l \in Int /\ q \in Int /\ 1 \in Int /\ f >= 1 /\ l <= Len(text) /\ l >= 1 - 1
      /\ f - 1 \in Int /\ f - 1 <= Len(text) /\ f - 1 >= 1 - 1 /\ f - 1 - 1 + 1 = f - 1
      /\ l - 1 + 1 = l /\ f - 1 + 1 = f /\ l + 1 >= 1 /\ l + 1 \in Int
      /\ q - 1 \in Int /\ q - 1 <= Len(text) /\ 1 >= 1
  BY <1>1, SpanPlaces
<1>2. /\ A \in Seq(S) /\ Len(A) = f - 1
      /\ M \in Seq(S) /\ B \in Seq(S)
      /\ P \in Seq(S) /\ Len(P) = l
  <2>1. A \in Seq(S) /\ Len(A) = f - 1
    BY <1>g, PartFacts
  <2>2. P \in Seq(S) /\ Len(P) = l
    BY <1>g, PartFacts
  <2>3. M \in Seq(S)
    BY <1>g, PartFacts
  <2>4. B \in Seq(S)
    BY <1>g, PartFacts
  <2> QED BY <2>1, <2>2, <2>3, <2>4
<1>3. Cat(A, M) = P
  <2>1. /\ 1 \in 1..Len(text) + 1 /\ f - 1 \in 1 - 1..Len(text) /\ l \in f - 1..Len(text)
        /\ f - 1 + 1 = f
    BY <1>1, SpanPlaces
  <2>2. Cat(SubSeq(text, 1, f - 1), SubSeq(text, f - 1 + 1, l)) = SubSeq(text, 1, l)
    BY <2>1, PartsMeet
  <2> QED BY <2>1, <2>2
<1>4. Cat(P, B) = SubSeq(text, 1, q - 1)
  <2>1. 1 \in 1..Len(text) + 1 /\ l \in 1 - 1..Len(text) /\ q - 1 \in l..Len(text)
    BY <1>1, SpanPlaces
  <2> QED BY <2>1, PartsMeet
<1>u. u = Cat(Cat(P, B), t)
  BY <1>4
<1> HIDE DEF A, M, B, P, u
<1>5. u = Cat(P, Cat(B, t)) /\ Cat(B, t) \in Seq(S)
  BY <1>2, <1>u, CatAssociative, CatType
<1>6. u = Cat(A, Cat(M, Cat(B, t))) /\ Cat(M, Cat(B, t)) \in Seq(S)
  BY <1>2, <1>3, <1>5, CatAssociative, CatType
<1>7. SubSeq(u, 1, f - 1) = A
  <2>1. SubSeq(Cat(A, Cat(M, Cat(B, t))), 1, Len(A)) = A
    BY <1>2, <1>6, CatParts, ZenonT(40)
  <2> QED BY <1>2, <1>6, <2>1
<1>8. SubSeq(u, l + 1, Len(u)) = Cat(B, t)
  <2>1. SubSeq(Cat(P, Cat(B, t)), Len(P) + 1, Len(Cat(P, Cat(B, t)))) = Cat(B, t)
    BY <1>2, <1>5, CatParts, ZenonT(40)
  <2> QED BY <1>2, <1>5, <2>1
<1>9. Splice(u, edit) = Cat(Cat(A, v), Cat(B, t))
  BY <1>7, <1>8 DEF Splice, Cat, Says
<1>10. Cat(Cat(A, v), Cat(B, t)) = Cat(A, Cat(v, Cat(B, t)))
  BY <1>2, <1>5, CatAssociative
<1> QED BY <1>9, <1>10 DEF A, B, u

\* N spans that do not overlap, from b[k] to d[k], the last first.
Descending(N, L, b, d) ==
  /\ b \in [1..N -> 1..L] /\ d \in [1..N -> 1..L]
  /\ \A k \in 1..N : b[k] <= d[k]
  /\ \A i, j \in 1..N : i < j => d[j] < b[i]

\* Where the text begins of which the first n spans are replaced.
From(L, b, n) == IF n = 0 THEN L + 1 ELSE b[n]

\* Between a span and the one replaced before there is no other, and before the
\* one replaced last there is none.
LEMMA BetweenSpans ==
  ASSUME NEW N \in Nat, NEW L \in Nat, NEW b, NEW d, Descending(N, L, b, d)
  PROVE  /\ \A n \in 1..N :
              /\ b[n] \in 1..L /\ d[n] \in b[n]..L /\ From(L, b, n - 1) \in d[n] + 1..L + 1
              /\ From(L, b, n) = b[n]
              /\ \A p \in d[n] + 1..From(L, b, n - 1) - 1 :
                   p \in 1..L /\ \A k \in 1..N : p \notin b[k]..d[k]
         /\ From(L, b, N) \in 1..L + 1
         /\ \A p \in 1..From(L, b, N) - 1 :
              p \in 1..L /\ \A k \in 1..N : p \notin b[k]..d[k]
<1>1. \A k \in 1..N : b[k] \in 1..L /\ d[k] \in 1..L /\ b[k] <= d[k]
  BY DEF Descending
<1>2. \A i, j \in 1..N : i < j => d[j] < b[i]
  BY DEF Descending
<1>3. \A n \in 1..N : n - 1 \in 0..N /\ (n - 1 # 0 => n - 1 \in 1..N)
  OBVIOUS
<1>4. \A n \in 0..N : From(L, b, n) = (IF n = 0 THEN L + 1 ELSE b[n])
  BY DEF From
<1>5. \A n \in 0..N : n # 0 => n \in 1..N
  OBVIOUS
<1> DEFINE q(n) == From(L, b, n)
<1>6. \A n \in 0..N : q(n) \in 1..L + 1
  BY <1>1, <1>4, <1>5
<1>7. \A n \in 0..N, k \in 1..N : k <= n => q(n) <= b[k]
  <2>1. SUFFICES ASSUME NEW n \in 0..N, NEW k \in 1..N, k <= n PROVE q(n) <= b[k]
    OBVIOUS
  <2>2. n \in 1..N /\ q(n) = b[n] /\ b[n] \in Int /\ d[n] \in Int /\ b[n] <= d[n] /\ b[k] \in Int
    BY <1>1, <1>4, <2>1
  <2>3. CASE k = n
    BY <2>2, <2>3
  <2>4. CASE k # n
    <3>1. d[n] < b[k]
      BY <1>2, <2>1, <2>2, <2>4
    <3> QED BY <2>2, <3>1
  <2> QED BY <2>3, <2>4
<1>8. \A n \in 1..N : q(n - 1) \in d[n] + 1..L + 1
  <2>1. TAKE n \in 1..N
  <2>2. q(n - 1) \in 1..L + 1 /\ d[n] \in 1..L
    BY <1>1, <1>3, <1>6
  <2>3. d[n] < q(n - 1)
    <3>1. CASE n = 1
      BY <1>4, <2>2, <3>1
    <3>2. CASE n # 1
      <4>1. n - 1 \in 1..N /\ n - 1 < n /\ n - 1 # 0 /\ n - 1 \in 0..N
        BY <3>2
      <4>2. q(n - 1) = b[n - 1]
        BY <1>4, <4>1
      <4> QED BY <1>2, <4>1, <4>2
    <3> QED BY <3>1, <3>2
  <2> QED BY <2>2, <2>3
<1> HIDE DEF q
<1>9. ASSUME NEW n \in 1..N, NEW p \in d[n] + 1..q(n - 1) - 1, NEW k \in 1..N
      PROVE  p \in 1..L /\ p \notin b[k]..d[k]
  <2>1. /\ b[n] \in 1..L /\ d[n] \in 1..L /\ q(n - 1) \in 1..L + 1 /\ b[n] <= d[n]
        /\ b[k] \in 1..L /\ d[k] \in 1..L
    BY <1>1, <1>3, <1>6
  <2>2. k <= n - 1 => q(n - 1) <= b[k]
    BY <1>3, <1>7
  <2>3. n < k => d[k] < b[n]
    BY <1>2
  <2>4. k <= n - 1 \/ k = n \/ n < k
    OBVIOUS
  <2> QED BY <2>1, <2>2, <2>3, <2>4
<1>10. ASSUME NEW p \in 1..q(N) - 1, NEW k \in 1..N
       PROVE  p \notin b[k]..d[k]
  <2>1. N \in 0..N /\ k <= N
    OBVIOUS
  <2>2. q(N) <= b[k] /\ b[k] \in Int /\ d[k] \in Int /\ q(N) \in Int
    BY <1>1, <1>6, <1>7, <2>1
  <2> QED BY <2>2
<1>11. N \in 0..N /\ \A n \in 1..N : d[n] \in b[n]..L /\ From(L, b, n) = b[n]
  BY <1>1, <1>4
<1>12. \A p \in 1..q(N) - 1 : p \in 1..L
  BY <1>6, <1>11
<1>13. ASSUME NEW n \in 1..N
       PROVE  \A p \in d[n] + 1..q(n - 1) - 1 : p \in 1..L /\ \A k \in 1..N : p \notin b[k]..d[k]
  BY <1>9
<1>14. \A p \in 1..q(N) - 1 : p \in 1..L /\ \A k \in 1..N : p \notin b[k]..d[k]
  BY <1>10, <1>12
<1>15. q(N) \in 1..L + 1
  BY <1>6, <1>11
<1>16. \A n \in 1..N :
         /\ b[n] \in 1..L /\ d[n] \in b[n]..L /\ q(n - 1) \in d[n] + 1..L + 1
         /\ q(n) = b[n]
         /\ \A p \in d[n] + 1..q(n - 1) - 1 :
              p \in 1..L /\ \A k \in 1..N : p \notin b[k]..d[k]
  <2>1. TAKE n \in 1..N
  <2>2. b[n] \in 1..L /\ d[n] \in b[n]..L /\ q(n) = b[n]
    BY <1>1, <1>11 DEF q
  <2>3. q(n - 1) \in d[n] + 1..L + 1
    BY <1>8
  <2> QED BY <1>13, <2>2, <2>3
<1> QED BY <1>14, <1>15, <1>16 DEF q

\* A text in cells, what comes in the place of each of its characters, when v[k]
\* comes in the place of the span k.
Celled(text, N, b, d, v, cells) ==
  /\ \A k \in 1..N : cells[b[k]] = v[k] /\ \A p \in b[k] + 1..d[k] : cells[p] = <<>>
  /\ \A p \in 1..Len(text) :
       (\A k \in 1..N : p \notin b[k]..d[k]) => cells[p] = <<text[p]>>

\* A text with N spans to replace, and its cells.
Editing(S, text, cells, N, b, d, v) ==
  /\ text \in Seq(S) /\ cells \in Seq(Seq(S)) /\ Len(cells) = Len(text)
  /\ N \in Nat /\ v \in [1..N -> Seq(S)]
  /\ Descending(N, Len(text), b, d) /\ Celled(text, N, b, d, v, cells)

\* The cells from one span to the one replaced before.
LEMMA CellStep ==
  ASSUME NEW S, NEW text, NEW cells, NEW N, NEW b, NEW d, NEW v,
         Editing(S, text, cells, N, b, d, v), NEW n \in 1..N
  PROVE  Joined(cells, From(Len(text), b, n - 1) - 1) =
           Cat(Cat(Joined(cells, b[n] - 1), v[n]),
               SubSeq(text, d[n] + 1, From(Len(text), b, n - 1) - 1))
<1> DEFINE L == Len(text)
           f == b[n]
           l == d[n]
           q == From(L, b, n - 1)
<1>e. /\ text \in Seq(S) /\ cells \in Seq(Seq(S)) /\ Len(cells) = L
      /\ N \in Nat /\ Descending(N, L, b, d) /\ Celled(text, N, b, d, v, cells)
  BY DEF Editing
<1>1. /\ L \in Nat /\ f \in 1..L /\ l \in f..L /\ q \in l + 1..L + 1
      /\ \A p \in l + 1..q - 1 : p \in 1..L /\ \A k \in 1..N : p \notin b[k]..d[k]
  <2>1. L \in Nat
    BY <1>e, LenProperties
  <2> HIDE DEF L
  <2> QED BY <1>e, <2>1, BetweenSpans
<1>2. /\ \A p \in l + 1..q - 1 : cells[p] = <<text[p]>>
      /\ cells[f] = v[n]
      /\ \A p \in f + 1..l : cells[p] = <<>>
  BY <1>1, <1>e DEF Celled
<1> HIDE DEF f, l, q
<1>3. Joined(cells, q - 1) = Cat(Joined(cells, l), SubSeq(text, l + 1, q - 1))
  <2>1. l \in 0..L /\ q - 1 \in l..L
    BY <1>1, SpanPlaces
  <2> QED BY <1>e, <1>2, <2>1, JoinedPlain
<1>4. Joined(cells, l) = Joined(cells, f)
  <2>1. f \in 0..Len(cells) /\ l \in f..Len(cells)
    BY <1>1, <1>e, SpanPlaces
  <2> QED BY <1>e, <1>2, <2>1, JoinedEmpty
<1>5. Joined(cells, f) = Cat(Joined(cells, f - 1), v[n])
  <2>1. Joined(cells, f) = Joined(cells, f - 1) \o cells[f]
    BY <1>1, <1>e, JoinedFacts
  <2> QED BY <1>2, <2>1 DEF Cat
<1> QED BY <1>3, <1>4, <1>5 DEF f, l, q

\* What has been made of the text when the last n spans are replaced: the text in
\* front of them as it was, and then what the cells hold from there.
SplicedSoFar(S, text, cells, q, u) ==
  \E t \in Seq(S) : /\ u = Cat(SubSeq(text, 1, q - 1), t)
                    /\ FlattenSeq(cells) = Cat(Joined(cells, q - 1), t)

\* One more span is replaced.
LEMMA SpliceStep ==
  ASSUME NEW S, NEW text, NEW cells, NEW N, NEW b, NEW d, NEW v,
         Editing(S, text, cells, N, b, d, v), NEW n \in 1..N,
         NEW edit, Says(edit, b[n], d[n], v[n]), NEW u,
         SplicedSoFar(S, text, cells, From(Len(text), b, n - 1), u)
  PROVE  /\ Splice(u, edit) \in Seq(S)
         /\ SplicedSoFar(S, text, cells, From(Len(text), b, n), Splice(u, edit))
<1> DEFINE L == Len(text)
           f == b[n]
           l == d[n]
           q == From(L, b, n - 1)
           A == SubSeq(text, 1, f - 1)
           B == SubSeq(text, l + 1, q - 1)
           J(k) == Joined(cells, k)
<1>d. /\ text \in Seq(S) /\ cells \in Seq(Seq(S)) /\ N \in Nat /\ v \in [1..N -> Seq(S)]
      /\ Descending(N, L, b, d)
  BY DEF Editing
<1>1. L \in Nat
  BY <1>d, LenProperties
<1>c. J(q - 1) = Cat(Cat(J(f - 1), v[n]), B)
  <2>1. Joined(cells, From(Len(text), b, n - 1) - 1) =
           Cat(Cat(Joined(cells, b[n] - 1), v[n]),
               SubSeq(text, d[n] + 1, From(Len(text), b, n - 1) - 1))
    BY CellStep
  <2> QED BY <2>1
<1>e. Says(edit, f, l, v[n]) /\ v[n] \in Seq(S)
  BY <1>d
<1>u. SplicedSoFar(S, text, cells, q, u)
  OBVIOUS
<1>l. L = Len(text) /\ L = Len(cells)
  BY DEF Editing
<1> HIDE DEF L
<1>2. f \in 1..L /\ l \in f..L /\ q \in l + 1..L + 1 /\ From(L, b, n) = f
  BY <1>1, <1>d, BetweenSpans
<1> HIDE DEF f, l, q
<1>g. /\ 1 \in Int /\ 1 >= 1 /\ f - 1 \in Int /\ f - 1 <= L
      /\ l + 1 \in Int /\ l + 1 >= 1 /\ q - 1 \in Int /\ q - 1 <= L
      /\ f - 1 \in 0..L
  BY <1>1, <1>2, SpanPlaces
<1>3. PICK t \in Seq(S) : /\ u = Cat(SubSeq(text, 1, q - 1), t)
                          /\ FlattenSeq(cells) = Cat(J(q - 1), t)
  BY <1>u DEF SplicedSoFar
<1>4. v[n] \in Seq(S)
  BY <1>e
<1>6. A \in Seq(S) /\ B \in Seq(S)
  <2>1. A \in Seq(S)
    BY <1>d, <1>g, <1>l, PartFacts
  <2>2. B \in Seq(S)
    BY <1>d, <1>g, <1>l, PartFacts
  <2> QED BY <2>1, <2>2
<1>7. J(f - 1) \in Seq(S)
  BY <1>d, <1>g, <1>l, JoinedFacts
<1>8. Splice(u, edit) = Cat(A, Cat(v[n], Cat(B, t)))
  <2>1. /\ f \in 1..Len(text) /\ l \in f..Len(text) /\ q \in l + 1..Len(text) + 1
        /\ text \in Seq(S) /\ v[n] \in Seq(S) /\ Says(edit, f, l, v[n])
    BY <1>2, <1>d, <1>e, <1>l
  <2>2. Splice(Cat(SubSeq(text, 1, q - 1), t), edit) = Cat(A, Cat(v[n], Cat(B, t)))
    BY <2>1, SpliceHolds
  <2> QED BY <1>3, <2>2
<1> HIDE DEF A, B, J
<1>9. Cat(v[n], Cat(B, t)) \in Seq(S) /\ Cat(A, Cat(v[n], Cat(B, t))) \in Seq(S)
  BY <1>4, <1>6, CatType
<1>10. FlattenSeq(cells) = Cat(J(f - 1), Cat(v[n], Cat(B, t)))
  <2> DEFINE x == J(f - 1)
             y == v[n]
  <2>1. x \in Seq(S) /\ y \in Seq(S) /\ Cat(x, y) \in Seq(S) /\ Cat(B, t) \in Seq(S)
    BY <1>4, <1>6, <1>7, CatType
  <2>2. FlattenSeq(cells) = Cat(Cat(Cat(x, y), B), t)
    BY <1>3, <1>c
  <2> HIDE DEF x, y
  <2>3. Cat(Cat(Cat(x, y), B), t) = Cat(Cat(x, y), Cat(B, t))
    BY <1>6, <2>1, CatAssociative
  <2>4. Cat(Cat(x, y), Cat(B, t)) = Cat(x, Cat(y, Cat(B, t)))
    BY <2>1, CatAssociative
  <2> QED BY <2>2, <2>3, <2>4 DEF x, y
<1>11. SplicedSoFar(S, text, cells, f, Splice(u, edit))
  BY <1>8, <1>9, <1>10 DEF SplicedSoFar, A, J
<1> QED BY <1>2, <1>l, <1>8, <1>9, <1>11

\* The loop over the edits puts every value in the place of its span, and keeps
\* the rest of the text.
LEMMA SpliceAllHolds ==
  ASSUME NEW S, NEW text, NEW cells, NEW N, NEW b, NEW d, NEW v,
         Editing(S, text, cells, N, b, d, v), NEW edits, Len(edits) = N,
         \A n \in 1..N : Says(edits[n], b[n], d[n], v[n])
  PROVE  SpliceAll(text, edits) = FlattenSeq(cells)
<1> DEFINE L == Len(text)
           F == [p \in (1..N) \X Seq(S) |->
                   IF Splice(p[2], edits[p[1]]) \in Seq(S) THEN Splice(p[2], edits[p[1]])
                   ELSE <<>>]
           Loop(f) == f = [n \in 0..N |-> IF n = 0 THEN text ELSE Splice(f[n - 1], edits[n])]
           result == CHOOSE f : Loop(f)
           So(n, u) == SplicedSoFar(S, text, cells, From(L, b, n), u)
<1>e. /\ text \in Seq(S) /\ cells \in Seq(Seq(S)) /\ Len(cells) = L
      /\ N \in Nat /\ v \in [1..N -> Seq(S)]
      /\ Descending(N, L, b, d) /\ Celled(text, N, b, d, v, cells)
  BY DEF Editing
<1>1. L \in Nat /\ <<>> \in Seq(S) /\ N \in Nat /\ text \in Seq(S)
  BY <1>e, LenProperties, EmptySeq
<1>2. F \in [(1..N) \X Seq(S) -> Seq(S)]
  BY <1>1
<1>3. PICK g \in [0..N -> Seq(S)] : States(g, N, text, F)
  <2> HIDE DEF F
  <2> QED BY <1>1, <1>2, Recursion
<1>4. /\ g[0] = text
      /\ \A n \in 1..N : Splice(g[n - 1], edits[n]) \in Seq(S) => g[n] = Splice(g[n - 1], edits[n])
  <2>1. \A n \in 1..N : n - 1 \in 0..N
    BY <1>1
  <2>2. ASSUME NEW n \in 1..N, Splice(g[n - 1], edits[n]) \in Seq(S)
        PROVE  F[<<n, g[n - 1]>>] = Splice(g[n - 1], edits[n])
    <3>1. <<n, g[n - 1]>> \in (1..N) \X Seq(S)
      BY <2>1
    <3> QED BY <2>2, <3>1
  <2> HIDE DEF F
  <2> QED BY <1>3, <2>2 DEF States
<1> HIDE DEF F
<1> DEFINE T == {n \in 0..N : So(n, g[n]) /\ (n # 0 => g[n] = Splice(g[n - 1], edits[n]))}
<1>5. 0 \in T
  <2>1. From(L, b, 0) = L + 1 /\ L + 1 - 1 = L
    BY <1>1 DEF From
  <2>2. text = Cat(SubSeq(text, 1, L), <<>>)
    BY <1>1, SubSeqFull, CatEmpty
  <2>3. Joined(cells, L) = FlattenSeq(cells) /\ Joined(cells, L) \in Seq(S)
    <3>1. L \in 0..Len(cells)
      BY <1>1, <1>e
    <3> QED BY <1>e, <3>1, JoinedFacts
  <2>4. FlattenSeq(cells) = Cat(Joined(cells, L), <<>>)
    BY <2>3, CatEmpty
  <2>5. SplicedSoFar(S, text, cells, L + 1, text)
    <3>1. /\ text = Cat(SubSeq(text, 1, L + 1 - 1), <<>>)
          /\ FlattenSeq(cells) = Cat(Joined(cells, L + 1 - 1), <<>>)
      BY <2>1, <2>2, <2>4
    <3>2. <<>> \in Seq(S)
      BY <1>1
    <3>3. \E t \in Seq(S) : /\ text = Cat(SubSeq(text, 1, L + 1 - 1), t)
                            /\ FlattenSeq(cells) = Cat(Joined(cells, L + 1 - 1), t)
      BY <3>1, <3>2, Zenon
    <3> QED BY <3>3 DEF SplicedSoFar
  <2>6. So(0, text)
    BY <2>1, <2>5
  <2> HIDE DEF So
  <2> QED BY <1>4, <2>6
<1>6. \A n \in 1..N : n - 1 \in T => n \in T
  <2>1. SUFFICES ASSUME NEW n \in 1..N, n - 1 \in T PROVE n \in T
    OBVIOUS
  <2>n. n \in 0..N
    BY <1>1
  <2>2. SplicedSoFar(S, text, cells, From(Len(text), b, n - 1), g[n - 1])
    BY <2>1
  <2>3. Says(edits[n], b[n], d[n], v[n])
    OBVIOUS
  <2>4. /\ Splice(g[n - 1], edits[n]) \in Seq(S)
        /\ SplicedSoFar(S, text, cells, From(Len(text), b, n), Splice(g[n - 1], edits[n]))
    BY <2>2, <2>3, SpliceStep
  <2>5. g[n] = Splice(g[n - 1], edits[n])
    BY <1>4, <2>4
  <2> QED BY <2>4, <2>5, <2>n
<1>7. 0..N \subseteq T
  <2> HIDE DEF T
  <2> QED BY <1>1, <1>5, <1>6, Ascent
<1>8. \A n \in 0..N : So(n, g[n]) /\ (n # 0 => g[n] = Splice(g[n - 1], edits[n]))
  BY <1>7
<1> HIDE DEF T, So
<1>9. Loop(g)
  BY <1>4, <1>8
<1>10. Loop(result)
  BY <1>9
<1>11. \A n \in 0..N : result[n] = IF n = 0 THEN text ELSE Splice(result[n - 1], edits[n])
  BY <1>10
<1>12. SpliceAll(text, edits) = result[N]
  BY DEF SpliceAll
<1> HIDE DEF result
<1>13. result[N] = g[N]
  <2> DEFINE U == {n \in 0..N : result[n] = g[n]}
  <2>1. 0 \in U
    BY <1>4, <1>11
  <2>2. \A n \in 1..N : n - 1 \in U => n \in U
    <3>1. SUFFICES ASSUME NEW n \in 1..N, n - 1 \in U PROVE result[n] = g[n]
      OBVIOUS
    <3>2. result[n] = Splice(result[n - 1], edits[n]) /\ g[n] = Splice(g[n - 1], edits[n])
      BY <1>8, <1>11
    <3> QED BY <3>1, <3>2
  <2>3. N \in 0..N
    BY <1>1
  <2> HIDE DEF U
  <2>4. N \in U
    BY <1>1, <2>1, <2>2, <2>3, Ascent
  <2> QED BY <2>4 DEF U
<1>14. g[N] = FlattenSeq(cells)
  <2> DEFINE q == From(L, b, N)
  <2>1. So(N, g[N])
    BY <1>1, <1>8
  <2>2. PICK t \in Seq(S) : /\ g[N] = Cat(SubSeq(text, 1, q - 1), t)
                            /\ FlattenSeq(cells) = Cat(Joined(cells, q - 1), t)
    BY <2>1 DEF So, SplicedSoFar
  <2>3. q \in 1..L + 1 /\ \A p \in 1..q - 1 : p \in 1..L /\ \A k \in 1..N : p \notin b[k]..d[k]
    BY <1>1, <1>e, BetweenSpans
  <2>4. \A p \in 1..q - 1 : cells[p] = <<text[p]>>
    BY <1>e, <2>3 DEF Celled
  <2> HIDE DEF q
  <2>5. 0 \in 0..L /\ q - 1 \in 0..L /\ 0 + 1 = 1 /\ 1 \in Int /\ 1 >= 1 /\ q - 1 \in Int /\ q - 1 <= L
    BY <1>1, <2>3
  <2>6. Joined(cells, q - 1) = Cat(Joined(cells, 0), SubSeq(text, 1, q - 1))
    <3>1. \A p \in 0 + 1..q - 1 : cells[p] = <<text[p]>>
      BY <2>4, <2>5
    <3>2. Joined(cells, q - 1) = Cat(Joined(cells, 0), SubSeq(text, 0 + 1, q - 1))
      BY <1>e, <2>5, <3>1, JoinedPlain
    <3> QED BY <2>5, <3>2
  <2>7. Joined(cells, 0) = <<>>
    BY <1>e, JoinedFacts
  <2>8. SubSeq(text, 1, q - 1) \in Seq(S)
    BY <1>1, <2>5, PartFacts
  <2>9. Joined(cells, q - 1) = SubSeq(text, 1, q - 1)
    BY <2>6, <2>7, <2>8, CatEmpty
  <2> QED BY <2>2, <2>9
<1> QED BY <1>12, <1>13, <1>14

\* A function on 1..n is a sequence of length n.
LEMMA SeqOfFunction ==
  ASSUME NEW S, NEW n \in Nat, NEW f \in [1..n -> S]
  PROVE  f \in Seq(S) /\ Len(f) = n
<1>1. f \in Seq(S)
  BY SeqDef
<1>2. Len(f) \in Nat /\ DOMAIN f = 1..Len(f) /\ DOMAIN f = 1..n
  BY <1>1, LenProperties
<1> QED BY <1>1, <1>2

\* The elements of a finite set in some order, each of them once.
Enumerates(c, n, C) ==
  /\ c \in [1..n -> C]
  /\ \A i, j \in 1..n : c[i] = c[j] => i = j
  /\ \A x \in C : \E i \in 1..n : c[i] = x

\* SetToSeq does.
LEMMA SetToSeqHolds ==
  ASSUME NEW C, IsFiniteSet(C)
  PROVE  Cardinality(C) \in Nat /\ Enumerates(SetToSeq(C), Cardinality(C), C)
<1> DEFINE n == Cardinality(C)
           c == SetToSeq(C)
<1>1. n \in Nat /\ ExistsBijection(1..n, C)
  BY FS_CardinalityType
<1>2. IsFiniteSet(1..n) /\ Cardinality(1..n) = n
  BY <1>1, FS_Interval
<1> HIDE DEF n
<1>3. PICK g \in Bijection(1..n, C) : TRUE
  BY <1>1 DEF ExistsBijection
<1>4. g \in [1..n -> C] /\ IsInjective(g)
  BY <1>3 DEF Bijection, Injection
<1>5. SetToSeq(C) = CHOOSE f \in [1..n -> C] : IsInjective(f)
  BY DEF SetToSeq, n
<1>6. c \in [1..n -> C] /\ IsInjective(c)
  BY <1>4, <1>5
<1> HIDE DEF c
<1>7. c \in Injection(1..n, C)
  BY <1>6 DEF Injection
<1>8. c \in Surjection(1..n, C)
  BY <1>2, <1>7, FS_Injection DEF n
<1>9. \A x \in C : \E i \in 1..n : c[i] = x
  BY <1>8 DEF Surjection
<1>10. \A i, j \in 1..n : c[i] = c[j] => i = j
  BY <1>6 DEF IsInjective
<1> QED BY <1>1, <1>6, <1>9, <1>10 DEF Enumerates, c, n

\* An order of an enumeration enumerates the same elements.
LEMMA OrderedHolds ==
  ASSUME NEW n \in Nat, NEW C, NEW c, Enumerates(c, n, C), NEW p, Order(n, p)
  PROVE  Enumerates([k \in 1..n |-> c[p[k]]], n, C)
<1>1. p \in [1..n -> 1..n] /\ c \in [1..n -> C]
  BY DEF Order, Enumerates
<1>2. \A i, j \in 1..n : c[p[i]] = c[p[j]] => i = j
  <2>1. TAKE i, j \in 1..n
  <2>2. p[i] \in 1..n /\ p[j] \in 1..n /\ (p[i] = p[j] => i = j)
    BY <1>1 DEF Order
  <2>3. c[p[i]] = c[p[j]] => p[i] = p[j]
    BY <2>2 DEF Enumerates
  <2> QED BY <2>2, <2>3
<1>3. \A x \in C : \E k \in 1..n : c[p[k]] = x
  <2>1. TAKE x \in C
  <2>2. PICK i \in 1..n : c[i] = x
    BY DEF Enumerates
  <2>3. PICK k \in 1..n : p[k] = i
    BY DEF Order
  <2> QED BY <2>2, <2>3
<1> QED BY <1>1, <1>2, <1>3 DEF Enumerates

\* Spans in the order of their first places, the last first: if each ends before
\* the one that comes before it, none overlaps another one.
LEMMA NeighboursSuffice ==
  ASSUME NEW n \in Nat, NEW L \in Nat, NEW b \in [1..n -> 1..L], NEW d \in [1..n -> 1..L],
         \A k \in 1..n : b[k] <= d[k],
         \A i, j \in 1..n : i < j => b[i] >= b[j]
  PROVE  LET neighbours == \A k \in 2..n : d[k] < b[k - 1]
             apart == \A i, j \in 1..n : i # j => ~(b[i] <= d[j] /\ b[j] <= d[i])
         IN /\ neighbours => Descending(n, L, b, d)
            /\ Descending(n, L, b, d) => apart
            /\ apart => neighbours
<1> DEFINE neighbours == \A k \in 2..n : d[k] < b[k - 1]
           apart == \A i, j \in 1..n : i # j => ~(b[i] <= d[j] /\ b[j] <= d[i])
<1>1. \A k \in 1..n : b[k] \in Int /\ d[k] \in Int /\ b[k] <= d[k]
  OBVIOUS
<1>2. ASSUME neighbours PROVE Descending(n, L, b, d)
  <2>1. ASSUME NEW i \in 1..n, NEW j \in 1..n, i < j PROVE d[j] < b[i]
    <3>1. j \in 2..n /\ j - 1 \in 1..n /\ (i = j - 1 \/ i < j - 1)
      BY <2>1
    <3>2. d[j] < b[j - 1]
      BY <1>2, <3>1
    <3>3. b[i] >= b[j - 1]
      BY <1>1, <3>1
    <3>4. d[j] \in Int /\ b[j - 1] \in Int /\ b[i] \in Int
      BY <1>1, <3>1
    <3> QED BY <3>2, <3>3, <3>4
  <2> QED BY <2>1 DEF Descending
<1>3. ASSUME Descending(n, L, b, d) PROVE apart
  <2>1. SUFFICES ASSUME NEW i \in 1..n, NEW j \in 1..n, i # j
                 PROVE  ~(b[i] <= d[j] /\ b[j] <= d[i])
    OBVIOUS
  <2>2. (i < j => d[j] < b[i]) /\ (j < i => d[i] < b[j])
    BY <1>3 DEF Descending
  <2>3. b[i] \in Int /\ d[i] \in Int /\ b[j] \in Int /\ d[j] \in Int
    BY <1>1
  <2> QED BY <2>1, <2>2, <2>3
<1>4. ASSUME apart PROVE neighbours
  <2>1. SUFFICES ASSUME NEW k \in 2..n PROVE d[k] < b[k - 1]
    OBVIOUS
  <2>2. k \in 1..n /\ k - 1 \in 1..n /\ k - 1 < k /\ k - 1 # k
    OBVIOUS
  <2>3. ~(b[k] <= d[k - 1] /\ b[k - 1] <= d[k])
    BY <1>4, <2>2
  <2>4. b[k - 1] >= b[k] /\ b[k - 1] <= d[k - 1]
    BY <1>1, <2>2
  <2>5. b[k] \in Int /\ d[k] \in Int /\ b[k - 1] \in Int /\ d[k - 1] \in Int
    BY <1>1, <2>2
  <2> QED BY <2>3, <2>4, <2>5
<1> QED BY <1>2, <1>3, <1>4

\* The cells that Placed joins.
PlacedCells(text, span, value) ==
  [p \in DOMAIN text |->
    IF \E i \in DOMAIN span : span[i][1] = p
    THEN value[CHOOSE i \in DOMAIN span : span[i][1] = p]
    ELSE IF \E i \in DOMAIN span : p \in span[i][1]..span[i][2] THEN <<>>
    ELSE <<text[p]>>]

\* A list of edits that stand for these spans, e in the order of the list.
Lists(list, n, e, b, d, C, span, value) ==
  /\ Enumerates(e, n, C)
  /\ \A k \in 1..n : b[k] = span[e[k]][1] /\ d[k] = span[e[k]][2]
  /\ Len(list) = n
  /\ \A k \in 1..n : Says(list[k], b[k], d[k], value[e[k]])

\* Placed reads the text from left to right, the loop goes over the spans from the
\* last to the first: the same text.
LEMMA PlacedHolds ==
  ASSUME NEW S, NEW text \in Seq(S), NEW list, NEW n \in Nat, NEW e, NEW b, NEW d, NEW C,
         NEW span, NEW value, Lists(list, n, e, b, d, C, span, value),
         DOMAIN span = C, \A i \in C : value[i] \in Seq(S), Descending(n, Len(text), b, d)
  PROVE  SpliceAll(text, list) = Placed(text, span, value)
<1> DEFINE L == Len(text)
           cells == PlacedCells(text, span, value)
           starts(p) == \E i \in C : span[i][1] = p
           within(p) == \E i \in C : p \in span[i][1]..span[i][2]
           at(p) == CHOOSE i \in C : span[i][1] = p
           v == [k \in 1..n |-> value[e[k]]]
<1>l. /\ Enumerates(e, n, C) /\ Len(list) = n
      /\ \A k \in 1..n : b[k] = span[e[k]][1] /\ d[k] = span[e[k]][2]
      /\ \A k \in 1..n : Says(list[k], b[k], d[k], value[e[k]])
  BY DEF Lists
<1>v. \A k \in 1..n : v[k] = value[e[k]]
  OBVIOUS
<1>d. DOMAIN v = 1..n /\ v = [k \in 1..n |-> v[k]]
  OBVIOUS
<1> HIDE DEF v
<1>1. L \in Nat /\ DOMAIN text = 1..L
  BY LenProperties
<1>2. cells = [p \in 1..L |-> IF starts(p) THEN value[at(p)]
                              ELSE IF within(p) THEN <<>> ELSE <<text[p]>>]
  BY <1>1 DEF PlacedCells
<1> HIDE DEF cells
<1>3. \A k \in 1..n : e[k] \in C /\ b[k] \in 1..L /\ d[k] \in b[k]..L
  BY <1>1, <1>l, BetweenSpans DEF Enumerates
<1>4. \A i \in C : \E k \in 1..n : e[k] = i
  BY <1>l DEF Enumerates
<1>5. \A j, k \in 1..n : b[j] = b[k] => j = k
  <2>1. TAKE j, k \in 1..n
  <2>2. (j < k => d[k] < b[j]) /\ (k < j => d[j] < b[k])
    BY DEF Descending
  <2>3. b[j] \in Int /\ b[k] \in Int /\ d[j] >= b[j] /\ d[k] >= b[k] /\ d[j] \in Int /\ d[k] \in Int
    BY <1>1, <1>3
  <2> QED BY <2>2, <2>3
<1>6. \A p : starts(p) <=> \E k \in 1..n : b[k] = p
  <2>1. ASSUME NEW p, NEW k \in 1..n, b[k] = p PROVE starts(p)
    BY <1>3, <1>l, <2>1
  <2>2. ASSUME NEW p, NEW i \in C, span[i][1] = p PROVE \E k \in 1..n : b[k] = p
    <3>1. PICK k \in 1..n : e[k] = i
      BY <1>4
    <3>2. b[k] = p
      BY <1>l, <2>2, <3>1
    <3> QED BY <3>2
  <2> QED BY <2>1, <2>2
<1>7. \A p : within(p) <=> \E k \in 1..n : p \in b[k]..d[k]
  <2>1. ASSUME NEW p, NEW k \in 1..n, p \in b[k]..d[k] PROVE within(p)
    BY <1>3, <1>l, <2>1
  <2>2. ASSUME NEW p, NEW i \in C, p \in span[i][1]..span[i][2]
        PROVE  \E k \in 1..n : p \in b[k]..d[k]
    <3>1. PICK k \in 1..n : e[k] = i
      BY <1>4
    <3>2. b[k] = span[i][1] /\ d[k] = span[i][2]
      BY <1>l, <3>1
    <3> QED BY <2>2, <3>2
  <2> QED BY <2>1, <2>2
<1>8. \A k \in 1..n : at(b[k]) = e[k]
  <2>1. TAKE k \in 1..n
  <2>2. e[k] \in C /\ span[e[k]][1] = b[k]
    BY <1>3, <1>l
  <2>3. at(b[k]) \in C /\ span[at(b[k])][1] = b[k]
    BY <2>2
  <2>4. PICK j \in 1..n : e[j] = at(b[k])
    BY <1>4, <2>3
  <2>5. b[j] = b[k]
    BY <1>l, <2>3, <2>4
  <2> QED BY <1>5, <2>4, <2>5
<1> HIDE DEF starts, within, at
<1>9. \A k \in 1..n : cells[b[k]] = v[k]
  BY <1>2, <1>3, <1>6, <1>8, <1>v
<1>10. ASSUME NEW k \in 1..n, NEW p \in b[k] + 1..d[k] PROVE cells[p] = <<>>
  <2>1. p \in 1..L /\ p \in b[k]..d[k] /\ p # b[k]
    BY <1>1, <1>3
  <2>2. ~starts(p)
    <3>1. ASSUME NEW j \in 1..n, b[j] = p PROVE FALSE
      <4>1. j # k
        BY <2>1, <3>1
      <4>2. (j < k => d[k] < b[j]) /\ (k < j => d[j] < b[k])
        BY DEF Descending
      <4>3. b[j] \in Int /\ b[k] \in Int /\ d[k] \in Int /\ d[j] \in Int /\ d[j] >= b[j]
        BY <1>1, <1>3
      <4> QED BY <2>1, <3>1, <4>1, <4>2, <4>3
    <3> QED BY <1>6, <3>1
  <2>3. within(p)
    BY <1>7, <2>1
  <2> QED BY <1>2, <2>1, <2>2, <2>3
<1>11. ASSUME NEW p \in 1..L, \A k \in 1..n : p \notin b[k]..d[k] PROVE cells[p] = <<text[p]>>
  <2>1. ~within(p)
    BY <1>7, <1>11
  <2>2. ~starts(p)
    <3>1. ASSUME NEW k \in 1..n, b[k] = p PROVE FALSE
      <4>1. p \in b[k]..d[k]
        BY <1>1, <1>3, <3>1
      <4> QED BY <1>11, <4>1
    <3> QED BY <1>6, <3>1
  <2> QED BY <1>2, <2>1, <2>2
<1>12. Celled(text, n, b, d, v, cells)
  BY <1>9, <1>10, <1>11 DEF Celled
<1>13. v \in [1..n -> Seq(S)]
  BY <1>3, <1>d, <1>v
<1>14. cells \in Seq(Seq(S)) /\ Len(cells) = L
  <2>1. \A p \in 1..L : cells[p] \in Seq(S)
    <3>1. TAKE p \in 1..L
    <3>2. CASE \E k \in 1..n : b[k] = p
      BY <1>9, <1>13, <3>2
    <3>3. CASE \E k \in 1..n : p \in b[k] + 1..d[k]
      <4>1. <<>> \in Seq(S)
        BY EmptySeq
      <4> QED BY <1>10, <3>3, <4>1
    <3>4. CASE \A k \in 1..n : p \notin b[k]..d[k]
      <4>1. text[p] \in S
        BY ElementOfSeq
      <4>2. <<text[p]>> \in Seq(S)
        BY <4>1
      <4> QED BY <1>11, <3>4, <4>2
    <3>5. ASSUME NEW k \in 1..n, p \in b[k]..d[k] PROVE b[k] = p \/ p \in b[k] + 1..d[k]
      BY <1>1, <1>3, <3>5
    <3> QED BY <3>2, <3>3, <3>4, <3>5
  <2>2. cells \in [1..L -> Seq(S)]
    BY <1>2, <2>1
  <2> QED BY <1>1, <2>2, SeqOfFunction
<1>15. Editing(S, text, cells, n, b, d, v)
  BY <1>12, <1>13, <1>14 DEF Editing
<1>16. \A k \in 1..n : Says(list[k], b[k], d[k], v[k])
  BY <1>l, <1>v
<1>17. SpliceAll(text, list) = FlattenSeq(cells)
  BY <1>15, <1>16, <1>l, SpliceAllHolds
<1> QED BY <1>17 DEF Placed, PlacedCells, cells

\* The sequence of n edits has that length, whatever the edits are.
LEMMA LenOfFunction ==
  ASSUME NEW n \in Nat, NEW f, DOMAIN f = 1..n, f = [k \in 1..n |-> f[k]]
  PROVE  Len(f) = n
<1> DEFINE S == {f[k] : k \in 1..n}
<1>1. f \in [1..n -> S]
  OBVIOUS
<1> HIDE DEF S
<1> QED BY <1>1, SeqOfFunction

\* Some spans overlap.
Clash(C, span) == \E i, j \in C : i # j /\ Overlap(span[i], span[j])

\* An edit for each of the spans, all of them in a text of L characters.
EditsOf(edits, L, n, c, C, span, value) ==
  /\ L \in Nat /\ n \in Nat /\ Enumerates(c, n, C)
  /\ \A i \in C : span[i][1] \in 1..L /\ span[i][2] \in span[i][1]..L
  /\ DOMAIN edits = 1..n
  /\ \A m \in 1..n : edits[m].span = span[c[m]] /\ edits[m].value = value[c[m]]

\* The edits in the order of their spans: they are disjoint when no two spans
\* overlap, and then they can be replaced one by one.
LEMMA SortedHolds ==
  ASSUME NEW L, NEW n, NEW c, NEW C, NEW span, NEW value, NEW edits,
         EditsOf(edits, L, n, c, C, span, value)
  PROVE  \E e, b, d : /\ Lists(Sorted(edits), n, e, b, d, C, span, value)
                      /\ Disjoint(Sorted(edits)) <=> ~Clash(C, span)
                      /\ Disjoint(Sorted(edits)) => Descending(n, L, b, d)
<1>h. /\ L \in Nat /\ n \in Nat /\ Enumerates(c, n, C)
      /\ \A i \in C : span[i][1] \in 1..L /\ span[i][2] \in span[i][1]..L
      /\ DOMAIN edits = 1..n
      /\ \A m \in 1..n : edits[m].span = span[c[m]] /\ edits[m].value = value[c[m]]
  BY DEF EditsOf
<1>1. c \in [1..n -> C]
  BY <1>h DEF Enumerates
<1>2. \A m \in 1..n : edits[m].span[1] \in Int
  <2>1. TAKE m \in 1..n
  <2>2. c[m] \in C /\ edits[m].span = span[c[m]]
    BY <1>h, <1>1
  <2>3. span[c[m]][1] \in Int
    BY <1>h, <2>2
  <2> QED BY <2>2, <2>3
<1>3. PICK p : /\ Order(n, p)
               /\ Sorted(edits) = [k \in 1..n |-> edits[p[k]]]
               /\ \A i, j \in 1..n : i < j => edits[p[i]].span[1] >= edits[p[j]].span[1]
  BY <1>h, <1>2, SortHolds
<1> DEFINE e == [k \in 1..n |-> c[p[k]]]
           b == [k \in 1..n |-> span[e[k]][1]]
           d == [k \in 1..n |-> span[e[k]][2]]
<1>4. Enumerates(e, n, C)
  BY <1>h, <1>3, OrderedHolds
<1>5. \A k \in 1..n : e[k] \in C /\ p[k] \in 1..n /\ e[k] = c[p[k]]
  BY <1>1, <1>3 DEF Order
<1> HIDE DEF e
<1>6. \A k \in 1..n : edits[p[k]].span = span[e[k]] /\ edits[p[k]].value = value[e[k]]
  BY <1>h, <1>5
<1>7. \A k \in 1..n : b[k] \in 1..L /\ d[k] \in b[k]..L
  BY <1>h, <1>5
<1>8. b \in [1..n -> 1..L] /\ d \in [1..n -> 1..L] /\ \A k \in 1..n : b[k] <= d[k]
  <2>1. \A k \in 1..n : d[k] \in 1..L /\ b[k] <= d[k]
    <3>1. TAKE k \in 1..n
    <3>2. b[k] \in 1..L /\ d[k] \in b[k]..L
      BY <1>7
    <3> HIDE DEF b, d
    <3> QED BY <1>h, <3>2
  <2>2. DOMAIN b = 1..n /\ DOMAIN d = 1..n /\ b = [k \in 1..n |-> b[k]] /\ d = [k \in 1..n |-> d[k]]
    OBVIOUS
  <2> HIDE DEF b, d
  <2> QED BY <1>7, <2>1, <2>2
<1>9. \A k \in 1..n : b[k] = span[e[k]][1] /\ d[k] = span[e[k]][2]
  OBVIOUS
<1> HIDE DEF b, d
<1>10. \A i, j \in 1..n : i < j => b[i] >= b[j]
  BY <1>3, <1>6, <1>9
<1> DEFINE neighbours == \A k \in 2..n : d[k] < b[k - 1]
           apart == \A i, j \in 1..n : i # j => ~(b[i] <= d[j] /\ b[j] <= d[i])
           s == Sorted(edits)
<1>11. /\ neighbours => Descending(n, L, b, d)
       /\ Descending(n, L, b, d) => apart
       /\ apart => neighbours
  BY <1>h, <1>8, <1>10, NeighboursSuffice
<1>12. Len(s) = n
  <2>1. DOMAIN s = 1..n /\ s = [k \in 1..n |-> s[k]]
    BY <1>3
  <2> HIDE DEF s
  <2> QED BY <1>h, <2>1, LenOfFunction
<1>13. \A k \in 1..n : s[k].span[1] = b[k] /\ s[k].span[2] = d[k] /\ s[k].value = value[e[k]]
  BY <1>3, <1>6, <1>9
<1>14. \A k \in 1..n : Says(s[k], b[k], d[k], value[e[k]])
  BY <1>13 DEF Says
<1> HIDE DEF s
<1>15. Disjoint(s) <=> neighbours
  <2>1. \A k \in 2..n : k \in 1..n /\ k - 1 \in 1..n
    BY <1>h
  <2> QED BY <1>12, <1>13, <2>1 DEF Disjoint
<1>16. apart <=> ~Clash(C, span)
  <2>1. ASSUME NEW i \in 1..n, NEW j \in 1..n
        PROVE  b[i] <= d[j] /\ b[j] <= d[i] <=> Overlap(span[e[i]], span[e[j]])
    BY <1>9 DEF Overlap
  <2>2. \A i, j \in 1..n : i # j <=> e[i] # e[j]
    BY <1>4 DEF Enumerates
  <2>3. apart <=> \A i, j \in 1..n : e[i] # e[j] => ~Overlap(span[e[i]], span[e[j]])
    BY <2>1, <2>2
  <2>4. \A x \in C : \E i \in 1..n : e[i] = x
    BY <1>4 DEF Enumerates
  <2> HIDE DEF apart
  <2>5. ASSUME NEW x \in C, NEW y \in C, x # y, Overlap(span[x], span[y]), apart PROVE FALSE
    <3>1. PICK i \in 1..n : e[i] = x
      BY <2>4
    <3>2. PICK j \in 1..n : e[j] = y
      BY <2>4
    <3> QED BY <2>3, <2>5, <3>1, <3>2
  <2>6. ASSUME ~Clash(C, span) PROVE apart
    <3>1. ASSUME NEW i \in 1..n, NEW j \in 1..n, e[i] # e[j]
          PROVE  ~Overlap(span[e[i]], span[e[j]])
      BY <1>5, <2>6, <3>1 DEF Clash
    <3> QED BY <2>3, <3>1
  <2> QED BY <2>5, <2>6 DEF Clash
<1>17. /\ Disjoint(s) <=> ~Clash(C, span)
       /\ Disjoint(s) => Descending(n, L, b, d)
  BY <1>11, <1>15, <1>16
<1>18. Lists(Sorted(edits), n, e, b, d, C, span, value)
  BY <1>4, <1>9, <1>12, <1>14 DEF Lists, s
<1> QED BY <1>17, <1>18 DEF s

\* The spans of URLs in a text.
SpansOf(text, urls, C) == [i \in C |-> Utf16Span(text, urls[i].offset, urls[i].length)]

\* The URLs of ReplacementIsExact are finitely many.
LEMMA ThreePlaces == IsFiniteSet(1..3)
<1> DEFINE n == 3
<1>1. n \in Nat
  OBVIOUS
<1> HIDE DEF n
<1>2. IsFiniteSet(1..n)
  BY <1>1, FS_Interval
<1> QED BY <1>2 DEF n

\* A span that is found is in the text.
LEMMA SpansInText ==
  ASSUME NEW text \in Seq(Char), NEW urls, NEW C,
         \A i \in C : urls[i].offset \in Int /\ urls[i].length \in Int,
         NEW i \in C, SpansOf(text, urls, C)[i] # NoSpan
  PROVE  LET span == SpansOf(text, urls, C) IN
         span[i][1] \in 1..Len(text) /\ span[i][2] \in span[i][1]..Len(text)
<1> DEFINE span == SpansOf(text, urls, C)
<1>1. span[i] = Utf16Span(text, urls[i].offset, urls[i].length)
  BY DEF SpansOf
<1>2. urls[i].offset \in Int /\ urls[i].length \in Int
  OBVIOUS
<1>3. Spanned(text, urls[i].offset, urls[i].length, span[i][1], span[i][2])
  BY <1>1, <1>2, SpanSound
<1> QED BY <1>3 DEF Spanned

\* URLs of a text and what is to come in the place of each.
Destined(S, text, C, urls, value) ==
  /\ text \in Seq(Char) /\ text \in Seq(S) /\ IsFiniteSet(C) /\ DOMAIN value = C
  /\ \A i \in C : urls[i].offset \in Int /\ urls[i].length \in Int
  /\ \A i \in C : value[i] \in Seq(S) /\ ~Blank(value[i])

\* ReplaceURLSpans puts every value in the place of its span, unless a span is
\* invalid or two of them overlap.
LEMMA ReplacementHolds ==
  ASSUME NEW S, NEW text, NEW C, NEW urls, NEW value, Destined(S, text, C, urls, value)
  PROVE  LET span == SpansOf(text, urls, C) IN
         ReplaceURLSpans(text, urls, value) =
           IF (\E i \in C : span[i] = NoSpan) \/ Clash(C, span)
           THEN Failure ELSE Placed(text, span, value)
<1> DEFINE span == SpansOf(text, urls, C)
           L == Len(text)
           n == Cardinality(C)
           c == SetToSeq(C)
           edits == [m \in DOMAIN c |-> Edit(text, urls[c[m]], value[c[m]])]
           bad == \E m \in DOMAIN edits : edits[m].span = NoSpan
           sorted == Sorted(edits)
<1>h. /\ text \in Seq(Char) /\ text \in Seq(S) /\ IsFiniteSet(C) /\ DOMAIN value = C
      /\ \A i \in C : urls[i].offset \in Int /\ urls[i].length \in Int
      /\ \A i \in C : value[i] \in Seq(S) /\ ~Blank(value[i])
  BY DEF Destined
<1>1. L \in Nat
  BY <1>h, LenProperties
<1>2. n \in Nat /\ Enumerates(c, n, C)
  BY <1>h, SetToSeqHolds
<1>3. {i \in DOMAIN value : ~Blank(value[i])} = C
  BY <1>h
<1>4. ReplaceURLSpans(text, urls, value) =
        IF bad \/ ~Disjoint(sorted) THEN Failure ELSE SpliceAll(text, sorted)
  BY <1>3 DEF ReplaceURLSpans
<1> HIDE DEF n, c
<1>5. c \in [1..n -> C] /\ \A x \in C : \E m \in 1..n : c[m] = x
  BY <1>2 DEF Enumerates
<1>6. DOMAIN edits = 1..n
  BY <1>5
<1>7. \A m \in 1..n : edits[m].span = span[c[m]] /\ edits[m].value = value[c[m]]
  BY <1>5 DEF Edit, SpansOf
<1> HIDE DEF edits
<1>8. bad <=> \E i \in C : span[i] = NoSpan
  <2> HIDE DEF span
  <2>1. ASSUME bad PROVE \E i \in C : span[i] = NoSpan
    BY <1>5, <1>6, <1>7, <2>1
  <2>2. ASSUME NEW i \in C, span[i] = NoSpan PROVE bad
    <3>1. PICK m \in 1..n : c[m] = i
      BY <1>5
    <3> QED BY <1>6, <1>7, <2>2, <3>1
  <2> QED BY <2>1, <2>2
<1>9. CASE bad
  BY <1>4, <1>8, <1>9
<1>10. CASE ~bad
  <2>1. \A i \in C : span[i][1] \in 1..L /\ span[i][2] \in span[i][1]..L
    <3>1. TAKE i \in C
    <3>2. span[i] # NoSpan
      BY <1>8, <1>10
    <3> QED BY <1>h, <3>2, SpansInText
  <2>2. EditsOf(edits, L, n, c, C, span, value)
    BY <1>1, <1>2, <1>6, <1>7, <2>1 DEF EditsOf
  <2>5. PICK e, b, d : /\ Lists(sorted, n, e, b, d, C, span, value)
                       /\ Disjoint(sorted) <=> ~Clash(C, span)
                       /\ Disjoint(sorted) => Descending(n, L, b, d)
    BY <2>2, SortedHolds
  <2>3. CASE ~Disjoint(sorted)
    BY <1>4, <2>3, <2>5
  <2>4. CASE Disjoint(sorted)
    <3>1. DOMAIN span = C /\ Descending(n, Len(text), b, d)
      BY <2>4, <2>5 DEF SpansOf
    <3> HIDE DEF L
    <3>2. SpliceAll(text, sorted) = Placed(text, span, value)
      BY <1>2, <1>h, <2>5, <3>1, PlacedHolds
    <3> QED BY <1>4, <1>8, <1>10, <2>4, <2>5, <3>2
  <2> QED BY <2>3, <2>4
<1> QED BY <1>9, <1>10

\* Rewriting the links of a text puts every destination in the place of its URL.
LEMMA TextsAreRewritten == sample \in Input => ReplacementIsExact
<1> DEFINE urls(o1, o2, o3, length) ==
             <<[offset |-> o1, length |-> 1], [offset |-> o2, length |-> length],
               [offset |-> o3, length |-> 2]>>
           values == <<<<"A", "B">>, <<"C">>, <<"D">>>>
           S == Char \cup {"A", "B", "C", "D"}
<1>1. SUFFICES ASSUME sample \in Input, sample.kind = "text",
                      NEW o1 \in Offsets, NEW o2 \in Offsets, NEW o3 \in Offsets,
                      NEW length \in Offsets, NEW C \in {{1, 2, 3}, {1, 3}}
      PROVE  LET text  == sample.text
                 value == [i \in C |-> values[i]]
                 span  == [i \in C |-> Utf16Span(text, urls(o1, o2, o3, length)[i].offset,
                                                 urls(o1, o2, o3, length)[i].length)]
                 bad   == \/ \E i \in C : span[i] = NoSpan
                          \/ \E i, j \in C : i # j /\ Overlap(span[i], span[j])
             IN ReplaceURLSpans(text, urls(o1, o2, o3, length), value) =
                  IF bad THEN Failure ELSE Placed(text, span, value)
  BY DEF ReplacementIsExact
<1> DEFINE text == sample.text
           U == urls(o1, o2, o3, length)
           value == [i \in C |-> values[i]]
           span == SpansOf(text, U, C)
<1>2. text \in Seq(Char) /\ o1 \in Int /\ o2 \in Int /\ o3 \in Int /\ length \in Int
  <2>1. sample \in TextInput
    BY <1>1, InputOfKind
  <2> QED BY <2>1, TextsAssumption DEF TextInput
<1>3. C \subseteq 1..3 /\ IsFiniteSet(C)
  <2>1. C \subseteq 1..3
    <3>1. C = {1, 2, 3} \/ C = {1, 3}
      OBVIOUS
    <3> QED BY <3>1
  <2>2. IsFiniteSet(1..3)
    BY ThreePlaces
  <2> QED BY <2>1, <2>2, FS_Subset
<1>4. \A i \in C : U[i].offset \in Int /\ U[i].length \in Int
  <2>1. \A i \in 1..3 : U[i].offset \in Int /\ U[i].length \in Int
    BY <1>2
  <2> QED BY <1>3, <2>1
<1> HIDE DEF U
<1>5. \A i \in C : value[i] \in Seq(S) /\ ~Blank(value[i])
  <2>1. \A i \in 1..3 : values[i] \in Seq(S) /\ values[i][1] # "_" /\ 1 \in DOMAIN values[i]
    <3>1. \A i \in 1..3 : i = 1 \/ i = 2 \/ i = 3
      OBVIOUS
    <3>2. values[1] = <<"A", "B">> /\ values[2] = <<"C">> /\ values[3] = <<"D">>
      OBVIOUS
    <3>3. \A x, y \in S : <<x, y>> \in Seq(S) /\ <<x>> \in Seq(S)
      <4> HIDE DEF S
      <4> QED OBVIOUS
    <3>4. "A" \in S /\ "B" \in S /\ "C" \in S /\ "D" \in S
      OBVIOUS
    <3>5. /\ values[1] \in Seq(S) /\ values[1][1] = "A" /\ 1 \in DOMAIN values[1]
          /\ values[2] \in Seq(S) /\ values[2][1] = "C" /\ 1 \in DOMAIN values[2]
          /\ values[3] \in Seq(S) /\ values[3][1] = "D" /\ 1 \in DOMAIN values[3]
      <4> HIDE DEF S, values
      <4> QED BY <3>2, <3>3, <3>4
    <3> HIDE DEF S, values
    <3> QED BY <3>1, <3>5
  <2>2. \A i \in C : value[i] = values[i]
    OBVIOUS
  <2> HIDE DEF values, S, value
  <2> QED BY <1>3, <2>1, <2>2 DEF Blank
<1>6. text \in Seq(S)
  <2>1. Char \subseteq S
    OBVIOUS
  <2> HIDE DEF S, text
  <2> QED BY <1>2, <2>1, SeqMonotonic
<1>7. DOMAIN value = C
  OBVIOUS
<1> HIDE DEF text, value, S
<1> HIDE DEF span
<1>8. LET s == SpansOf(text, U, C) IN
      ReplaceURLSpans(text, U, value) =
        IF (\E i \in C : s[i] = NoSpan) \/ Clash(C, s) THEN Failure ELSE Placed(text, s, value)
  <2>1. Destined(S, text, C, U, value)
    BY <1>2, <1>3, <1>4, <1>5, <1>6, <1>7 DEF Destined
  <2> QED BY <2>1, ReplacementHolds
<1> QED BY <1>8 DEF Clash, SpansOf, text, value, span, U

\* The rewriting of links is exact, for every text and all offsets: utf16Span finds
\* the characters that an entity stands for, and ReplaceURLSpans, in whatever order
\* the entities come, puts every destination in the place of its URL, keeps the
\* rest of the text, and fails when a span is invalid or two of them overlap.
THEOREM RewritingAlwaysExact == Sampling => []RewritingIsExact
<1>1. sample \in Input => RewritingIsExact
  BY SpansInTexts, TextsAreRewritten DEF RewritingIsExact
<1> QED BY <1>1, SampleIsInput, PTL

-----------------------------------------------------------------------------
(* Messages: where the pieces stand, and what their entities cover.        *)

\* Places that ascend, from 0, cut what is below the last of them into ranges.
Ascends(m, f) ==
  /\ m \in Nat /\ f[0] = 0 /\ \A i \in 0..m : f[i] \in Nat
  /\ \A i \in 1..m : f[i - 1] < f[i]

\* Every place is in one range, and in no other.
LEMMA RangesFacts ==
  ASSUME NEW m, NEW f, Ascends(m, f)
  PROVE  /\ \A i, j \in 0..m : i < j => f[i] < f[j]
         /\ \A p \in 1..f[m] : \E i \in 1..m : p \in f[i - 1] + 1..f[i]
         /\ \A i, j \in 1..m : \A p \in f[i - 1] + 1..f[i] : p \in f[j - 1] + 1..f[j] => i = j
         /\ \A i \in 1..m : f[i - 1] + 1 \in 1..f[m] /\ f[i] \in f[i - 1] + 1..f[m]
<1>1. /\ m \in Nat /\ f[0] = 0 /\ \A i \in 0..m : f[i] \in Nat
      /\ \A i \in 1..m : i - 1 \in 0..m /\ i \in 0..m /\ f[i - 1] < f[i]
  BY DEF Ascends
<1>2. ASSUME NEW i \in 0..m, NEW j \in 0..m, i < j PROVE f[i] < f[j]
  <2> DEFINE U == {n \in 0..m : i < n => f[i] < f[n]}
  <2>1. 0 \in U
    BY <1>1
  <2>2. \A n \in 1..m : n - 1 \in U => n \in U
    <3>1. SUFFICES ASSUME NEW n \in 1..m, n - 1 \in U, i < n PROVE f[i] < f[n]
      BY <1>1
    <3>2. f[n - 1] < f[n] /\ f[n - 1] \in Nat /\ f[n] \in Nat /\ f[i] \in Nat
      BY <1>1
    <3>3. i = n - 1 \/ i < n - 1
      BY <1>1, <3>1
    <3>4. i < n - 1 => f[i] < f[n - 1]
      BY <3>1
    <3> QED BY <3>2, <3>3, <3>4
  <2>3. 0..m \subseteq U
    <3> HIDE DEF U
    <3> QED BY <1>1, <2>1, <2>2, Ascent
  <2> QED BY <1>2, <2>3
<1>3. \A i, j \in 0..m : i <= j => f[i] <= f[j]
  <2>1. TAKE i, j \in 0..m
  <2>2. f[i] \in Nat /\ f[j] \in Nat /\ (i < j => f[i] < f[j])
    BY <1>1, <1>2
  <2> QED BY <1>1, <2>2
<1>4. \A p \in 1..f[m] : \E i \in 1..m : p \in f[i - 1] + 1..f[i]
  <2> DEFINE U == {n \in 0..m : \A p \in 1..f[n] : \E i \in 1..m : p \in f[i - 1] + 1..f[i]}
  <2>1. 0 \in U
    BY <1>1
  <2>2. \A n \in 1..m : n - 1 \in U => n \in U
    <3>1. SUFFICES ASSUME NEW n \in 1..m, n - 1 \in U, NEW p \in 1..f[n]
                   PROVE  \E i \in 1..m : p \in f[i - 1] + 1..f[i]
      BY <1>1
    <3>2. f[n - 1] \in Nat /\ f[n] \in Nat
      BY <1>1
    <3>3. p \in 1..f[n - 1] \/ p \in f[n - 1] + 1..f[n]
      BY <3>2
    <3> QED BY <3>1, <3>3
  <2>3. m \in 0..m
    BY <1>1
  <2>4. m \in U
    <3> HIDE DEF U
    <3> QED BY <1>1, <2>1, <2>2, <2>3, Ascent
  <2> QED BY <2>4
<1>5. ASSUME NEW i \in 1..m, NEW j \in 1..m, NEW p \in f[i - 1] + 1..f[i],
             p \in f[j - 1] + 1..f[j], i < j
      PROVE  FALSE
  <2>1. i \in 0..m /\ j - 1 \in 0..m /\ i <= j - 1
    BY <1>1, <1>5
  <2>2. f[i] <= f[j - 1]
    BY <1>3, <2>1
  <2>3. f[i] \in Nat /\ f[j - 1] \in Nat /\ f[i - 1] \in Nat /\ f[j] \in Nat
    BY <1>1
  <2> QED BY <1>5, <2>2, <2>3
<1>6. ASSUME NEW i \in 1..m, NEW j \in 1..m, NEW p \in f[i - 1] + 1..f[i],
             p \in f[j - 1] + 1..f[j]
      PROVE  i = j
  <2>1. p \in Int
    BY <1>1
  <2>2. ~(i < j)
    BY <1>5, <1>6
  <2>3. ~(j < i)
    BY <1>5, <1>6
  <2> QED BY <1>1, <2>2, <2>3
<1>7. ASSUME NEW i \in 1..m PROVE f[i - 1] + 1 \in 1..f[m] /\ f[i] \in f[i - 1] + 1..f[m]
  <2>1. f[i] <= f[m] /\ f[i - 1] < f[i] /\ f[i] \in Nat /\ f[i - 1] \in Nat /\ f[m] \in Nat
    <3>1. m \in 0..m /\ i <= m /\ i \in 0..m
      BY <1>1
    <3> QED BY <1>1, <1>3, <3>1
  <2> QED BY <2>1
<1> QED BY <1>2, <1>4, <1>6, <1>7

\* The texts of the pieces, and where each of them ends.
Labels(P) == [i \in DOMAIN P |-> P[i].text]
Ends(P) == [i \in 0..Len(P) |-> Len(Joined(Labels(P), i))]

\* What a piece means is what the code makes of its URL, on its own.
Meaning(piece) ==
  NormalizeURL(CanonicalHTTPTarget(Trim(IF piece.kind = "url" THEN piece.text ELSE piece.url),
                                   piece.kind = "url"))
Meant(piece) ==
  /\ piece.kind \in {"literal", "url", "text_link", "corrupt"}
  /\ piece.text \in Seq(Char) /\ piece.text # <<>> /\ piece.url \in Seq(Char)
  /\ piece.means = IF piece.kind = "literal" THEN <<>> ELSE Meaning(piece)

\* Pieces that mean what they say.
Composed(P) ==
  /\ Len(P) \in Nat /\ DOMAIN P = 1..Len(P)
  /\ \A i \in 1..Len(P) : Meant(P[i])

\* Where the pieces stand in the text.
LEMMA EndsFacts ==
  ASSUME NEW P, Composed(P)
  PROVE  /\ Labels(P) \in Seq(Seq(Char)) /\ Len(Labels(P)) = Len(P)
         /\ Ascends(Len(P), Ends(P))
         /\ \A i \in 1..Len(P) : /\ Labels(P)[i] = P[i].text
                                 /\ Len(P[i].text) \in Nat /\ Len(P[i].text) > 0
                                 /\ Ends(P)[i] = Ends(P)[i - 1] + Len(P[i].text)
         /\ Text(P) = Joined(Labels(P), Len(P))
         /\ Text(P) \in Seq(Char) /\ Len(Text(P)) = Ends(P)[Len(P)]
<1> DEFINE m == Len(P)
           labels == Labels(P)
           f == Ends(P)
<1>1. /\ m \in Nat /\ DOMAIN P = 1..m
      /\ \A i \in 1..m : P[i].text \in Seq(Char) /\ P[i].text # <<>>
  BY DEF Composed, Meant
<1>2. labels = [i \in 1..m |-> P[i].text]
  BY <1>1 DEF Labels
<1>3. labels \in Seq(Seq(Char)) /\ Len(labels) = m /\ \A i \in 1..m : labels[i] = P[i].text
  <2>1. labels \in [1..m -> Seq(Char)]
    BY <1>1, <1>2
  <2> HIDE DEF labels, m
  <2> QED BY <1>1, <1>2, <2>1, SeqOfFunction
<1>4. f = [i \in 0..m |-> Len(Joined(labels, i))]
  BY DEF Ends
<1>5. \A i \in 1..m : Len(P[i].text) \in Nat /\ Len(P[i].text) > 0
  <2>1. TAKE i \in 1..m
  <2>2. P[i].text \in Seq(Char) /\ P[i].text # <<>>
    BY <1>1
  <2> QED BY <2>2, LenProperties, EmptySeq
<1>t. Text(P) = FlattenSeq(labels)
  BY DEF Text, Labels
<1> HIDE DEF m, labels, f
<1>6. /\ \A i \in 0..m : Joined(labels, i) \in Seq(Char)
      /\ Joined(labels, 0) = <<>>
      /\ \A i \in 1..m : Joined(labels, i) = Joined(labels, i - 1) \o labels[i]
      /\ Joined(labels, m) = FlattenSeq(labels)
  BY <1>3, JoinedFacts
<1>7. \A i \in 0..m : f[i] = Len(Joined(labels, i)) /\ f[i] \in Nat
  <2>1. \A i \in 0..m : f[i] = Len(Joined(labels, i))
    BY <1>4
  <2>2. ASSUME NEW i \in 0..m PROVE Len(Joined(labels, i)) \in Nat
    BY <1>6, LenProperties
  <2> QED BY <2>1, <2>2
<1>8. \A i \in 1..m : i \in 0..m /\ i - 1 \in 0..m
  BY <1>1
<1>9. ASSUME NEW i \in 1..m PROVE f[i] = f[i - 1] + Len(P[i].text)
  <2> DEFINE x == Joined(labels, i - 1)
             y == P[i].text
  <2>1. x \in Seq(Char) /\ y \in Seq(Char) /\ Joined(labels, i) = x \o y
    BY <1>1, <1>3, <1>6, <1>8
  <2>2. f[i] = Len(Joined(labels, i)) /\ f[i - 1] = Len(x)
    BY <1>7, <1>8
  <2> HIDE DEF x, y
  <2>3. Len(x \o y) = Len(x) + Len(y)
    BY <2>1, ConcatProperties
  <2> QED BY <2>1, <2>2, <2>3 DEF y
<1>10. f[0] = 0
  <2>1. 0 \in 0..m
    BY <1>1
  <2>2. f[0] = Len(<<>>)
    BY <1>6, <1>7, <2>1
  <2> QED BY <2>2, EmptySeq
<1>11. \A i \in 1..m : f[i - 1] < f[i]
  <2>1. TAKE i \in 1..m
  <2>2. f[i] = f[i - 1] + Len(P[i].text) /\ f[i - 1] \in Nat
    BY <1>7, <1>8, <1>9
  <2> QED BY <1>5, <2>2
<1>12. Ascends(m, f)
  BY <1>1, <1>7, <1>10, <1>11 DEF Ascends
<1>13. Text(P) = Joined(labels, m) /\ Joined(labels, m) \in Seq(Char) /\ Len(Text(P)) = f[m]
  <2>1. m \in 0..m
    BY <1>1
  <2> QED BY <1>6, <1>7, <1>t, <2>1
<1> QED BY <1>3, <1>5, <1>9, <1>12, <1>13 DEF m, labels, f

\* The text begins with the pieces that come first.
LEMMA TextBegins ==
  ASSUME NEW P, Composed(P), NEW i \in 0..Len(P)
  PROVE  /\ Joined(Labels(P), i) \in Seq(Char)
         /\ \A k \in 1..Ends(P)[i] : Text(P)[k] = Joined(Labels(P), i)[k]
<1> DEFINE m == Len(P)
           f == Ends(P)
           J(n) == Joined(Labels(P), n)
<1>1. m \in Nat /\ Ascends(m, f) /\ Labels(P) \in Seq(Seq(Char)) /\ Len(Labels(P)) = m
  BY EndsFacts DEF Composed
<1>2. \A n \in 0..m : J(n) \in Seq(Char) /\ Len(J(n)) = f[n]
  BY <1>1, JoinedFacts DEF Ends
<1>3. \A n \in 1..m : J(n) = J(n - 1) \o Labels(P)[n] /\ Labels(P)[n] \in Seq(Char)
  BY <1>1, JoinedFacts, ElementOfSeq
<1>4. Text(P) = J(m)
  BY EndsFacts
<1>5. /\ \A n \in 0..m : f[n] \in Nat
      /\ \A n \in 1..m : f[n - 1] < f[n] /\ n - 1 \in 0..m /\ n \in 0..m
      /\ \A n, k \in 0..m : n < k => f[n] < f[k]
  <2> HIDE DEF m, f
  <2>1. \A n, k \in 0..m : n < k => f[n] < f[k]
    BY <1>1, RangesFacts, ZenonT(40)
  <2>2. (\A n \in 0..m : f[n] \in Nat) /\ \A n \in 1..m : f[n - 1] < f[n]
    BY <1>1 DEF Ascends
  <2>3. \A n \in 1..m : n - 1 \in 0..m /\ n \in 0..m
    BY <1>1
  <2> QED BY <2>1, <2>2, <2>3
<1> HIDE DEF m, f, J
<1>6. ASSUME NEW n \in 1..m, NEW k \in 1..f[n - 1] PROVE J(n)[k] = J(n - 1)[k]
  <2> DEFINE x == J(n - 1)
             y == Labels(P)[n]
  <2>1. x \in Seq(Char) /\ y \in Seq(Char) /\ Len(x) = f[n - 1] /\ J(n) = x \o y
    BY <1>2, <1>3, <1>5
  <2>2. f[n - 1] \in Nat
    BY <1>5
  <2> HIDE DEF x, y
  <2>3. k \in 1..Len(x) + Len(y) /\ k <= Len(x)
    <3>1. Len(y) \in Nat
      BY <2>1, LenProperties
    <3> QED BY <2>1, <2>2, <3>1
  <2>4. (x \o y)[k] = x[k]
    BY <2>1, <2>3, ConcatProperties
  <2> QED BY <2>1, <2>4 DEF x
<1> DEFINE U == {n \in 0..m : i <= n => \A k \in 1..f[i] : J(n)[k] = J(i)[k]}
<1>i. i \in 0..m
  BY DEF m
<1>7. 0 \in U
  <2>1. i <= 0 => i = 0
    BY <1>i
  <2> QED BY <1>1, <2>1
<1>8. \A n \in 1..m : n - 1 \in U => n \in U
  <2>1. SUFFICES ASSUME NEW n \in 1..m, n - 1 \in U, i <= n, NEW k \in 1..f[i]
                 PROVE  J(n)[k] = J(i)[k]
    BY <1>5
  <2>2. CASE i = n
    BY <2>2
  <2>3. CASE i # n
    <3>1. i <= n - 1
      BY <1>1, <1>i, <2>1, <2>3
    <3>2. J(n - 1)[k] = J(i)[k]
      BY <2>1, <3>1
    <3>3. k \in 1..f[n - 1]
      <4>1. f[i] \in Nat /\ f[n - 1] \in Nat /\ (i = n - 1 \/ f[i] < f[n - 1])
        BY <1>1, <1>5, <1>i, <3>1
      <4> QED BY <4>1
    <3> QED BY <1>6, <3>2, <3>3
  <2> QED BY <2>2, <2>3
<1>9. \A k \in 1..f[i] : J(m)[k] = J(i)[k]
  <2>1. m \in 0..m
    BY <1>1
  <2>2. m \in U
    <3> HIDE DEF U
    <3> QED BY <1>1, <1>7, <1>8, <2>1, Ascent
  <2>3. i <= m
    BY <1>1, <1>i
  <2> QED BY <2>2, <2>3
<1> QED BY <1>2, <1>4, <1>9, <1>i DEF J, f

\* Each piece stands where the ones before it end.
LEMMA PieceStands ==
  ASSUME NEW P, Composed(P), NEW i \in 1..Len(P)
  PROVE  StandsAt(Text(P), P[i].text, Ends(P)[i - 1])
<1> DEFINE m == Len(P)
           f == Ends(P)
           x == Joined(Labels(P), i - 1)
           y == P[i].text
<1>1. m \in Nat /\ i \in 0..m /\ i - 1 \in 0..m
  BY DEF Composed
<1>2. /\ Labels(P) \in Seq(Seq(Char)) /\ Len(Labels(P)) = m /\ Labels(P)[i] = y
      /\ Ascends(m, f) /\ f[i] = f[i - 1] + Len(y) /\ Len(y) \in Nat
      /\ Len(Text(P)) = f[m]
  BY EndsFacts
<1>3. x \in Seq(Char) /\ y \in Seq(Char) /\ Joined(Labels(P), i) = x \o y /\ Len(x) = f[i - 1]
  <2>1. i \in 1..Len(Labels(P)) /\ i - 1 \in 0..Len(Labels(P))
    BY <1>1, <1>2
  <2>2. x \in Seq(Char) /\ Joined(Labels(P), i) = x \o y
    BY <1>2, <2>1, JoinedFacts
  <2>3. y \in Seq(Char)
    BY DEF Composed, Meant
  <2>4. Len(x) = f[i - 1]
    BY <1>1 DEF Ends
  <2> QED BY <2>2, <2>3, <2>4
<1>4. \A k \in 1..f[i] : Text(P)[k] = Joined(Labels(P), i)[k]
  BY <1>1, TextBegins
<1>5. f[i - 1] \in Nat /\ f[i] \in Nat /\ f[m] \in Nat /\ f[i] <= f[m]
  <2>1. f[i] \in f[i - 1] + 1..f[m]
    BY <1>2, RangesFacts
  <2>2. f[i - 1] \in Nat /\ f[i] \in Nat /\ f[m] \in Nat
    <3>1. m \in 0..m
      BY <1>1
    <3> QED BY <1>1, <1>2, <3>1 DEF Ascends
  <2> QED BY <2>1, <2>2
<1> HIDE DEF m, f, x, y
<1>6. \A k \in 1..Len(y) : Text(P)[f[i - 1] + k] = y[k]
  <2> DEFINE z == x \o y
  <2>1. \A k \in 1..Len(x) + Len(y) : z[k] = IF k <= Len(x) THEN x[k] ELSE y[k - Len(x)]
    BY <1>3, ConcatProperties
  <2>2. Len(x) \in Nat /\ Len(y) \in Nat
    BY <1>2, <1>3, <1>5
  <2>z. Joined(Labels(P), i) = z
    BY <1>3
  <2> HIDE DEF z
  <2>3. TAKE k \in 1..Len(y)
  <2>4. z[Len(x) + k] = y[k]
    <3>1. /\ Len(x) + k \in 1..Len(x) + Len(y) /\ ~(Len(x) + k <= Len(x))
          /\ Len(x) + k - Len(x) = k
      BY <2>2
    <3>2. z[Len(x) + k] = y[Len(x) + k - Len(x)]
      BY <2>1, <3>1, SMTT(30)
    <3> QED BY <3>1, <3>2
  <2>5. f[i - 1] + k \in 1..f[i]
    BY <1>2, <1>5
  <2> QED BY <1>3, <1>4, <2>4, <2>5, <2>z
<1>7. f[i - 1] \in 0..(Len(Text(P)) - Len(y))
  BY <1>2, <1>5
<1> QED BY <1>6, <1>7 DEF StandsAt, f, y

\* What comes before a piece, as EntityOf takes it.
LEMMA BeforePiece ==
  ASSUME NEW P, Composed(P), NEW i \in 1..Len(P)
  PROVE  /\ Text(SubSeq(P, 1, i - 1)) = Joined(Labels(P), i - 1)
         /\ Units(Text(SubSeq(P, 1, i - 1)), Len(Text(SubSeq(P, 1, i - 1))))
              = Units(Text(P), Ends(P)[i - 1])
<1> DEFINE part == SubSeq(P, 1, i - 1)
           x == Joined(Labels(P), i - 1)
<1>1. /\ Len(P) \in Nat /\ DOMAIN P = 1..Len(P) /\ i - 1 \in 0..Len(P)
      /\ Labels(P) \in Seq(Seq(Char)) /\ Len(Labels(P)) = Len(P)
  BY EndsFacts DEF Composed
<1>2. /\ DOMAIN part = 1..i - 1 /\ \A k \in 1..i - 1 : part[k] = P[k]
  <2> DEFINE S == {P[k] : k \in 1..Len(P)}
  <2>1. \A k \in 1..i - 1 : k \in 1..Len(P) /\ P[k] \in S
    BY <1>1
  <2>2. i - 1 \in Int /\ 1 \in Int /\ i - 1 - 1 + 1 = i - 1 /\ (1 <= i - 1 \/ i - 1 = 0)
    BY <1>1
  <2> HIDE DEF S, part
  <2>3. /\ part \in Seq(S) /\ Len(part) = (IF 1 <= i - 1 THEN i - 1 - 1 + 1 ELSE 0)
        /\ \A k \in 1..i - 1 - 1 + 1 : part[k] = P[1 + k - 1]
    BY <2>1, <2>2, SubSeqProperties DEF part
  <2>4. Len(part) = i - 1
    BY <2>2, <2>3
  <2>5. \A k \in 1..i - 1 : 1 + k - 1 = k
    OBVIOUS
  <2>6. DOMAIN part = 1..i - 1
    BY <2>3, <2>4, LenProperties
  <2> QED BY <2>2, <2>3, <2>5, <2>6
<1>3. SubSeq(Labels(P), 1, i - 1) = [k \in 1..i - 1 |-> P[k].text]
  <2> DEFINE s == SubSeq(Labels(P), 1, i - 1)
  <2>1. i - 1 \in Int /\ 1 \in Int /\ 1 >= 1 /\ i - 1 <= Len(Labels(P)) /\ i - 1 >= 1 - 1
        /\ i - 1 - 1 + 1 = i - 1
    BY <1>1
  <2>2. /\ s \in Seq(Seq(Char)) /\ Len(s) = i - 1
        /\ \A k \in 1..i - 1 : s[k] = Labels(P)[1 + k - 1]
    BY <1>1, <2>1, PartFacts
  <2>3. \A k \in 1..i - 1 : 1 + k - 1 = k /\ k \in 1..Len(P) /\ Labels(P)[k] = P[k].text
    BY <1>1 DEF Labels
  <2>4. s \in [1..i - 1 -> Seq(Char)]
    BY <2>2, LenProperties
  <2> HIDE DEF s
  <2>5. \A k \in 1..i - 1 : s[k] = P[k].text
    BY <2>2, <2>3
  <2> QED BY <2>4, <2>5 DEF s
<1>4. Text(part) = x
  <2>1. [k \in DOMAIN part |-> part[k].text] = [k \in 1..i - 1 |-> P[k].text]
    BY <1>2
  <2> QED BY <1>3, <2>1 DEF Text, Joined
<1>5. x \in Seq(Char) /\ \A k \in 1..Ends(P)[i - 1] : Text(P)[k] = x[k]
  BY <1>1, TextBegins
<1>6. Ends(P)[i - 1] = Len(x) /\ Len(x) \in Nat
  BY <1>1, <1>5, LenProperties DEF Ends
<1>7. Units(x, Len(x)) = Units(Text(P), Ends(P)[i - 1])
  BY <1>5, <1>6, UnitsAgree
<1> QED BY <1>4, <1>7

\* The characters of a piece.
PlaceOf(P, i) == <<Ends(P)[i - 1] + 1, Ends(P)[i]>>

\* The entity of a piece covers its text, and a corrupt one nothing.
LEMMA PieceIsCovered ==
  ASSUME NEW P, Composed(P), NEW i \in 1..Len(P)
  PROVE  LET e == EntityOf(P, i)
             span == Utf16Span(Text(P), e.offset, e.length)
         IN /\ e.offset \in Int /\ e.length \in Int
            /\ P[i].kind # "corrupt" =>
                 span = PlaceOf(P, i) /\ span # NoSpan /\ Cut(Text(P), span) = P[i].text
            /\ P[i].kind = "corrupt" => span = NoSpan
<1> DEFINE e == EntityOf(P, i)
           T == Text(P)
           n == Ends(P)[i - 1]
           y == P[i].text
           k == Len(y)
           span == Utf16Span(T, e.offset, e.length)
<1>1. /\ T \in Seq(Char) /\ Len(T) \in Nat /\ k \in Nat /\ k > 0 /\ n \in Nat
      /\ Ends(P)[i] = n + k /\ y \in Seq(Char) /\ StandsAt(T, y, n)
  <2>1. T \in Seq(Char) /\ k \in Nat /\ k > 0 /\ Ends(P)[i] = n + k /\ Ascends(Len(P), Ends(P))
    BY EndsFacts
  <2>2. Len(P) \in Nat /\ i - 1 \in 0..Len(P) /\ y \in Seq(Char)
    BY DEF Composed, Meant
  <2>3. n \in Nat
    BY <2>1, <2>2 DEF Ascends
  <2>4. Len(T) \in Nat
    BY <2>1, LenProperties
  <2>5. StandsAt(T, y, n)
    BY PieceStands
  <2> QED BY <2>1, <2>2, <2>3, <2>4, <2>5
<1>2. /\ e.offset = Units(T, n)
      /\ e.length = IF P[i].kind = "corrupt" THEN Units(T, Len(T)) + 1 ELSE Units(y, k)
  BY BeforePiece DEF EntityOf
<1> HIDE DEF e, T, n, y, k
<1>3. Units(T, n) \in Nat /\ Units(T, Len(T)) \in Nat /\ Units(y, k) \in Nat
  BY <1>1, UnitsFacts
<1>4. CASE P[i].kind # "corrupt"
  <2>1. Utf16Units(y) = Units(y, k)
    BY <1>1, UnitsOfText DEF k
  <2>2. y # <<>>
    BY <1>1, EmptySeq DEF k
  <2>3. span = <<n + 1, n + k>> /\ span # NoSpan /\ Cut(T, span) = y
    <3>1. span = Utf16Span(T, Units(T, n), Utf16Units(y))
      BY <1>2, <1>4, <2>1
    <3> HIDE DEF span
    <3> QED BY <1>1, <2>2, <3>1, NameIsCovered DEF k
  <2>4. PlaceOf(P, i) = <<n + 1, n + k>>
    BY <1>1 DEF PlaceOf, n
  <2> QED BY <1>2, <1>3, <1>4, <2>3, <2>4 DEF e, T, y
<1>5. CASE P[i].kind = "corrupt"
  <2>1. span = NoSpan
    <3>1. SUFFICES ASSUME span # NoSpan PROVE FALSE
      OBVIOUS
    <3>2. e.offset \in Int /\ e.length \in Int /\ e.offset + e.length > Units(T, Len(T))
      BY <1>2, <1>3, <1>5
    <3>3. PICK q \in 1..Len(T) : Units(T, q) = e.offset + e.length
      <4>1. Spanned(T, e.offset, e.length, span[1], span[2])
        BY <1>1, <3>1, <3>2, SpanSound
      <4>2. span[2] \in 1..Len(T) /\ Units(T, span[2]) = e.offset + e.length
        BY <1>1, <4>1 DEF Spanned
      <4> QED BY <4>2
    <3>4. q \in Nat /\ (q = Len(T) \/ q < Len(T))
      BY <1>1
    <3>5. q < Len(T) => Units(T, q) < Units(T, Len(T))
      BY <1>1, <3>4, UnitsFacts
    <3>6. Units(T, q) \in Nat
      BY <3>4, UnitsFacts
    <3> QED BY <1>3, <3>2, <3>3, <3>4, <3>5, <3>6
  <2> QED BY <1>2, <1>3, <1>5, <2>1 DEF e, T
<1> QED BY <1>4, <1>5

\* The URL of a piece is what the piece means.
LEMMA PieceIsMeant ==
  ASSUME NEW P, Composed(P), NEW i \in 1..Len(P)
  PROVE  LET e == EntityOf(P, i)
             url == URLOf(Text(P), e)
         IN /\ url.offset = e.offset /\ url.length = e.length
            /\ P[i].kind # "literal" =>
                 /\ NormalizeURL(url.target) = P[i].means
                 /\ Linked(Text(P), e) <=> IsLink(P[i])
            /\ P[i].kind = "literal" => ~IsLink(P[i])
            /\ P[i].means \in Seq(Char)
<1> DEFINE e == EntityOf(P, i)
           T == Text(P)
           raw == Trim(IF P[i].kind = "url" THEN P[i].text ELSE P[i].url)
           target == CanonicalHTTPTarget(raw, P[i].kind = "url")
           url == URLOf(T, e)
<1>1. /\ P[i].kind \in {"literal", "url", "text_link", "corrupt"}
      /\ P[i].text \in Seq(Char) /\ P[i].text # <<>> /\ P[i].url \in Seq(Char)
      /\ P[i].means = IF P[i].kind = "literal" THEN <<>> ELSE NormalizeURL(target)
  BY DEF Composed, Meant, Meaning
<1>2. /\ e.type = IF P[i].kind = "url" THEN "url" ELSE "text_link"
      /\ e.url = P[i].url
  BY DEF EntityOf
<1>3. P[i].kind = "url" =>
        /\ Utf16Span(T, e.offset, e.length) # NoSpan
        /\ Cut(T, Utf16Span(T, e.offset, e.length)) = P[i].text
  BY PieceIsCovered
<1> HIDE DEF e, T
<1>4. url.target = target /\ url.offset = e.offset /\ url.length = e.length
  <2>1. (e.type = "url") <=> (P[i].kind = "url")
    BY <1>2
  <2>2. Trim(IF e.type = "text_link" THEN e.url
             ELSE IF Utf16Span(T, e.offset, e.length) = NoSpan THEN <<>>
             ELSE Cut(T, Utf16Span(T, e.offset, e.length))) = raw
    BY <1>2, <1>3
  <2> QED BY <2>1, <2>2 DEF URLOf
<1>5. raw \in Seq(Char)
  BY <1>1, TrimFacts
<1> HIDE DEF raw
<1>6. target \in Seq(Char)
  <2>1. <<>> \in Seq(Char) /\ "s" \in Char
    BY EmptySeq DEF Char
  <2>2. <<"s">> \in Seq(Char)
    BY <2>1
  <2>3. <<"s">> \o raw \in Seq(Char)
    BY <1>5, <2>2, ConcatProperties
  <2> QED BY <1>5, <2>1, <2>3 DEF CanonicalHTTPTarget, NoTarget
<1> HIDE DEF target, url
<1>7. NormalizeURL(target) \in Seq(Char) /\ (NormalizeURL(target) = <<>> <=> target = <<>>)
  <2> DEFINE n == Len(target)
             v == NormalizeURL(target)
  <2>1. n \in Nat /\ DOMAIN target = 1..n /\ \A k \in 1..n : target[k] \in Char
    BY <1>6, LenProperties, ElementOfSeq
  <2>2. v = [k \in 1..n |-> IF target[k] = "H" /\ InHost(target, k)
                           THEN "h" ELSE target[k]]
    BY <2>1 DEF NormalizeURL
  <2>3. v \in [1..n -> Char]
    <3>1. "h" \in Char
      BY DEF Char
    <3> QED BY <2>1, <2>2, <3>1
  <2> HIDE DEF v
  <2>4. v \in Seq(Char) /\ Len(v) = n
    <3> HIDE DEF n
    <3> QED BY <2>1, <2>3, SeqOfFunction
  <2>5. (v = <<>> <=> n = 0) /\ (target = <<>> <=> n = 0)
    <3>1. Len(<<>>) = 0 /\ (v # <<>> => Len(v) # 0) /\ (target # <<>> => Len(target) # 0)
      BY <1>6, <2>4, EmptySeq
    <3> QED BY <2>4, <3>1
  <2> QED BY <2>4, <2>5 DEF v
<1>8. P[i].means \in Seq(Char)
  BY <1>1, <1>7, EmptySeq
<1>9. P[i].kind # "literal" => (Linked(T, e) <=> IsLink(P[i]))
  <2>1. e.type \in {"url", "text_link"}
    BY <1>2
  <2> QED BY <1>1, <1>4, <1>7, <2>1 DEF Linked, IsLink, NoTarget, url
<1>10. P[i].kind = "literal" => ~IsLink(P[i])
  BY <1>1 DEF IsLink
<1> QED BY <1>1, <1>4, <1>8, <1>9, <1>10 DEF e, T, url

-----------------------------------------------------------------------------
(* Messages: the loops over the entities and the URLs, and the two results.*)

\* The numbers of a set in ascending order.
Increasing(e, n, Q) ==
  /\ n \in Nat /\ e \in [1..n -> Q]
  /\ \A j, k \in 1..n : j < k => e[j] < e[k]
  /\ \A i \in Q : \E k \in 1..n : e[k] = i

\* There is one such order.
LEMMA BeginsLike ==
  ASSUME NEW Q \in SUBSET Nat, NEW n, NEW e, Increasing(e, n, Q),
         NEW m, NEW f, Increasing(f, m, Q)
  PROVE  n <= m /\ \A k \in 1..n : e[k] = f[k]
<1>1. /\ n \in Nat /\ m \in Nat /\ e \in [1..n -> Q] /\ f \in [1..m -> Q]
      /\ \A j, k \in 1..n : j < k => e[j] < e[k]
      /\ \A j, k \in 1..m : j < k => f[j] < f[k]
      /\ \A i \in Q : \E k \in 1..n : e[k] = i
      /\ \A i \in Q : \E k \in 1..m : f[k] = i
  BY DEF Increasing
<1>2. (\A k \in 1..n : e[k] \in Q /\ e[k] \in Nat) /\ \A k \in 1..m : f[k] \in Q /\ f[k] \in Nat
  BY <1>1
<1> DEFINE U == {k \in 0..n : k <= m /\ \A j \in 1..k : e[j] = f[j]}
<1>3. 0 \in U
  BY <1>1
<1>4. \A k \in 1..n : k - 1 \in U => k \in U
  <2>1. SUFFICES ASSUME NEW k \in 1..n, k - 1 \in U PROVE k <= m /\ e[k] = f[k]
    <3>1. \A k \in 1..n : \A j \in 1..k : j \in 1..k - 1 \/ j = k
      BY <1>1
    <3>2. \A k \in 1..n : k \in 0..n
      BY <1>1
    <3> QED BY <3>1, <3>2
  <2>2. \A j \in 1..k - 1 : j \in 1..n /\ j \in 1..m /\ j < k /\ e[j] = f[j]
    BY <1>1, <2>1
  <2>3. PICK l \in 1..m : f[l] = e[k]
    BY <1>1, <1>2, <2>1
  <2>4. k <= l
    <3>1. SUFFICES ASSUME l < k PROVE FALSE
      BY <1>1
    <3>2. l \in 1..k - 1
      BY <1>1, <3>1
    <3>3. e[l] = f[l] /\ l \in 1..n /\ e[l] < e[k]
      BY <1>1, <2>2, <3>2
    <3> QED BY <1>2, <2>3, <3>3
  <2>5. k \in 1..m
    BY <1>1, <2>4
  <2>6. f[k] <= e[k]
    <3>1. k = l \/ k < l
      BY <1>1, <2>4
    <3>2. k < l => f[k] < f[l]
      BY <1>1, <2>5
    <3> QED BY <1>2, <2>3, <2>5, <3>1, <3>2
  <2>7. PICK j \in 1..n : e[j] = f[k]
    BY <1>1, <1>2, <2>5
  <2>8. k <= j
    <3>1. SUFFICES ASSUME j < k PROVE FALSE
      BY <1>1
    <3>2. j \in 1..k - 1
      BY <1>1, <3>1
    <3>3. e[j] = f[j] /\ j \in 1..m /\ f[j] < f[k]
      BY <1>1, <2>2, <2>5, <3>2
    <3> QED BY <1>2, <2>5, <2>7, <3>3
  <2>9. e[k] <= f[k]
    <3>1. k = j \/ k < j
      BY <1>1, <2>8
    <3>2. k < j => e[k] < e[j]
      BY <1>1
    <3> QED BY <1>2, <2>7, <3>1, <3>2
  <2>10. e[k] \in Nat /\ f[k] \in Nat
    BY <1>2, <2>5
  <2> QED BY <2>5, <2>6, <2>9, <2>10
<1>5. n \in U
  <2>1. n \in 0..n
    BY <1>1
  <2> HIDE DEF U
  <2> QED BY <1>1, <1>3, <1>4, <2>1, Ascent
<1> QED BY <1>5

\* Two of them are the same.
LEMMA IncreasingIsUnique ==
  ASSUME NEW Q \in SUBSET Nat, NEW n, NEW e, Increasing(e, n, Q),
         NEW m, NEW f, Increasing(f, m, Q)
  PROVE  n = m /\ \A k \in 1..n : e[k] = f[k]
<1>1. n \in Nat /\ m \in Nat
  BY DEF Increasing
<1>2. n <= m /\ \A k \in 1..n : e[k] = f[k]
  BY BeginsLike
<1>3. m <= n
  BY BeginsLike
<1> QED BY <1>1, <1>2, <1>3

\* A loop over 1..m that appends x[i] for each i in Q.
Appends(m, Q, x, n, e) ==
  /\ Increasing(e, n, Q)
  /\ FlattenSeq([i \in 1..m |-> OneIf(i \in Q, x[i])]) = [k \in 1..n |-> x[e[k]]]

\* What a loop appends, in the order in which it comes by.
LEMMA LoopAppends ==
  ASSUME NEW m \in Nat, NEW Q \in SUBSET (1..m), NEW x
  PROVE  \E n, e : Appends(m, Q, x, n, e)
<1> DEFINE X == {x[i] : i \in 1..m}
           cells == [i \in 1..m |-> OneIf(i \in Q, x[i])]
           J(j) == Joined(cells, j)
<1>1. cells \in Seq(Seq(X)) /\ Len(cells) = m
  <2>1. \A i \in 1..m : cells[i] \in Seq(X)
    <3>1. TAKE i \in 1..m
    <3>2. x[i] \in X
      OBVIOUS
    <3> HIDE DEF X
    <3> QED BY <3>2 DEF OneIf
  <2>2. cells \in [1..m -> Seq(X)]
    BY <2>1
  <2> HIDE DEF cells, X
  <2> QED BY <2>2, SeqOfFunction
<1>2. \A i \in 1..m : cells[i] = IF i \in Q THEN <<x[i]>> ELSE <<>>
  BY DEF OneIf
<1>x. \A i \in 1..m : x[i] \in X
  OBVIOUS
<1> HIDE DEF cells, X
<1>3. /\ \A j \in 0..m : J(j) \in Seq(X)
      /\ J(0) = <<>> /\ J(m) = FlattenSeq(cells)
      /\ \A j \in 1..m : J(j) = J(j - 1) \o cells[j]
  BY <1>1, JoinedFacts
<1> HIDE DEF J
<1> DEFINE Made(j, n, e) == Increasing(e, n, Upto(Q, j)) /\ J(j) = [k \in 1..n |-> x[e[k]]]
           U == {j \in 0..m : \E n, e : Made(j, n, e)}
<1>4. 0 \in U
  <2> DEFINE e == [k \in 1..0 |-> 0]
  <2>1. Upto(Q, 0) = {}
    BY DEF Upto
  <2>2. Increasing(e, 0, Upto(Q, 0))
    BY <2>1 DEF Increasing
  <2>3. [k \in 1..0 |-> x[e[k]]] = <<>>
    OBVIOUS
  <2> HIDE DEF e
  <2>4. Made(0, 0, e)
    BY <1>3, <2>2, <2>3
  <2>5. 0 \in 0..m /\ \E n, f : Made(0, n, f)
    <3> HIDE DEF Made
    <3>1. \E n, f : Made(0, n, f)
      BY <2>4, Zenon
    <3> QED BY <3>1
  <2> QED BY <2>5
<1>5. \A j \in 1..m : j - 1 \in U => j \in U
  <2>1. SUFFICES ASSUME NEW j \in 1..m, j - 1 \in U PROVE \E n, e : Made(j, n, e)
    <3>1. \A j \in 1..m : j \in 0..m
      OBVIOUS
    <3> HIDE DEF Made
    <3> QED BY <3>1, Zenon
  <2>2. PICK n, e : Made(j - 1, n, e)
    <3> HIDE DEF Made
    <3> QED BY <2>1, Zenon
  <2>3. /\ n \in Nat /\ e \in [1..n -> Upto(Q, j - 1)] /\ J(j - 1) = [k \in 1..n |-> x[e[k]]]
        /\ \A a, b \in 1..n : a < b => e[a] < e[b]
        /\ \A i \in Upto(Q, j - 1) : \E k \in 1..n : e[k] = i
    BY <2>2 DEF Increasing
  <2>4. J(j) = J(j - 1) \o cells[j] /\ J(j - 1) \in Seq(X)
    <3>1. j - 1 \in 0..m
      OBVIOUS
    <3> QED BY <1>3, <3>1
  <2>5. CASE j \notin Q
    <3>1. Upto(Q, j) = Upto(Q, j - 1)
      BY <2>5 DEF Upto
    <3>2. J(j) = J(j - 1)
      BY <1>2, <2>4, <2>5, ConcatEmptySeq
    <3>3. Made(j, n, e)
      BY <2>2, <3>1, <3>2
    <3> HIDE DEF Made
    <3> QED BY <3>3, Zenon
  <2>6. CASE j \in Q
    <3> DEFINE f == [k \in 1..n + 1 |-> IF k <= n THEN e[k] ELSE j]
    <3>1. /\ \A i \in Upto(Q, j - 1) : i \in Upto(Q, j) /\ i \in Nat /\ i < j
          /\ \A i \in Upto(Q, j) : i \in Upto(Q, j - 1) \/ i = j
          /\ j \in Upto(Q, j) /\ j \in Nat
      BY <2>6 DEF Upto
    <3>2. \A k \in 1..n : e[k] \in Upto(Q, j - 1) /\ k \in 1..n + 1 /\ k <= n /\ f[k] = e[k]
      BY <2>3
    <3>3. f[n + 1] = j /\ n + 1 \in 1..n + 1 /\ n + 1 \in Nat
      BY <2>3
    <3>4. \A k \in 1..n + 1 : k \in 1..n \/ k = n + 1
      BY <2>3
    <3>5. f \in [1..n + 1 -> Upto(Q, j)]
      <4>1. \A k \in 1..n + 1 : f[k] \in Upto(Q, j)
        <5> HIDE DEF f
        <5> QED BY <3>1, <3>2, <3>3, <3>4
      <4> QED BY <4>1
    <3> HIDE DEF f
    <3>6. \A a, b \in 1..n + 1 : a < b => f[a] < f[b]
      <4>1. TAKE a, b \in 1..n + 1
      <4>2. SUFFICES ASSUME a < b PROVE f[a] < f[b]
        OBVIOUS
      <4>3. a \in 1..n
        BY <2>3, <4>2
      <4>4. CASE b \in 1..n
        BY <2>3, <3>2, <4>2, <4>3, <4>4
      <4>5. CASE b = n + 1
        BY <3>1, <3>2, <3>3, <4>3, <4>5
      <4> QED BY <3>4, <4>4, <4>5
    <3>7. \A i \in Upto(Q, j) : \E k \in 1..n + 1 : f[k] = i
      <4>1. TAKE i \in Upto(Q, j)
      <4>2. CASE i = j
        BY <3>3, <4>2
      <4>3. CASE i \in Upto(Q, j - 1)
        <5>1. PICK k \in 1..n : e[k] = i
          BY <2>3, <4>3
        <5> QED BY <3>2, <5>1
      <4> QED BY <3>1, <4>2, <4>3
    <3>8. Increasing(f, n + 1, Upto(Q, j))
      BY <3>3, <3>5, <3>6, <3>7 DEF Increasing
    <3>9. J(j) = [k \in 1..n + 1 |-> x[f[k]]]
      <4> DEFINE s == J(j - 1)
                 t == <<x[j]>>
                 u == [k \in 1..n + 1 |-> x[f[k]]]
      <4>1. s \in Seq(X) /\ Len(s) = n /\ \A k \in 1..n : s[k] = x[e[k]]
        <5>1. DOMAIN s = 1..n /\ \A k \in 1..n : s[k] = x[e[k]]
          BY <2>3
        <5>2. Len(s) \in Nat /\ DOMAIN s = 1..Len(s)
          BY <2>4, LenProperties
        <5> HIDE DEF s
        <5> QED BY <2>3, <2>4, <5>1, <5>2 DEF s
      <4>2. t \in Seq(X) /\ Len(t) = 1 /\ t[1] = x[j]
        <5>1. x[j] \in X
          BY <1>x
        <5> QED BY <5>1
      <4>3. u \in Seq(X) /\ Len(u) = n + 1 /\ \A k \in 1..n + 1 : u[k] = x[f[k]]
        <5>1. \A k \in 1..n + 1 : f[k] \in 1..m
          BY <3>5 DEF Upto
        <5>2. u \in [1..n + 1 -> X]
          BY <1>x, <5>1
        <5>3. \A k \in 1..n + 1 : u[k] = x[f[k]]
          OBVIOUS
        <5> HIDE DEF u
        <5> QED BY <3>3, <5>2, <5>3, SeqOfFunction
      <4>4. J(j) = s \o t
        BY <1>2, <2>4, <2>6
      <4> HIDE DEF s, t, u
      <4> DEFINE z == s \o t
      <4>z. /\ z \in Seq(X) /\ Len(z) = Len(s) + Len(t)
            /\ \A k \in 1..Len(s) + Len(t) : z[k] = IF k <= Len(s) THEN s[k] ELSE t[k - Len(s)]
        BY <4>1, <4>2, ConcatProperties
      <4>y. s \o t = z
        OBVIOUS
      <4> HIDE DEF z
      <4>5. /\ z \in Seq(X) /\ Len(z) = n + 1
            /\ \A k \in 1..n + 1 : z[k] = IF k <= n THEN s[k] ELSE t[k - n]
        <5>1. Len(s) + Len(t) = n + 1 /\ Len(s) = n
          BY <2>3, <4>1, <4>2
        <5>2. /\ z \in Seq(X) /\ Len(z) = n + 1
              /\ \A k \in 1..n + 1 : z[k] = IF k <= Len(s) THEN s[k] ELSE t[k - Len(s)]
          BY <4>z, <5>1
        <5> QED BY <5>1, <5>2
      <4>6. \A k \in 1..n + 1 : z[k] = u[k]
        <5>1. TAKE k \in 1..n + 1
        <5>2. CASE k \in 1..n
          BY <3>2, <4>1, <4>3, <4>5, <5>2
        <5>3. CASE k = n + 1
          <6>1. ~(k <= n) /\ k - n = 1
            BY <2>3, <5>3
          <6>2. z[k] = t[1]
            BY <4>5, <6>1
          <6> QED BY <3>3, <4>2, <4>3, <5>3, <6>2
        <5> QED BY <3>4, <5>2, <5>3
      <4>7. z = u
        BY <4>3, <4>5, <4>6, SeqEqual
      <4> QED BY <4>4, <4>7, <4>y DEF u
    <3>10. Made(j, n + 1, f)
      BY <3>8, <3>9
    <3> HIDE DEF Made
    <3> QED BY <3>10, Zenon
  <2> QED BY <2>5, <2>6
<1>6. m \in U
  <2>1. m \in 0..m
    OBVIOUS
  <2> HIDE DEF U
  <2> QED BY <1>4, <1>5, <2>1, Ascent
<1>7. PICK n, e : Increasing(e, n, Upto(Q, m)) /\ J(m) = [k \in 1..n |-> x[e[k]]]
  BY <1>6
<1>8. Upto(Q, m) = Q
  BY DEF Upto
<1>9. FlattenSeq(cells) = [k \in 1..n |-> x[e[k]]] /\ Increasing(e, n, Q)
  BY <1>3, <1>7, <1>8
<1>10. FlattenSeq([i \in 1..m |-> OneIf(i \in Q, x[i])]) = [k \in 1..n |-> x[e[k]]]
  BY <1>9 DEF cells
<1>11. Appends(m, Q, x, n, e)
  BY <1>9, <1>10 DEF Appends
<1> QED BY <1>11, Zenon

\* An order of what is taken from an order.
LEMMA IncreasingTaken ==
  ASSUME NEW Q \in SUBSET Nat, NEW n, NEW e, Increasing(e, n, Q),
         NEW R \in SUBSET (1..n), NEW m, NEW f, Increasing(f, m, R)
  PROVE  Increasing([k \in 1..m |-> e[f[k]]], m, {e[r] : r \in R})
<1> DEFINE g == [k \in 1..m |-> e[f[k]]]
           V == {e[r] : r \in R}
<1>1. /\ n \in Nat /\ e \in [1..n -> Q] /\ \A j, k \in 1..n : j < k => e[j] < e[k]
      /\ m \in Nat /\ f \in [1..m -> R] /\ \A j, k \in 1..m : j < k => f[j] < f[k]
      /\ \A i \in R : \E k \in 1..m : f[k] = i
  BY DEF Increasing
<1>2. \A k \in 1..m : f[k] \in R /\ f[k] \in 1..n
  BY <1>1
<1>3. g \in [1..m -> V]
  BY <1>2
<1>4. \A j, k \in 1..m : j < k => g[j] < g[k]
  <2>1. TAKE j, k \in 1..m
  <2>2. j < k => f[j] < f[k]
    BY <1>1
  <2> QED BY <1>1, <1>2, <2>2
<1>5. \A i \in V : \E k \in 1..m : g[k] = i
  <2>1. TAKE i \in V
  <2>2. PICK r \in R : i = e[r]
    OBVIOUS
  <2>3. PICK k \in 1..m : f[k] = r
    BY <1>1
  <2> QED BY <2>2, <2>3
<1> HIDE DEF g, V
<1>6. Increasing(g, m, V)
  BY <1>1, <1>3, <1>4, <1>5 DEF Increasing
<1> QED BY <1>6 DEF g, V

\* The pieces with an entity, with an accepted URL, and with one that has a place.
Entities(P) == {i \in 1..Len(P) : P[i].kind # "literal"}
Links(P) == {i \in 1..Len(P) : IsLink(P[i])}
Placeable(P) == {i \in 1..Len(P) : IsLink(P[i]) /\ P[i].kind # "corrupt"}

\* The entities of a message, in the order of its pieces.
EntitiesOf(P, n, e) ==
  /\ Increasing(e, n, Entities(P))
  /\ Message(P).entities = [k \in 1..n |-> EntityOf(P, e[k])]

\* Message lists them so.
LEMMA MessageEntities ==
  ASSUME NEW P, Composed(P)
  PROVE  \E n, e : EntitiesOf(P, n, e)
<1> DEFINE m == Len(P)
           Q == Entities(P)
           x == [i \in 1..m |-> EntityOf(P, i)]
<1>1. m \in Nat /\ DOMAIN P = 1..m
  BY DEF Composed
<1>2. Q \in SUBSET (1..m) /\ \A i \in 1..m : i \in Q <=> P[i].kind # "literal"
  BY DEF Entities
<1>3. \A i \in 1..m : x[i] = EntityOf(P, i)
  OBVIOUS
<1> HIDE DEF Q, x
<1>4. PICK n, e : Appends(m, Q, x, n, e)
  BY <1>1, <1>2, LoopAppends, Zenon
<1>5. Message(P).entities = FlattenSeq([i \in 1..m |-> OneIf(i \in Q, x[i])])
  <2>1. [i \in DOMAIN P |-> OneIf(P[i].kind # "literal", EntityOf(P, i))]
          = [i \in 1..m |-> OneIf(i \in Q, x[i])]
    BY <1>1, <1>2, <1>3 DEF OneIf
  <2> QED BY <2>1 DEF Message
<1>6. Increasing(e, n, Q) /\ n \in Nat /\ \A k \in 1..n : e[k] \in 1..m
  BY <1>2, <1>4 DEF Appends, Increasing
<1>7. Message(P).entities = [k \in 1..n |-> x[e[k]]]
  BY <1>4, <1>5 DEF Appends
<1>8. [k \in 1..n |-> x[e[k]]] = [k \in 1..n |-> EntityOf(P, e[k])]
  BY <1>3, <1>6
<1>9. EntitiesOf(P, n, e)
  BY <1>6, <1>7, <1>8 DEF EntitiesOf, Q
<1> QED BY <1>9, Zenon

\* The URLs that are accepted in a message, in the order of its pieces.
UrlsOf(P, n, e) ==
  /\ Increasing(e, n, Links(P))
  /\ ExtractURLs(Message(P)) = [k \in 1..n |-> URLOf(Text(P), EntityOf(P, e[k]))]

\* A message without text has no pieces.
LEMMA NoTextNoPieces ==
  ASSUME NEW P, Composed(P), Text(P) = <<>>
  PROVE  Len(P) = 0
<1> DEFINE m == Len(P)
           f == Ends(P)
<1>1. m \in Nat
  BY DEF Composed
<1>2. Ascends(m, f) /\ Len(Text(P)) = f[m]
  BY EndsFacts
<1>3. f[m] = 0
  BY <1>2, EmptySeq
<1>4. f[0] = 0 /\ \A i, j \in 0..m : i < j => f[i] < f[j]
  <2> HIDE DEF m, f
  <2> QED BY <1>2, RangesFacts DEF Ascends
<1>5. 0 \in 0..m /\ m \in 0..m
  BY <1>1
<1>6. SUFFICES ASSUME 0 < m PROVE FALSE
  BY <1>1
<1> QED BY <1>3, <1>4, <1>5, <1>6

\* ExtractURLs finds them, also in a message without text.
LEMMA MessageURLs ==
  ASSUME NEW P, Composed(P)
  PROVE  \E n, e : UrlsOf(P, n, e)
<1> DEFINE m == Len(P)
           T == Text(P)
           es == Message(P).entities
<1>1. m \in Nat /\ DOMAIN P = 1..m
  BY DEF Composed
<1>2. Message(P).text = T
  BY DEF Message
<1>3. CASE T = <<>>
  <2>1. m = 0
    BY <1>3, NoTextNoPieces
  <2> DEFINE e == [k \in 1..0 |-> 0]
  <2>2. Links(P) = {}
    BY <2>1 DEF Links
  <2>3. Increasing(e, 0, Links(P))
    BY <2>2 DEF Increasing
  <2>4. ExtractURLs(Message(P)) = <<>>
    BY <1>2, <1>3 DEF ExtractURLs
  <2>5. [k \in 1..0 |-> URLOf(T, EntityOf(P, e[k]))] = <<>>
    OBVIOUS
  <2> HIDE DEF e
  <2>6. UrlsOf(P, 0, e)
    BY <2>3, <2>4, <2>5 DEF UrlsOf
  <2> QED BY <2>6, Zenon
<1>4. CASE T # <<>>
  <2>1. PICK n1, e1 : EntitiesOf(P, n1, e1)
    BY MessageEntities, Zenon
  <2>2. /\ Increasing(e1, n1, Entities(P)) /\ n1 \in Nat
        /\ \A k \in 1..n1 : e1[k] \in Entities(P)
        /\ \A i \in Entities(P) : \E k \in 1..n1 : e1[k] = i
        /\ es = [k \in 1..n1 |-> EntityOf(P, e1[k])]
    BY <2>1 DEF EntitiesOf, Increasing
  <2> DEFINE Q == {k \in 1..n1 : Linked(T, es[k])}
             x == [k \in 1..n1 |-> URLOf(T, es[k])]
  <2>3. Q \in SUBSET (1..n1) /\ \A k \in 1..n1 : k \in Q <=> Linked(T, es[k])
    OBVIOUS
  <2>4. \A k \in 1..n1 : x[k] = URLOf(T, es[k]) /\ es[k] = EntityOf(P, e1[k])
    BY <2>2
  <2>5. ExtractURLs(Message(P)) = FlattenSeq([k \in 1..n1 |-> OneIf(k \in Q, x[k])])
    <3>1. DOMAIN es = 1..n1
      BY <2>2
    <3>2. [k \in DOMAIN es |-> OneIf(Linked(T, es[k]), URLOf(T, es[k]))]
            = [k \in 1..n1 |-> OneIf(k \in Q, x[k])]
      BY <2>3, <2>4, <3>1 DEF OneIf
    <3>3. ExtractURLs(Message(P))
            = FlattenSeq([k \in DOMAIN es |-> OneIf(Linked(T, es[k]), URLOf(T, es[k]))])
      BY <1>2, <1>4 DEF ExtractURLs
    <3> QED BY <3>2, <3>3
  <2> HIDE DEF Q, x, es, T, m
  <2>6. PICK n, f : Appends(n1, Q, x, n, f)
    BY <2>2, <2>3, LoopAppends, Zenon
  <2>7. /\ Increasing(f, n, Q) /\ n \in Nat
        /\ \A k \in 1..n : f[k] \in Q /\ f[k] \in 1..n1
        /\ ExtractURLs(Message(P)) = [k \in 1..n |-> x[f[k]]]
    BY <2>3, <2>5, <2>6 DEF Appends, Increasing
  <2> DEFINE e == [k \in 1..n |-> e1[f[k]]]
             V == {e1[r] : r \in Q}
  <2>8. Increasing(e, n, V)
    <3>1. Entities(P) \in SUBSET Nat
      BY DEF Entities
    <3>2. Increasing(e1, n1, Entities(P)) /\ Increasing(f, n, Q)
      BY <2>2, <2>7
    <3>3. Increasing([k \in 1..n |-> e1[f[k]]], n, {e1[r] : r \in Q})
      BY <2>3, <3>1, <3>2, IncreasingTaken, Zenon
    <3> QED BY <3>3
  <2>9. V = Links(P)
    <3>1. \A k \in 1..n1 : /\ e1[k] \in 1..Len(P) /\ P[e1[k]].kind # "literal"
                           /\ k \in Q <=> Linked(T, EntityOf(P, e1[k]))
      BY <2>2, <2>3, <2>4 DEF Entities
    <3>2. \A k \in 1..n1 : k \in Q <=> IsLink(P[e1[k]])
      BY <3>1, PieceIsMeant DEF T
    <3>3. ASSUME NEW i \in V PROVE i \in Links(P)
      BY <2>3, <3>1, <3>2 DEF Links
    <3>4. ASSUME NEW i \in Links(P) PROVE i \in V
      <4>1. i \in 1..Len(P) /\ IsLink(P[i])
        BY DEF Links
      <4>2. i \in Entities(P)
        BY <4>1, PieceIsMeant DEF Entities
      <4>3. PICK k \in 1..n1 : e1[k] = i
        BY <2>2, <4>2
      <4> QED BY <3>2, <4>1, <4>3
    <3> QED BY <3>3, <3>4
  <2>10. ExtractURLs(Message(P)) = [k \in 1..n |-> URLOf(T, EntityOf(P, e[k]))]
    <3>1. \A k \in 1..n : x[f[k]] = URLOf(T, EntityOf(P, e1[f[k]])) /\ e[k] = e1[f[k]]
      BY <2>4, <2>7
    <3> HIDE DEF e
    <3> QED BY <2>7, <3>1
  <2> HIDE DEF e
  <2>11. UrlsOf(P, n, e)
    BY <2>8, <2>9, <2>10 DEF UrlsOf, T
  <2> QED BY <2>11, Zenon
<1> QED BY <1>3, <1>4

\* The URLs of a fingerprint are those of the pieces that are links, in order.
LEMMA UrlsAreInOrder ==
  ASSUME NEW P, Composed(P), NEW rule
  PROVE  Fingerprint(Message(P), rule).urls
           = FlattenSeq([i \in DOMAIN P |-> OneIf(IsLink(P[i]), P[i].means)])
<1> DEFINE m == Len(P)
           Q == Links(P)
           x == [i \in 1..m |-> P[i].means]
           urls == ExtractURLs(Message(P))
<1>1. m \in Nat /\ DOMAIN P = 1..m
  BY DEF Composed
<1>2. /\ Q \in SUBSET (1..m) /\ Q \in SUBSET Nat
      /\ \A i \in 1..m : i \in Q <=> IsLink(P[i])
  BY DEF Links
<1>3. \A i \in 1..m : x[i] = P[i].means
  OBVIOUS
<1>4. FlattenSeq([i \in DOMAIN P |-> OneIf(IsLink(P[i]), P[i].means)])
        = FlattenSeq([i \in 1..m |-> OneIf(i \in Q, x[i])])
  <2>1. [i \in DOMAIN P |-> OneIf(IsLink(P[i]), P[i].means)]
          = [i \in 1..m |-> OneIf(i \in Q, x[i])]
    BY <1>1, <1>2, <1>3 DEF OneIf
  <2> QED BY <2>1
<1>5. PICK n, e : UrlsOf(P, n, e)
  BY MessageURLs, Zenon
<1> HIDE DEF x, Q, urls, m
<1>6. PICK n2, f : Appends(m, Q, x, n2, f)
  BY <1>1, <1>2, LoopAppends, Zenon
<1>7. /\ Increasing(e, n, Q) /\ n \in Nat /\ \A k \in 1..n : e[k] \in Q
      /\ urls = [k \in 1..n |-> URLOf(Text(P), EntityOf(P, e[k]))]
  BY <1>5 DEF UrlsOf, Increasing, Q, urls
<1>8. /\ Increasing(f, n2, Q)
      /\ FlattenSeq([i \in 1..m |-> OneIf(i \in Q, x[i])]) = [k \in 1..n2 |-> x[f[k]]]
  BY <1>6 DEF Appends
<1>9. n = n2 /\ \A k \in 1..n : e[k] = f[k]
  BY <1>2, <1>7, <1>8, IncreasingIsUnique
<1>10. \A k \in 1..n : NormalizeURL(urls[k].target) = x[f[k]]
  <2>1. TAKE k \in 1..n
  <2>2. e[k] \in 1..Len(P) /\ IsLink(P[e[k]])
    BY <1>2, <1>7 DEF m
  <2>3. P[e[k]].kind # "literal"
    BY <2>2, PieceIsMeant
  <2>4. NormalizeURL(URLOf(Text(P), EntityOf(P, e[k])).target) = P[e[k]].means
    BY <2>2, <2>3, PieceIsMeant
  <2>5. urls[k] = URLOf(Text(P), EntityOf(P, e[k]))
    BY <1>7
  <2> QED BY <1>3, <1>9, <2>2, <2>4, <2>5 DEF m
<1>11. Fingerprint(Message(P), rule).urls = [k \in DOMAIN urls |-> NormalizeURL(urls[k].target)]
  BY DEF Fingerprint, urls
<1>12. DOMAIN urls = 1..n
  BY <1>7
<1>13. [k \in DOMAIN urls |-> NormalizeURL(urls[k].target)] = [k \in 1..n2 |-> x[f[k]]]
  BY <1>9, <1>10, <1>12
<1> QED BY <1>4, <1>8, <1>11, <1>13

\* The spans of the URLs of a message are the places of its pieces.
LEMMA SpansArePlaces ==
  ASSUME NEW P, Composed(P)
  PROVE  /\ Spans(Text(P), ExtractURLs(Message(P))) = {PlaceOf(P, i) : i \in Placeable(P)}
         /\ ExtractURLs(Message(P)) = <<>> <=> Links(P) = {}
<1> DEFINE T == Text(P)
           urls == ExtractURLs(Message(P))
           found(k) == Utf16Span(T, urls[k].offset, urls[k].length)
<1>1. PICK n, e : UrlsOf(P, n, e)
  BY MessageURLs, Zenon
<1>2. /\ n \in Nat /\ \A k \in 1..n : e[k] \in Links(P)
      /\ \A i \in Links(P) : \E k \in 1..n : e[k] = i
      /\ urls = [k \in 1..n |-> URLOf(T, EntityOf(P, e[k]))]
  BY <1>1 DEF UrlsOf, Increasing
<1> HIDE DEF urls
<1>3. DOMAIN urls = 1..n
  BY <1>2
<1>4. ASSUME NEW k \in 1..n
      PROVE  /\ found(k) # NoSpan => e[k] \in Placeable(P) /\ found(k) = PlaceOf(P, e[k])
             /\ e[k] \in Placeable(P) => found(k) # NoSpan /\ found(k) = PlaceOf(P, e[k])
  <2>1. e[k] \in 1..Len(P) /\ IsLink(P[e[k]])
    BY <1>2 DEF Links
  <2>2. urls[k] = URLOf(T, EntityOf(P, e[k]))
    BY <1>2
  <2>3. urls[k].offset = EntityOf(P, e[k]).offset /\ urls[k].length = EntityOf(P, e[k]).length
    BY <2>1, <2>2, PieceIsMeant
  <2>4. /\ P[e[k]].kind # "corrupt" => found(k) = PlaceOf(P, e[k]) /\ found(k) # NoSpan
        /\ P[e[k]].kind = "corrupt" => found(k) = NoSpan
    BY <2>1, <2>3, PieceIsCovered
  <2>5. e[k] \in Placeable(P) <=> P[e[k]].kind # "corrupt"
    BY <2>1 DEF Placeable
  <2> HIDE DEF found
  <2> QED BY <2>4, <2>5
<1>5. Spans(T, urls) = {found(k) : k \in 1..n} \ {NoSpan}
  BY <1>3 DEF Spans
<1> HIDE DEF found
<1>6. ASSUME NEW s \in Spans(T, urls) PROVE s \in {PlaceOf(P, i) : i \in Placeable(P)}
  <2>1. PICK k \in 1..n : s = found(k) /\ s # NoSpan
    BY <1>5
  <2> QED BY <1>4, <2>1
<1>7. ASSUME NEW i \in Placeable(P) PROVE PlaceOf(P, i) \in Spans(T, urls)
  <2>1. i \in Links(P)
    BY DEF Placeable, Links
  <2>2. PICK k \in 1..n : e[k] = i
    BY <1>2, <2>1
  <2> QED BY <1>4, <1>5, <2>2
<1>8. Spans(T, urls) = {PlaceOf(P, i) : i \in Placeable(P)}
  BY <1>6, <1>7
<1>9. urls = <<>> <=> Links(P) = {}
  <2>1. urls = <<>> <=> n = 0
    <3>1. DOMAIN <<>> = {}
      OBVIOUS
    <3>2. urls = <<>> => n = 0
      <4>1. urls = <<>> => 1..n = {}
        BY <1>3, <3>1
      <4> QED BY <1>2, <4>1
    <3>3. ASSUME n = 0 PROVE urls = <<>>
      BY <1>2, <3>3
    <3> QED BY <3>2, <3>3
  <2>2. n = 0 <=> Links(P) = {}
    <3>1. n = 0 => Links(P) = {}
      BY <1>2
    <3>2. n # 0 => Links(P) # {}
      <4>1. n # 0 => 1 \in 1..n
        BY <1>2
      <4> QED BY <1>2, <4>1
    <3> QED BY <3>1, <3>2
  <2> QED BY <2>1, <2>2
<1> QED BY <1>8, <1>9 DEF urls

\* Nothing but spaces and full stops.
Plain(text) == \A n \in DOMAIN text : text[n] \in {"_", "."}

\* What is left of the text without the places of the URLs are the other pieces.
LEMMA RestIsPieces ==
  ASSUME NEW P, Composed(P)
  PROVE  (\A p \in 1..Len(Text(P)) :
            (\A i \in Placeable(P) : p \notin PlaceOf(P, i)[1]..PlaceOf(P, i)[2])
              => Text(P)[p] \in {"_", "."})
         <=> \A i \in 1..Len(P) : i \in Placeable(P) \/ Plain(P[i].text)
<1> DEFINE m == Len(P)
           f == Ends(P)
           T == Text(P)
           clear(p) == \A i \in Placeable(P) : p \notin f[i - 1] + 1..f[i]
<1>1. /\ m \in Nat /\ Ascends(m, f) /\ Len(T) = f[m]
      /\ \A i \in 1..m : f[i] = f[i - 1] + Len(P[i].text) /\ Len(P[i].text) \in Nat
  BY EndsFacts DEF Composed
<1>2. /\ \A p \in 1..f[m] : \E i \in 1..m : p \in f[i - 1] + 1..f[i]
      /\ \A i, j \in 1..m : \A p \in f[i - 1] + 1..f[i] : p \in f[j - 1] + 1..f[j] => i = j
      /\ \A i \in 1..m : f[i - 1] + 1 \in 1..f[m] /\ f[i] \in f[i - 1] + 1..f[m]
  <2> HIDE DEF m, f
  <2> QED BY <1>1, RangesFacts
<1>3. \A i \in 1..m : f[i - 1] \in Nat /\ f[i] \in Nat
  <2>1. \A i \in 1..m : i - 1 \in 0..m /\ i \in 0..m
    BY <1>1
  <2> HIDE DEF m, f
  <2> QED BY <1>1, <2>1 DEF Ascends
<1>4. \A i \in 1..m : \A q \in 1..Len(P[i].text) : T[f[i - 1] + q] = P[i].text[q]
  <2>1. TAKE i \in 1..m
  <2>2. StandsAt(T, P[i].text, f[i - 1])
    BY PieceStands
  <2> HIDE DEF m, f, T
  <2> QED BY <2>2 DEF StandsAt
<1>5. \A i \in 1..m : DOMAIN P[i].text = 1..Len(P[i].text)
  <2>1. TAKE i \in 1..m
  <2>2. P[i].text \in Seq(Char)
    BY DEF Composed, Meant
  <2> QED BY <2>2, LenProperties
<1>6. Placeable(P) \subseteq 1..m
  BY DEF Placeable
<1>7. \A p, i : p \in PlaceOf(P, i)[1]..PlaceOf(P, i)[2] <=> p \in f[i - 1] + 1..f[i]
  BY DEF PlaceOf
<1> HIDE DEF m, f, T
<1>8. ASSUME \A p \in 1..f[m] : clear(p) => T[p] \in {"_", "."},
             NEW i \in 1..m, i \notin Placeable(P), NEW q \in 1..Len(P[i].text)
      PROVE  P[i].text[q] \in {"_", "."}
  <2> DEFINE p == f[i - 1] + q
  <2>1. p \in f[i - 1] + 1..f[i] /\ p \in 1..f[m]
    <3>1. f[i - 1] \in Nat /\ f[i] = f[i - 1] + Len(P[i].text) /\ Len(P[i].text) \in Nat
          /\ f[i] \in f[i - 1] + 1..f[m]
      BY <1>1, <1>2, <1>3
    <3>2. f[m] \in Int
      <4>1. m \in 0..m
        BY <1>1
      <4> QED BY <1>1, <4>1 DEF Ascends
    <3> QED BY <3>1, <3>2
  <2>2. T[p] = P[i].text[q]
    BY <1>4
  <2> HIDE DEF p
  <2>3. clear(p)
    BY <1>2, <1>6, <1>8, <2>1
  <2> QED BY <1>8, <2>1, <2>2, <2>3
<1>9. ASSUME \A i \in 1..m : i \in Placeable(P) \/ Plain(P[i].text),
             NEW p \in 1..f[m], clear(p)
      PROVE  T[p] \in {"_", "."}
  <2>1. PICK i \in 1..m : p \in f[i - 1] + 1..f[i]
    BY <1>2
  <2>2. Plain(P[i].text)
    BY <1>9, <2>1
  <2> DEFINE q == p - f[i - 1]
  <2>3. q \in 1..Len(P[i].text) /\ f[i - 1] + q = p
    <3>1. f[i - 1] \in Nat /\ f[i] = f[i - 1] + Len(P[i].text) /\ Len(P[i].text) \in Nat
      BY <1>1, <1>3
    <3>2. p \in Int /\ f[i - 1] + 1 <= p /\ p <= f[i]
      BY <2>1, <3>1
    <3> QED BY <3>1, <3>2
  <2>4. T[p] = P[i].text[q]
    <3> HIDE DEF q
    <3>1. T[f[i - 1] + q] = P[i].text[q]
      BY <1>4, <2>3
    <3> QED BY <2>3, <3>1
  <2> HIDE DEF q
  <2> QED BY <1>5, <2>2, <2>3, <2>4 DEF Plain
<1>10. (\A p \in 1..f[m] : clear(p) => T[p] \in {"_", "."})
         <=> \A i \in 1..m : i \in Placeable(P) \/ Plain(P[i].text)
  <2>1. ASSUME \A p \in 1..f[m] : clear(p) => T[p] \in {"_", "."},
               NEW i \in 1..m, i \notin Placeable(P)
        PROVE  Plain(P[i].text)
    <3>1. \A q \in 1..Len(P[i].text) : P[i].text[q] \in {"_", "."}
      <4> HIDE DEF clear
      <4> QED BY <1>8, <2>1
    <3> QED BY <1>5, <3>1 DEF Plain
  <2> HIDE DEF clear
  <2> QED BY <1>9, <2>1
<1>11. \A p : clear(p) <=> \A i \in Placeable(P) : p \notin PlaceOf(P, i)[1]..PlaceOf(P, i)[2]
  BY <1>7
<1> HIDE DEF clear
<1> QED BY <1>1, <1>10, <1>11 DEF T, m

\* The judgement on a message put together from pieces that mean what they say.
LEMMA LinkOnlyHolds ==
  ASSUME NEW P, Composed(P)
  PROVE  IsLinkOnly(Message(P)) <=>
           /\ \E i \in DOMAIN P : IsLink(P[i])
           /\ \A i \in DOMAIN P :
                \/ IsLink(P[i]) /\ P[i].kind # "corrupt"
                \/ \A n \in DOMAIN P[i].text : P[i].text[n] \in {"_", "."}
<1> DEFINE T == Text(P)
           urls == ExtractURLs(Message(P))
           rest == {p \in DOMAIN T : \A s \in Spans(T, urls) : p \notin s[1]..s[2]}
<1>1. DOMAIN P = 1..Len(P)
  BY DEF Composed
<1>2. DOMAIN T = 1..Len(T)
  <2>1. T \in Seq(Char)
    BY EndsFacts
  <2> QED BY <2>1, LenProperties
<1>3. Message(P).text = T /\ Message(P).media = FALSE
  BY DEF Message
<1>4. IsLinkOnly(Message(P)) <=> urls # <<>> /\ \A p \in rest : T[p] \in {"_", "."}
  BY <1>3 DEF IsLinkOnly, Removed
<1>5. urls # <<>> <=> \E i \in DOMAIN P : IsLink(P[i])
  <2>1. urls = <<>> <=> Links(P) = {}
    BY SpansArePlaces
  <2>2. Links(P) = {} <=> ~\E i \in 1..Len(P) : IsLink(P[i])
    BY DEF Links
  <2> QED BY <1>1, <2>1, <2>2
<1>6. Spans(T, urls) = {PlaceOf(P, i) : i \in Placeable(P)}
  BY SpansArePlaces
<1> HIDE DEF T, urls
<1>7. (\A p \in rest : T[p] \in {"_", "."})
        <=> \A p \in 1..Len(T) :
              (\A i \in Placeable(P) : p \notin PlaceOf(P, i)[1]..PlaceOf(P, i)[2])
                => T[p] \in {"_", "."}
  BY <1>2, <1>6
<1> HIDE DEF rest
<1>8. (\A p \in rest : T[p] \in {"_", "."})
        <=> \A i \in 1..Len(P) : i \in Placeable(P) \/ Plain(P[i].text)
  BY <1>7, RestIsPieces DEF T
<1>9. \A i \in 1..Len(P) : i \in Placeable(P) <=> IsLink(P[i]) /\ P[i].kind # "corrupt"
  BY DEF Placeable
<1>10. \A i \in 1..Len(P) :
         Plain(P[i].text) <=> \A n \in DOMAIN P[i].text : P[i].text[n] \in {"_", "."}
  BY DEF Plain
<1>11. (\A p \in rest : T[p] \in {"_", "."})
        <=> \A i \in DOMAIN P :
                \/ IsLink(P[i]) /\ P[i].kind # "corrupt"
                \/ \A n \in DOMAIN P[i].text : P[i].text[n] \in {"_", "."}
  BY <1>1, <1>8, <1>9, <1>10
<1> QED BY <1>4, <1>5, <1>11

\* The places of the URLs that have one, and what comes there.
PlacesOf(P) == [i \in Placeable(P) |-> PlaceOf(P, i)]
MeansOf(P) == [i \in Placeable(P) |-> P[i].means]

\* The place of a piece is in the text, and no other piece has a part of it.
LEMMA PlacesAreApart ==
  ASSUME NEW P, Composed(P)
  PROVE  /\ Placeable(P) \subseteq 1..Len(P)
         /\ \A i \in Placeable(P) : /\ PlacesOf(P)[i] = PlaceOf(P, i)
                                    /\ MeansOf(P)[i] = P[i].means
                                    /\ PlacesOf(P)[i][1] \in 1..Len(Text(P))
                                    /\ PlacesOf(P)[i][2] \in PlacesOf(P)[i][1]..Len(Text(P))
         /\ ~Clash(Placeable(P), PlacesOf(P))
<1> DEFINE m == Len(P)
           f == Ends(P)
           C == Placeable(P)
<1>1. m \in Nat /\ Ascends(m, f) /\ Len(Text(P)) = f[m]
  BY EndsFacts DEF Composed
<1>2. C \subseteq 1..m
  BY DEF Placeable
<1>3. /\ \A i, j \in 1..m : \A p \in f[i - 1] + 1..f[i] : p \in f[j - 1] + 1..f[j] => i = j
      /\ \A i \in 1..m : f[i - 1] + 1 \in 1..f[m] /\ f[i] \in f[i - 1] + 1..f[m]
  <2> HIDE DEF m, f
  <2> QED BY <1>1, RangesFacts
<1>4. \A i \in C : /\ PlacesOf(P)[i] = PlaceOf(P, i) /\ MeansOf(P)[i] = P[i].means
                   /\ PlacesOf(P)[i][1] = f[i - 1] + 1 /\ PlacesOf(P)[i][2] = f[i]
  BY DEF PlacesOf, MeansOf, PlaceOf
<1>5. \A i \in 1..m : f[i - 1] \in Nat /\ f[i] \in Nat
  <2>1. \A i \in 1..m : i - 1 \in 0..m /\ i \in 0..m
    BY <1>1
  <2> HIDE DEF m, f
  <2> QED BY <1>1, <2>1 DEF Ascends
<1> HIDE DEF m, f, C
<1>6. ASSUME NEW i \in C, NEW j \in C, i # j, Overlap(PlacesOf(P)[i], PlacesOf(P)[j]) PROVE FALSE
  <2>1. i \in 1..m /\ j \in 1..m
    BY <1>2
  <2>2. f[i - 1] + 1 <= f[j] /\ f[j - 1] + 1 <= f[i]
    BY <1>4, <1>6 DEF Overlap
  <2>3. f[i - 1] \in Nat /\ f[i] \in Nat /\ f[j - 1] \in Nat /\ f[j] \in Nat
    BY <1>5, <2>1
  <2>4. f[i] >= f[i - 1] + 1 /\ f[j] >= f[j - 1] + 1
    <3>1. f[i] \in f[i - 1] + 1..f[m] /\ f[j] \in f[j - 1] + 1..f[m]
      BY <1>3, <2>1
    <3> QED BY <3>1
  <2>5. CASE f[i - 1] <= f[j - 1]
    <3>1. f[j - 1] + 1 \in f[i - 1] + 1..f[i] /\ f[j - 1] + 1 \in f[j - 1] + 1..f[j]
      BY <2>2, <2>3, <2>4, <2>5
    <3> QED BY <1>3, <1>6, <2>1, <3>1
  <2>6. CASE f[j - 1] <= f[i - 1]
    <3>1. f[i - 1] + 1 \in f[i - 1] + 1..f[i] /\ f[i - 1] + 1 \in f[j - 1] + 1..f[j]
      BY <2>2, <2>3, <2>4, <2>6
    <3> QED BY <1>3, <1>6, <2>1, <3>1
  <2> QED BY <2>3, <2>5, <2>6
<1>7. ~Clash(C, PlacesOf(P))
  BY <1>6 DEF Clash
<1>8. \A i \in C : /\ PlacesOf(P)[i][1] \in 1..f[m]
                   /\ PlacesOf(P)[i][2] \in PlacesOf(P)[i][1]..f[m]
  BY <1>2, <1>3, <1>4
<1> QED BY <1>1, <1>2, <1>4, <1>7, <1>8 DEF m, C

\* The text in cells, when every URL that has a place is shown there: the cells of
\* the first pieces hold what these pieces show.
LEMMA CellsOfPiece ==
  ASSUME NEW P, Composed(P), NEW i \in 1..Len(P)
  PROVE  LET f == Ends(P)
             cells == PlacedCells(Text(P), PlacesOf(P), MeansOf(P))
         IN /\ i \in Placeable(P) =>
                 /\ cells[f[i - 1] + 1] = P[i].means
                 /\ \A p \in f[i - 1] + 2..f[i] : cells[p] = <<>>
            /\ i \notin Placeable(P) =>
                 \A p \in f[i - 1] + 1..f[i] : cells[p] = <<Text(P)[p]>>
<1> DEFINE m == Len(P)
           f == Ends(P)
           T == Text(P)
           C == Placeable(P)
           span == PlacesOf(P)
           value == MeansOf(P)
           cells == PlacedCells(T, span, value)
           starts(p) == \E j \in C : span[j][1] = p
           within(p) == \E j \in C : p \in span[j][1]..span[j][2]
           at(p) == CHOOSE j \in C : span[j][1] = p
<1>1. /\ m \in Nat /\ Ascends(m, f) /\ Len(T) = f[m] /\ DOMAIN T = 1..f[m]
      /\ DOMAIN span = C
  <2>1. T \in Seq(Char) /\ Len(T) = f[m] /\ Ascends(m, f) /\ m \in Nat
    BY EndsFacts DEF Composed
  <2>2. DOMAIN T = 1..Len(T)
    BY <2>1, LenProperties
  <2> QED BY <2>1, <2>2 DEF PlacesOf
<1>2. C \subseteq 1..m /\ \A j \in C : span[j][1] = f[j - 1] + 1 /\ span[j][2] = f[j]
                                       /\ value[j] = P[j].means
  BY PlacesAreApart DEF PlaceOf
<1>3. /\ \A j, k \in 1..m : \A p \in f[j - 1] + 1..f[j] : p \in f[k - 1] + 1..f[k] => j = k
      /\ \A j \in 1..m : f[j - 1] + 1 \in 1..f[m] /\ f[j] \in f[j - 1] + 1..f[m]
  <2> HIDE DEF m, f
  <2> QED BY <1>1, RangesFacts
<1>4. \A j \in 0..m : f[j] \in Nat
  <2> HIDE DEF m, f
  <2> QED BY <1>1 DEF Ascends
<1>5. \A j \in 1..m : f[j - 1] \in Nat /\ f[j] \in Nat /\ f[j - 1] + 1 \in f[j - 1] + 1..f[j]
  <2>1. TAKE j \in 1..m
  <2>2. f[j - 1] \in Nat /\ f[j] \in Nat
    BY <1>1, <1>4
  <2>3. f[j] \in f[j - 1] + 1..f[m]
    BY <1>3
  <2> QED BY <2>2, <2>3
<1>6. cells = [p \in 1..f[m] |-> IF starts(p) THEN value[at(p)]
                                 ELSE IF within(p) THEN <<>> ELSE <<T[p]>>]
  BY <1>1 DEF PlacedCells
<1>7. i \in 1..m
  OBVIOUS
<1> HIDE DEF m, f, T, C, span, value, cells
<1>8. ASSUME NEW p \in f[i - 1] + 1..f[i]
      PROVE  /\ starts(p) <=> i \in C /\ p = f[i - 1] + 1
             /\ within(p) <=> i \in C
             /\ p \in 1..f[m]
  <2>1. f[i - 1] \in Nat /\ f[i] \in Nat /\ f[m] \in Nat /\ f[i] \in f[i - 1] + 1..f[m]
    <3>1. m \in 0..m
      BY <1>1
    <3> QED BY <1>3, <1>4, <1>5, <1>7, <3>1
  <2>2. p \in 1..f[m]
    BY <2>1
  <2>3. ASSUME NEW j \in C, p \in span[j][1]..span[j][2] PROVE j = i
    BY <1>2, <1>3, <1>7, <2>3
  <2>4. i \in C => within(p)
    BY <1>2
  <2>5. ASSUME starts(p) PROVE i \in C /\ p = f[i - 1] + 1
    <3>1. PICK j \in C : span[j][1] = p
      BY <2>5
    <3>2. j \in 1..m /\ p = f[j - 1] + 1 /\ p \in f[j - 1] + 1..f[j]
      BY <1>2, <1>5, <3>1
    <3>3. j = i
      BY <1>2, <2>3, <3>1, <3>2
    <3> QED BY <3>2, <3>3
  <2>6. ASSUME i \in C, p = f[i - 1] + 1 PROVE starts(p)
    BY <1>2, <2>6
  <2>7. within(p) => i \in C
    BY <2>3
  <2> HIDE DEF starts, within
  <2> QED BY <2>2, <2>4, <2>5, <2>6, <2>7
<1>9. ASSUME i \in C PROVE at(f[i - 1] + 1) = i
  <2> DEFINE p == f[i - 1] + 1
             j == at(p)
  <2>1. j \in C /\ span[j][1] = p
    BY <1>2, <1>9
  <2> HIDE DEF j
  <2>2. j \in 1..m /\ p \in f[j - 1] + 1..f[j] /\ p \in f[i - 1] + 1..f[i]
    BY <1>2, <1>5, <1>7, <2>1
  <2>3. j = i
    BY <1>3, <1>7, <2>2
  <2> QED BY <2>3 DEF j, p
<1> HIDE DEF starts, within, at
<1>10. ASSUME i \in C
       PROVE  cells[f[i - 1] + 1] = P[i].means /\ \A p \in f[i - 1] + 2..f[i] : cells[p] = <<>>
  <2>1. f[i - 1] + 1 \in f[i - 1] + 1..f[i]
    BY <1>5, <1>7
  <2>2. cells[f[i - 1] + 1] = value[at(f[i - 1] + 1)]
    BY <1>6, <1>8, <1>10, <2>1
  <2>3. ASSUME NEW p \in f[i - 1] + 2..f[i] PROVE cells[p] = <<>>
    <3>1. p \in f[i - 1] + 1..f[i] /\ p # f[i - 1] + 1
      BY <1>5, <1>7
    <3> QED BY <1>6, <1>8, <1>10, <3>1
  <2> QED BY <1>2, <1>9, <1>10, <2>2, <2>3
<1>11. ASSUME i \notin C, NEW p \in f[i - 1] + 1..f[i] PROVE cells[p] = <<T[p]>>
  BY <1>6, <1>8, <1>11
<1> QED BY <1>10, <1>11 DEF f, C, cells, T, span, value

\* What the pieces show in the normalized text.
ShownOf(P) == [i \in DOMAIN P |-> Shown(P[i])]

\* Cells are parts of a text: the texts of the URLs, nothing, and characters.
LEMMA CellsOfMessage ==
  ASSUME NEW P, Composed(P)
  PROVE  LET cells == PlacedCells(Text(P), PlacesOf(P), MeansOf(P))
         IN cells \in Seq(Seq(Char)) /\ Len(cells) = Len(Text(P))
<1> DEFINE m == Len(P)
           f == Ends(P)
           T == Text(P)
           cells == PlacedCells(T, PlacesOf(P), MeansOf(P))
           L == Len(T)
<1>1. /\ m \in Nat /\ Ascends(m, f) /\ L = f[m] /\ T \in Seq(Char) /\ L \in Nat
      /\ DOMAIN T = 1..L
  <2>1. T \in Seq(Char) /\ L = f[m] /\ Ascends(m, f) /\ m \in Nat
    BY EndsFacts DEF Composed
  <2>2. L \in Nat /\ DOMAIN T = 1..L
    BY <2>1, LenProperties
  <2> QED BY <2>1, <2>2
<1>2. \A p \in 1..L : \E i \in 1..m : p \in f[i - 1] + 1..f[i]
  <2> HIDE DEF m, f, L
  <2> QED BY <1>1, RangesFacts
<1>3. \A i \in 1..m : f[i - 1] \in Nat /\ f[i] \in Nat
  <2>1. \A i \in 1..m : i - 1 \in 0..m /\ i \in 0..m
    BY <1>1
  <2> HIDE DEF m, f
  <2> QED BY <1>1, <2>1 DEF Ascends
<1>4. DOMAIN cells = 1..L /\ cells = [p \in 1..L |-> cells[p]]
  BY <1>1 DEF PlacedCells
<1>5. \A p \in 1..L : cells[p] \in Seq(Char)
  <2>1. TAKE p \in 1..L
  <2>2. PICK i \in 1..m : p \in f[i - 1] + 1..f[i]
    BY <1>2
  <2>3. CASE i \notin Placeable(P)
    <3>1. cells[p] = <<T[p]>>
      BY <2>2, <2>3, CellsOfPiece
    <3>2. T[p] \in Char
      BY <1>1, ElementOfSeq
    <3> QED BY <3>1, <3>2
  <2>4. CASE i \in Placeable(P)
    <3>1. p = f[i - 1] + 1 \/ p \in f[i - 1] + 2..f[i]
      BY <1>3, <2>2
    <3>2. CASE p = f[i - 1] + 1
      <4>1. cells[p] = P[i].means
        BY <2>2, <2>4, <3>2, CellsOfPiece
      <4>2. P[i].means \in Seq(Char)
        BY PieceIsMeant
      <4> QED BY <4>1, <4>2
    <3>3. CASE p \in f[i - 1] + 2..f[i]
      <4>1. cells[p] = <<>>
        BY <2>2, <2>4, <3>3, CellsOfPiece
      <4> QED BY <4>1, EmptySeq
    <3> QED BY <3>1, <3>2, <3>3
  <2> QED BY <2>3, <2>4
<1> HIDE DEF cells, L
<1>6. cells \in [1..L -> Seq(Char)]
  BY <1>4, <1>5
<1>7. cells \in Seq(Seq(Char)) /\ Len(cells) = L
  BY <1>1, <1>6, SeqOfFunction
<1> QED BY <1>7 DEF cells, L, T

\* A piece in the text is its own text.
LEMMA PieceIsCut ==
  ASSUME NEW P, Composed(P), NEW i \in 1..Len(P)
  PROVE  SubSeq(Text(P), Ends(P)[i - 1] + 1, Ends(P)[i]) = P[i].text
<1> DEFINE T == Text(P)
           a == Ends(P)[i - 1]
           b == Ends(P)[i]
           y == P[i].text
           z == SubSeq(T, a + 1, b)
<1>1. /\ T \in Seq(Char) /\ y \in Seq(Char) /\ Len(y) \in Nat /\ b = a + Len(y)
      /\ StandsAt(T, y, a) /\ Len(T) \in Nat
  <2>1. T \in Seq(Char) /\ Len(y) \in Nat /\ b = a + Len(y) /\ y \in Seq(Char)
    BY EndsFacts DEF Composed, Meant
  <2>2. Len(T) \in Nat
    BY <2>1, LenProperties
  <2> QED BY <2>1, <2>2, PieceStands
<1> HIDE DEF T, a, b, y
<1>2. a \in 0..(Len(T) - Len(y)) /\ \A k \in 1..Len(y) : T[a + k] = y[k]
  BY <1>1 DEF StandsAt
<1>3. a + 1 \in Int /\ b \in Int /\ a + 1 >= 1 /\ b <= Len(T) /\ b >= a + 1 - 1
      /\ b - (a + 1) + 1 = Len(y)
  BY <1>1, <1>2
<1>4. /\ z \in Seq(Char) /\ Len(z) = Len(y)
      /\ \A k \in 1..Len(y) : z[k] = T[a + 1 + k - 1]
  BY <1>1, <1>3, PartFacts
<1> HIDE DEF z
<1>5. \A k \in 1..Len(y) : a + 1 + k - 1 = a + k
  BY <1>2
<1>6. \A k \in 1..Len(y) : z[k] = y[k]
  BY <1>2, <1>4, <1>5
<1>7. z = y
  BY <1>1, <1>4, <1>6, SeqEqual
<1> QED BY <1>7 DEF z, T, a, b, y

\* The cells of a piece, put together, are what the piece shows.
LEMMA CellsShowPiece ==
  ASSUME NEW P, Composed(P), NEW i \in 1..Len(P)
  PROVE  LET f == Ends(P)
             cells == PlacedCells(Text(P), PlacesOf(P), MeansOf(P))
         IN Joined(cells, f[i]) = Joined(cells, f[i - 1]) \o Shown(P[i])
<1> DEFINE T == Text(P)
           a == Ends(P)[i - 1]
           b == Ends(P)[i]
           cells == PlacedCells(T, PlacesOf(P), MeansOf(P))
<1>1. /\ T \in Seq(Char) /\ cells \in Seq(Seq(Char)) /\ Len(cells) = Len(T)
  BY EndsFacts, CellsOfMessage
<1>2. a \in 0..Len(T) /\ b \in a..Len(T) /\ b \in a + 1..Len(T) /\ Len(T) \in Nat
  <2> DEFINE f == Ends(P)
             m == Len(P)
  <2>1. m \in Nat /\ Ascends(m, f) /\ Len(T) = f[m]
    BY EndsFacts DEF Composed
  <2>2. f[i - 1] + 1 \in 1..f[m] /\ f[i] \in f[i - 1] + 1..f[m]
    <3>1. \A j \in 1..m : f[j - 1] + 1 \in 1..f[m] /\ f[j] \in f[j - 1] + 1..f[m]
      <4> HIDE DEF m, f
      <4> QED BY <2>1, RangesFacts
    <3> QED BY <3>1
  <2>3. f[i - 1] \in Nat
    <3>1. i - 1 \in 0..m
      BY <2>1
    <3> QED BY <2>1, <3>1 DEF Ascends
  <2>4. Len(T) \in Nat
    BY <1>1, LenProperties
  <2> HIDE DEF f
  <2>5. f[i - 1] \in 0..Len(T) /\ f[i] \in f[i - 1]..Len(T)
    BY <2>1, <2>2, <2>3, <2>4
  <2> QED BY <2>1, <2>2, <2>4, <2>5 DEF f
<1>3. /\ i \in Placeable(P) => cells[a + 1] = P[i].means /\ \A p \in a + 2..b : cells[p] = <<>>
      /\ i \notin Placeable(P) => \A p \in a + 1..b : cells[p] = <<T[p]>>
  BY CellsOfPiece
<1>4. SubSeq(T, a + 1, b) = P[i].text
  BY PieceIsCut
<1>5. Shown(P[i]) = IF i \in Placeable(P) THEN P[i].means ELSE P[i].text
  BY DEF Shown, Placeable
<1> HIDE DEF T, a, b, cells
<1>6. ASSUME i \in Placeable(P) PROVE Joined(cells, b) = Joined(cells, a) \o Shown(P[i])
  <2>1. a + 1 \in 1..Len(cells) /\ a + 1 \in 0..Len(cells) /\ b \in a + 1..Len(cells)
        /\ a + 1 - 1 = a /\ a + 1 + 1 = a + 2
    BY <1>1, <1>2
  <2>2. Joined(cells, a + 1) = Joined(cells, a) \o P[i].means
    <3>1. \A k \in 1..Len(cells) : Joined(cells, k) = Joined(cells, k - 1) \o cells[k]
      BY <1>1, JoinedFacts
    <3> DEFINE q == a + 1
    <3>2. q \in 1..Len(cells) /\ q - 1 = a /\ cells[q] = P[i].means
      <4>1. q \in 1..Len(cells) /\ q - 1 = a
        BY <1>2, <2>1
      <4>2. cells[a + 1] = P[i].means
        BY <1>3, <1>6, Zenon
      <4> QED BY <4>1, <4>2
    <3> HIDE DEF q
    <3>3. Joined(cells, q) = Joined(cells, q - 1) \o cells[q]
      BY <3>1, <3>2
    <3>4. Joined(cells, q) = Joined(cells, a) \o P[i].means
      BY <3>2, <3>3
    <3> QED BY <3>4 DEF q
  <2>3. Joined(cells, b) = Joined(cells, a + 1)
    <3>1. \A p \in a + 1 + 1..b : cells[p] = <<>>
      BY <1>3, <1>6, <2>1
    <3> DEFINE q == a + 1
    <3>2. q \in 0..Len(cells) /\ b \in q..Len(cells) /\ \A p \in q + 1..b : cells[p] = <<>>
      BY <2>1, <3>1
    <3> HIDE DEF q
    <3>3. Joined(cells, b) = Joined(cells, q)
      BY <1>1, <3>2, JoinedEmpty
    <3> QED BY <3>3 DEF q
  <2> QED BY <1>5, <1>6, <2>2, <2>3
<1>7. ASSUME i \notin Placeable(P) PROVE Joined(cells, b) = Joined(cells, a) \o Shown(P[i])
  <2>1. Joined(cells, b) = Cat(Joined(cells, a), SubSeq(T, a + 1, b))
    BY <1>1, <1>2, <1>3, <1>7, JoinedPlain
  <2> QED BY <1>4, <1>5, <1>7, <2>1 DEF Cat
<1> QED BY <1>6, <1>7 DEF cells, T, a, b

\* With every URL in its place the text is what the pieces show, from the first to
\* the last.
LEMMA PlacedIsShown ==
  ASSUME NEW P, Composed(P)
  PROVE  Placed(Text(P), PlacesOf(P), MeansOf(P)) = FlattenSeq(ShownOf(P))
<1> DEFINE m == Len(P)
           f == Ends(P)
           T == Text(P)
           cells == PlacedCells(T, PlacesOf(P), MeansOf(P))
           shown == ShownOf(P)
<1>1. m \in Nat /\ DOMAIN P = 1..m /\ Len(T) = f[m] /\ f[0] = 0
  BY EndsFacts DEF Composed, Ascends
<1>2. cells \in Seq(Seq(Char)) /\ Len(cells) = f[m]
  BY <1>1, CellsOfMessage
<1>3. shown \in Seq(Seq(Char)) /\ Len(shown) = m /\ \A i \in 1..m : shown[i] = Shown(P[i])
  <2>1. shown = [i \in 1..m |-> Shown(P[i])]
    BY <1>1 DEF ShownOf
  <2>2. \A i \in 1..m : Shown(P[i]) \in Seq(Char)
    <3>1. TAKE i \in 1..m
    <3>2. P[i].means \in Seq(Char) /\ P[i].text \in Seq(Char)
      BY PieceIsMeant DEF Composed, Meant
    <3> QED BY <3>2 DEF Shown
  <2>3. shown \in [1..m -> Seq(Char)]
    BY <2>1, <2>2
  <2>4. \A i \in 1..m : shown[i] = Shown(P[i])
    BY <2>1
  <2> HIDE DEF shown, m
  <2> QED BY <1>1, <2>3, <2>4, SeqOfFunction
<1>4. /\ Joined(cells, 0) = <<>> /\ Joined(cells, f[m]) = FlattenSeq(cells)
  <2> HIDE DEF cells
  <2> QED BY <1>2, JoinedFacts
<1>5. /\ Joined(shown, 0) = <<>> /\ Joined(shown, m) = FlattenSeq(shown)
      /\ \A i \in 1..m : Joined(shown, i) = Joined(shown, i - 1) \o shown[i]
  <2> HIDE DEF shown, m
  <2> QED BY <1>3, JoinedFacts
<1>6. \A i \in 1..m : Joined(cells, f[i]) = Joined(cells, f[i - 1]) \o Shown(P[i])
  BY CellsShowPiece
<1>7. Placed(T, PlacesOf(P), MeansOf(P)) = FlattenSeq(cells)
  BY DEF Placed, PlacedCells
<1> HIDE DEF m, f, T, cells, shown
<1> DEFINE U == {i \in 0..m : Joined(cells, f[i]) = Joined(shown, i)}
<1>8. 0 \in U
  <2>1. 0 \in 0..m
    BY <1>1
  <2> QED BY <1>1, <1>4, <1>5, <2>1
<1>9. \A i \in 1..m : i - 1 \in U => i \in U
  <2>1. SUFFICES ASSUME NEW i \in 1..m, i - 1 \in U PROVE Joined(cells, f[i]) = Joined(shown, i)
    <3>1. \A i \in 1..m : i \in 0..m
      BY <1>1
    <3> QED BY <3>1
  <2>2. Joined(cells, f[i - 1]) = Joined(shown, i - 1)
    BY <2>1
  <2> QED BY <1>3, <1>5, <1>6, <2>2
<1>10. m \in U
  <2>1. m \in 0..m
    BY <1>1
  <2> HIDE DEF U
  <2> QED BY <1>1, <1>8, <1>9, <2>1, Ascent
<1>11. FlattenSeq(cells) = FlattenSeq(shown)
  BY <1>4, <1>5, <1>10
<1> QED BY <1>7, <1>11 DEF T, shown

\* Numbers in ascending order are each there once.
LEMMA IncreasingEnumerates ==
  ASSUME NEW Q \in SUBSET Nat, NEW n, NEW e, Increasing(e, n, Q)
  PROVE  Enumerates(e, n, Q)
<1>1. /\ n \in Nat /\ e \in [1..n -> Q]
      /\ \A j, k \in 1..n : j < k => e[j] < e[k]
      /\ \A i \in Q : \E k \in 1..n : e[k] = i
  BY DEF Increasing
<1>2. \A j, k \in 1..n : e[j] = e[k] => j = k
  <2>1. TAKE j, k \in 1..n
  <2>2. e[j] \in Nat /\ e[k] \in Nat
    BY <1>1
  <2>3. (j < k => e[j] < e[k]) /\ (k < j => e[k] < e[j])
    BY <1>1
  <2> QED BY <1>1, <2>2, <2>3
<1> QED BY <1>1, <1>2 DEF Enumerates

\* normalizedText has one substitution for each URL that has a place.
LEMMA SubstitutionsHold ==
  ASSUME NEW P, Composed(P)
  PROVE  \E n, c : EditsOf(Substitutions(Text(P), ExtractURLs(Message(P))), Len(Text(P)), n, c,
                           Placeable(P), PlacesOf(P), MeansOf(P))
<1> DEFINE T == Text(P)
           urls == ExtractURLs(Message(P))
           sub(k) == Substitution(T, urls[k])
           C == Placeable(P)
<1>1. PICK m, e : UrlsOf(P, m, e)
  BY MessageURLs, Zenon
<1>2. /\ Increasing(e, m, Links(P)) /\ m \in Nat
      /\ \A k \in 1..m : e[k] \in Links(P)
      /\ \A i \in Links(P) : \E k \in 1..m : e[k] = i
      /\ urls = [k \in 1..m |-> URLOf(T, EntityOf(P, e[k]))]
  BY <1>1 DEF UrlsOf, Increasing
<1> HIDE DEF urls
<1>3. DOMAIN urls = 1..m
  BY <1>2
<1>4. ASSUME NEW k \in 1..m
      PROVE  /\ sub(k).span # NoSpan <=> e[k] \in C
             /\ e[k] \in C => sub(k).span = PlaceOf(P, e[k])
             /\ sub(k).value = P[e[k]].means
  <2>1. e[k] \in 1..Len(P) /\ IsLink(P[e[k]])
    BY <1>2 DEF Links
  <2>2. P[e[k]].kind # "literal"
    BY <2>1, PieceIsMeant
  <2>3. urls[k] = URLOf(T, EntityOf(P, e[k]))
    BY <1>2
  <2>4. /\ urls[k].offset = EntityOf(P, e[k]).offset
        /\ urls[k].length = EntityOf(P, e[k]).length
        /\ NormalizeURL(urls[k].target) = P[e[k]].means
    BY <2>1, <2>2, <2>3, PieceIsMeant
  <2>5. /\ sub(k).span = Utf16Span(T, EntityOf(P, e[k]).offset, EntityOf(P, e[k]).length)
        /\ sub(k).value = P[e[k]].means
    BY <2>4 DEF Substitution, Edit
  <2> HIDE DEF sub
  <2>6. /\ P[e[k]].kind # "corrupt" => sub(k).span = PlaceOf(P, e[k]) /\ sub(k).span # NoSpan
        /\ P[e[k]].kind = "corrupt" => sub(k).span = NoSpan
    BY <2>1, <2>5, PieceIsCovered
  <2>7. e[k] \in C <=> P[e[k]].kind # "corrupt"
    BY <2>1 DEF Placeable
  <2> QED BY <2>5, <2>6, <2>7
<1> DEFINE Q == {k \in 1..m : e[k] \in C}
           x == [k \in 1..m |-> sub(k)]
           subs == Substitutions(T, urls)
<1>5. Q \in SUBSET (1..m) /\ (\A k \in 1..m : k \in Q <=> e[k] \in C) /\ \A k \in 1..m : x[k] = sub(k)
  OBVIOUS
<1>6. subs = FlattenSeq([k \in 1..m |-> OneIf(k \in Q, x[k])])
  <2>1. subs = FlattenSeq([k \in 1..m |-> OneIf(sub(k).span # NoSpan, sub(k))])
    BY <1>3 DEF Substitutions
  <2> HIDE DEF sub, Q, x, C
  <2>2. \A k \in 1..m : OneIf(sub(k).span # NoSpan, sub(k)) = OneIf(k \in Q, x[k])
    BY <1>4, <1>5 DEF OneIf
  <2>3. [k \in 1..m |-> OneIf(sub(k).span # NoSpan, sub(k))] = [k \in 1..m |-> OneIf(k \in Q, x[k])]
    BY <2>2
  <2> QED BY <2>1, <2>3
<1> HIDE DEF sub, Q, x, subs, C
<1>7. PICK n, f : Appends(m, Q, x, n, f)
  BY <1>2, <1>5, LoopAppends, Zenon
<1>8. /\ Increasing(f, n, Q) /\ n \in Nat
      /\ \A k \in 1..n : f[k] \in Q /\ f[k] \in 1..m
      /\ subs = [k \in 1..n |-> x[f[k]]]
  BY <1>5, <1>6, <1>7 DEF Appends, Increasing
<1> DEFINE c == [k \in 1..n |-> e[f[k]]]
           V == {e[r] : r \in Q}
<1>9. Increasing(c, n, V)
  <2>1. Links(P) \in SUBSET Nat
    BY DEF Links
  <2>2. Increasing(e, m, Links(P)) /\ Increasing(f, n, Q)
    BY <1>2, <1>8
  <2>3. Increasing([k \in 1..n |-> e[f[k]]], n, {e[r] : r \in Q})
    BY <1>5, <2>1, <2>2, IncreasingTaken, Zenon
  <2> QED BY <2>3
<1>10. V = C
  <2>1. ASSUME NEW i \in V PROVE i \in C
    BY <1>5
  <2>2. ASSUME NEW i \in C PROVE i \in V
    <3>1. i \in Links(P)
      BY DEF Placeable, Links, C
    <3>2. PICK k \in 1..m : e[k] = i
      BY <1>2, <3>1
    <3> QED BY <1>5, <3>2
  <2> QED BY <2>1, <2>2
<1>11. Enumerates(c, n, C)
  <2>1. C \in SUBSET Nat
    BY DEF C, Placeable
  <2>2. Increasing(c, n, C)
    BY <1>9, <1>10
  <2> HIDE DEF c
  <2> QED BY <2>1, <2>2, IncreasingEnumerates
<1>12. DOMAIN subs = 1..n
  BY <1>8
<1>13. Len(T) \in Nat
  <2>1. T \in Seq(Char)
    BY EndsFacts
  <2> HIDE DEF T
  <2> QED BY <2>1, LenProperties
<1>14. \A i \in C : /\ PlacesOf(P)[i] = PlaceOf(P, i) /\ MeansOf(P)[i] = P[i].means
                    /\ PlacesOf(P)[i][1] \in 1..Len(T)
                    /\ PlacesOf(P)[i][2] \in PlacesOf(P)[i][1]..Len(T)
  BY PlacesAreApart DEF C
<1>15. \A k \in 1..n : subs[k].span = PlacesOf(P)[c[k]] /\ subs[k].value = MeansOf(P)[c[k]]
  <2>1. TAKE k \in 1..n
  <2>2. subs[k] = sub(f[k]) /\ c[k] = e[f[k]] /\ e[f[k]] \in C /\ f[k] \in 1..m
    BY <1>5, <1>8
  <2>3. sub(f[k]).span = PlaceOf(P, e[f[k]]) /\ sub(f[k]).value = P[e[f[k]]].means
    BY <1>4, <2>2
  <2>4. PlacesOf(P)[e[f[k]]] = PlaceOf(P, e[f[k]]) /\ MeansOf(P)[e[f[k]]] = P[e[f[k]]].means
    BY <1>14, <2>2
  <2> HIDE DEF c
  <2> QED BY <2>2, <2>3, <2>4
<1> HIDE DEF c, T
<1>16. EditsOf(subs, Len(T), n, c, C, PlacesOf(P), MeansOf(P))
  BY <1>8, <1>11, <1>12, <1>13, <1>14, <1>15 DEF EditsOf
<1>17. \E k, d : EditsOf(subs, Len(T), k, d, C, PlacesOf(P), MeansOf(P))
  BY <1>16, Zenon
<1> QED BY <1>17 DEF subs, T, C, urls

\* A sequence of n edits.
Listed(s, n) ==
  /\ DOMAIN s = 1..n /\ Len(s) = n /\ s = [k \in 1..n |-> s[k]]
  /\ \A k \in 1..n : s[k].span[1] \in Int /\ s[k].span[2] \in Int

\* Nothing is passed over when no two spans overlap.
LEMMA KeptHolds ==
  ASSUME NEW s, NEW n \in Nat, Listed(s, n), Disjoint(s)
  PROVE  Kept(s) = s
<1> DEFINE X == {s[k] : k \in 1..n}
           g == [k \in 0..n |-> SubSeq(s, 1, k)]
           Loop(f) == f = [k \in 0..n |-> IF k = 0 THEN <<>> ELSE Keep(f[k - 1], s[k])]
           kept == CHOOSE f : Loop(f)
<1>l. Len(s) = n /\ \A k \in 1..n : s[k].span[1] \in Int /\ s[k].span[2] \in Int
  BY DEF Listed
<1>1. s \in Seq(X)
  <2>1. s \in [1..n -> X]
    BY DEF Listed
  <2> HIDE DEF X
  <2> QED BY <2>1, SeqOfFunction
<1>2. \A k \in 1..n : s[k] \in X
  OBVIOUS
<1> HIDE DEF X
<1>3. \A k \in 0..n : SubSeq(s, 1, k) \in Seq(X) /\ Len(SubSeq(s, 1, k)) = k
  <2>1. TAKE k \in 0..n
  <2>2. 1 \in Int /\ k \in Int /\ 1 >= 1 /\ k <= Len(s) /\ k >= 1 - 1 /\ k - 1 + 1 = k
    BY <1>l
  <2>3. /\ SubSeq(s, 1, k) \in Seq(X)
        /\ k >= 1 - 1 => Len(SubSeq(s, 1, k)) = k - 1 + 1
    BY <1>1, <2>2, PartFacts
  <2> QED BY <2>2, <2>3
<1>4. ASSUME NEW k \in 1..n PROVE Keep(SubSeq(s, 1, k - 1), s[k]) = SubSeq(s, 1, k)
  <2> DEFINE t == SubSeq(s, 1, k - 1)
  <2>1. k - 1 \in 0..n
    OBVIOUS
  <2>2. t \in Seq(X) /\ Len(t) = k - 1
    BY <1>3, <2>1
  <2>3. SubSeq(s, 1, k) = t \o <<s[k]>>
    <3>1. 1 \in 1..Len(s) /\ k \in 1..Len(s)
      BY <1>l
    <3> QED BY <1>1, <3>1, SubSeqRecursiveSecond
  <2>4. k # 1 => t[Len(t)] = s[k - 1]
    <3>1. SUFFICES ASSUME k # 1 PROVE t[k - 1] = s[k - 1]
      BY <2>2
    <3>2. 1 \in Int /\ k - 1 \in Int /\ 1 >= 1 /\ k - 1 <= Len(s) /\ k - 1 - 1 + 1 = k - 1
          /\ k - 1 \in 1..k - 1 /\ 1 + (k - 1) - 1 = k - 1
      BY <1>l, <3>1
    <3> DEFINE j == k - 1
    <3>3. \A i \in 1..j - 1 + 1 : SubSeq(s, 1, j)[i] = s[1 + i - 1]
      <4>1. j \in Int /\ j <= Len(s)
        BY <3>2
      <4> HIDE DEF j
      <4> QED BY <1>1, <4>1, PartFacts
    <3> QED BY <3>2, <3>3
  <2> HIDE DEF t
  <2>5. ~(t # <<>> /\ s[k].span[2] >= t[Len(t)].span[1])
    <3>1. CASE k = 1
      <4>1. t = <<>>
        BY <2>2, <3>1, EmptySeq
      <4> QED BY <4>1
    <3>2. CASE k # 1
      <4>1. k \in 2..Len(s) /\ k - 1 \in 1..n
        BY <1>l, <3>2
      <4>2. s[k].span[2] < s[k - 1].span[1]
        BY <4>1 DEF Disjoint
      <4>3. s[k].span[2] \in Int /\ s[k - 1].span[1] \in Int
        BY <1>l, <4>1
      <4> QED BY <2>4, <3>2, <4>2, <4>3
    <3> QED BY <3>1, <3>2
  <2>6. Keep(t, s[k]) = Append(t, s[k])
    BY <2>5 DEF Keep
  <2>7. Append(t, s[k]) = t \o <<s[k]>>
    BY <1>2, <2>2, AppendIsConcat
  <2> QED BY <2>3, <2>6, <2>7 DEF t
<1>5. SubSeq(s, 1, 0) = <<>> /\ SubSeq(s, 1, n) = s
  <2>1. SubSeq(s, 1, 0) = <<>>
    BY <1>1, SubSeqEmpty
  <2>2. SubSeq(s, 1, n) = s
    BY <1>1, <1>l, SubSeqFull
  <2> QED BY <2>1, <2>2
<1>6. Loop(g)
  <2>1. \A k \in 0..n : g[k] = SubSeq(s, 1, k)
    OBVIOUS
  <2>2. \A k \in 0..n : g[k] = IF k = 0 THEN <<>> ELSE Keep(g[k - 1], s[k])
    <3>1. TAKE k \in 0..n
    <3>2. k # 0 => k \in 1..n /\ k - 1 \in 0..n
      OBVIOUS
    <3> HIDE DEF g
    <3> QED BY <1>4, <1>5, <2>1, <3>2
  <2>3. g = [k \in 0..n |-> g[k]]
    OBVIOUS
  <2> HIDE DEF g
  <2> QED BY <2>2, <2>3
<1>7. Loop(kept)
  <2> HIDE DEF g
  <2> QED BY <1>6
<1>8. Kept(s) = kept[n]
  BY <1>l DEF Kept
<1>9. \A k \in 0..n : kept[k] = IF k = 0 THEN <<>> ELSE Keep(kept[k - 1], s[k])
  <2> HIDE DEF kept
  <2> QED BY <1>7
<1> HIDE DEF kept
<1> DEFINE U == {k \in 0..n : kept[k] = SubSeq(s, 1, k)}
<1>10. 0 \in U
  <2>1. 0 \in 0..n
    OBVIOUS
  <2> QED BY <1>5, <1>9, <2>1
<1>11. \A k \in 1..n : k - 1 \in U => k \in U
  <2>1. SUFFICES ASSUME NEW k \in 1..n, k - 1 \in U PROVE kept[k] = SubSeq(s, 1, k)
    OBVIOUS
  <2>2. k \in 0..n /\ k # 0 /\ kept[k - 1] = SubSeq(s, 1, k - 1)
    BY <2>1
  <2> QED BY <1>4, <1>9, <2>2
<1>12. n \in U
  <2>1. n \in 0..n
    OBVIOUS
  <2> HIDE DEF U
  <2> QED BY <1>10, <1>11, <2>1, Ascent
<1> QED BY <1>5, <1>8, <1>12

\* The substitutions are sorted, none is passed over, and all are made.
LEMMA NormalizedHolds ==
  ASSUME NEW P, Composed(P)
  PROVE  NormalizedText(Text(P), ExtractURLs(Message(P))) = Trim(FlattenSeq(ShownOf(P)))
<1> DEFINE T == Text(P)
           C == Placeable(P)
           span == PlacesOf(P)
           value == MeansOf(P)
           subs == Substitutions(T, ExtractURLs(Message(P)))
           s == Sorted(subs)
<1>1. PICK n, c : EditsOf(subs, Len(T), n, c, C, span, value)
  BY SubstitutionsHold, Zenon
<1>2. T \in Seq(Char) /\ DOMAIN span = C
  BY EndsFacts DEF PlacesOf
<1>3. \A i \in C : value[i] \in Seq(Char) /\ span[i][1] \in Int /\ span[i][2] \in Int
  <2>1. TAKE i \in C
  <2>2. i \in 1..Len(P) /\ value[i] = P[i].means /\ span[i][1] \in 1..Len(T)
        /\ span[i][2] \in span[i][1]..Len(T)
    BY PlacesAreApart
  <2>3. P[i].means \in Seq(Char)
    BY <2>2, PieceIsMeant
  <2> HIDE DEF span, value, T
  <2> QED BY <2>2, <2>3
<1>4. ~Clash(C, span)
  BY PlacesAreApart
<1>5. NormalizedText(T, ExtractURLs(Message(P))) = Trim(SpliceAll(T, Kept(s)))
  BY DEF NormalizedText
<1>6. Placed(T, span, value) = FlattenSeq(ShownOf(P))
  BY PlacedIsShown
<1> HIDE DEF T, C, span, value, subs
<1>7. n \in Nat /\ DOMAIN subs = 1..n
  BY <1>1 DEF EditsOf
<1>8. DOMAIN s = 1..n /\ s = [k \in 1..n |-> s[k]]
  BY <1>7 DEF Sorted
<1> HIDE DEF s
<1>9. PICK e, b, d : /\ Lists(s, n, e, b, d, C, span, value)
                     /\ Disjoint(s) <=> ~Clash(C, span)
                     /\ Disjoint(s) => Descending(n, Len(T), b, d)
  BY <1>1, SortedHolds DEF s
<1>10. Disjoint(s) /\ Descending(n, Len(T), b, d)
  BY <1>4, <1>9
<1>11. Listed(s, n)
  <2>1. /\ Len(s) = n /\ \A k \in 1..n : e[k] \in C
        /\ \A k \in 1..n : b[k] = span[e[k]][1] /\ d[k] = span[e[k]][2]
        /\ \A k \in 1..n : s[k].span[1] = b[k] /\ s[k].span[2] = d[k]
    BY <1>9 DEF Lists, Enumerates, Says
  <2>2. \A k \in 1..n : s[k].span[1] \in Int /\ s[k].span[2] \in Int
    BY <1>3, <2>1
  <2> QED BY <1>8, <2>1, <2>2 DEF Listed
<1>12. Kept(s) = s
  BY <1>7, <1>10, <1>11, KeptHolds
<1>13. SpliceAll(T, s) = Placed(T, span, value)
  <2>1. Lists(s, n, e, b, d, C, span, value) /\ \A i \in C : value[i] \in Seq(Char)
    BY <1>3, <1>9
  <2> QED BY <1>2, <1>7, <1>10, <2>1, PlacedHolds
<1> QED BY <1>5, <1>6, <1>12, <1>13 DEF T

\* What the pieces of the messages mean is what the code makes of their URLs, each
\* on its own.
PiecesMean == \A piece \in Pieces : Meant(piece)

\* A message of such pieces is read for what it says.
LEMMA MessageIsRead == PiecesMean /\ sample \in Input => ContentIsRead
<1> SUFFICES ASSUME PiecesMean, sample \in Input, sample.kind = "message"
             PROVE  FingerprintIsCanonical /\ LinkOnlyIsJudged
  BY DEF ContentIsRead, FingerprintIsCanonical, LinkOnlyIsJudged
<1> DEFINE P == sample.pieces
<1>1. P \in Seq(Pieces)
  <2>1. sample \in MessageInput
    BY InputOfKind
  <2>2. P \in SeqOf(Pieces, MaxPieces)
    BY <2>1 DEF MessageInput
  <2> QED BY <2>2, BoundsAssumption, SeqOfIsSeq
<1> HIDE DEF P
<1>2. Composed(P)
  <2>1. Len(P) \in Nat /\ DOMAIN P = 1..Len(P) /\ \A i \in 1..Len(P) : P[i] \in Pieces
    BY <1>1, LenProperties, ElementOfSeq
  <2> QED BY <2>1 DEF PiecesMean, Composed
<1> DEFINE print == Fingerprint(Message(P), "rule")
<1>3. print.text = Trim(FlattenSeq([i \in DOMAIN P |-> Shown(P[i])]))
  <2>1. print.text = NormalizedText(Text(P), ExtractURLs(Message(P)))
    BY DEF Fingerprint, Message
  <2> HIDE DEF print
  <2> QED BY <1>2, <2>1, NormalizedHolds DEF ShownOf
<1>4. print.urls = FlattenSeq([i \in DOMAIN P |-> OneIf(IsLink(P[i]), P[i].means)])
  BY <1>2, UrlsAreInOrder
<1>5. FingerprintIsCanonical
  BY <1>3, <1>4 DEF FingerprintIsCanonical, P
<1>6. LinkOnlyIsJudged
  BY <1>2, LinkOnlyHolds DEF LinkOnlyIsJudged, P
<1> QED BY <1>5, <1>6

\* A message is read for what it says, whatever pieces it is put together from and
\* in whatever order: its fingerprint is its text with every accepted URL that has
\* a place in its normal form, and the accepted URLs in order; and it is link-only
\* when nothing but URLs, spaces and full stops is in it (ExtractURLs,
\* normalizedText, Fingerprint, IsLinkOnly).
THEOREM ContentAlwaysRead == ASSUME PiecesMean PROVE Sampling => []ContentIsRead
BY MessageIsRead, SampleIsInput, PTL

=============================================================================
