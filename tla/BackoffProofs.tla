--------------------------- MODULE BackoffProofs ---------------------------
(***************************************************************************)
(* Facts about the backoff table, for every attempt number.                *)
(***************************************************************************)
EXTENDS Backoff, TLAPS

LEMMA TableValues ==
  /\ LastStep = 5
  /\ Table[1] = 1 /\ Table[2] = 2 /\ Table[3] = 4
  /\ Table[4] = 8 /\ Table[5] = 16 /\ Table[6] = 60
BY DEF Table, LastStep

\* The table lookup of backoffFor, spelled out: no step number, however
\* large, indexes the table out of its range.
LEMMA Lookup ==
  /\ TableAt(0) = 1 /\ TableAt(1) = 2 /\ TableAt(2) = 4
  /\ TableAt(3) = 8 /\ TableAt(4) = 16
  /\ \A n \in Nat : n >= 5 => TableAt(n) = 60
<1>1. TableAt(0) = 1 /\ TableAt(1) = 2 /\ TableAt(2) = 4
  BY TableValues DEF TableAt
<1>2. TableAt(3) = 8 /\ TableAt(4) = 16
  BY TableValues DEF TableAt
<1>3. ASSUME NEW n \in Nat, n >= 5
      PROVE  TableAt(n) = 60
  <2>1. 1 + (IF n > LastStep THEN LastStep ELSE n) = 6
    BY <1>3, TableValues
  <2> QED
    BY <2>1, TableValues DEF TableAt
<1> QED
  BY <1>1, <1>2, <1>3

\* Each lookup is one of the six delays.
LEMMA LookupRange ==
  ASSUME NEW n \in Nat
  PROVE  TableAt(n) \in {1, 2, 4, 8, 16, 60}
<1>1. n = 0 \/ n = 1 \/ n = 2 \/ n = 3 \/ n = 4 \/ n >= 5
  OBVIOUS
<1> QED
  BY <1>1, Lookup

\* Up to its cap the table at least doubles, and it never falls.
LEMMA LookupDoubles ==
  ASSUME NEW n \in Nat
  PROVE  /\ n < LastStep => TableAt(n + 1) >= 2 * TableAt(n)
         /\ TableAt(n + 1) >= TableAt(n)
<1>1. CASE n = 0 \/ n = 1 \/ n = 2 \/ n = 3
  BY <1>1, Lookup
<1>2. CASE n = 4
  <2>1. TableAt(5) = 60
    BY Lookup
  <2> QED
    BY <1>2, <2>1, Lookup
<1>3. CASE n >= 5
  BY <1>3, Lookup, TableValues
<1> QED
  BY <1>1, <1>2, <1>3

\* Two windows of a quarter around delays at least a factor of two apart.
LEMMA Windows ==
  ASSUME NEW x \in Int, NEW y \in Int, x >= 1, y >= 2 * x
  PROVE  (1000 + JitterPerMille) * x < (1000 - JitterPerMille) * y
<1>1. 1250 * x < 750 * y
  OBVIOUS
<1>2. 1000 + JitterPerMille = 1250 /\ 1000 - JitterPerMille = 750
  BY DEF JitterPerMille
<1> QED
  BY <1>1, <1>2

\* backoffFor returns between 750 ms and LongestDelay, whatever the attempt.
THEOREM DelayBounds ==
  ASSUME NEW n \in Nat, NEW limited \in BOOLEAN
  PROVE  /\ BaseDelay(n, limited) \in 1 .. 120
         /\ MinDelay(n, limited) >= 750
         /\ MaxDelay(n, limited) <= LongestDelay
<1> DEFINE b == BaseDelay(n, limited)
<1>1. TableAt(n) \in 1 .. 60 /\ TableAt(n + 1) \in 1 .. 60
  BY LookupRange, n + 1 \in Nat
<1>2. b = 2 * TableAt(n + 1) \/ b = TableAt(n)
  BY DEF BaseDelay
<1>3. MinDelay(n, limited) = (1000 - JitterPerMille) * b
  BY DEF MinDelay
<1>4. MaxDelay(n, limited) = (1000 + JitterPerMille) * b
  BY DEF MaxDelay
<1> HIDE DEF b
<1>5. b \in 1 .. 120
  BY <1>1, <1>2
<1>6. 1000 + JitterPerMille = 1250 /\ 1000 - JitterPerMille = 750
  BY DEF JitterPerMille
<1>7. 750 * b >= 750 /\ 1250 * b <= 150000
  BY <1>5
<1> QED
  BY <1>3, <1>4, <1>5, <1>6, <1>7 DEF LongestDelay, b

\* Below the cap the jitter windows of successive attempts do not even touch:
\* the longest wait of one is shorter than the shortest of the next.
THEOREM JitterKeepsOrder ==
  ASSUME NEW n \in Nat, n < LastStep
  PROVE  MaxDelay(n, FALSE) < MinDelay(n + 1, FALSE)
<1> DEFINE x == TableAt(n)
           y == TableAt(n + 1)
           hi == MaxDelay(n, FALSE)
           lo == MinDelay(n + 1, FALSE)
<1>1. hi = (1000 + JitterPerMille) * x
  BY DEF MaxDelay, BaseDelay
<1>2. lo = (1000 - JitterPerMille) * y
  BY DEF MinDelay, BaseDelay
<1>3. y >= 2 * x
  BY LookupDoubles
<1>4. x \in {1, 2, 4, 8, 16, 60} /\ y \in {1, 2, 4, 8, 16, 60}
  BY LookupRange, n + 1 \in Nat
<1> HIDE DEF x, y, hi, lo
<1>5. x \in Int /\ y \in Int /\ x >= 1
  BY <1>4
<1>6. (1000 + JitterPerMille) * x < (1000 - JitterPerMille) * y
  BY <1>3, <1>5, Windows
<1>7. hi < lo
  BY <1>1, <1>2, <1>6
<1> QED
  BY <1>7 DEF hi, lo

\* Being rate limited (close 4429, status 429) always waits longer than a
\* plain loss on the same attempt could, at the cap included.
THEOREM RateLimitWaitsLonger ==
  ASSUME NEW n \in Nat
  PROVE  MaxDelay(n, FALSE) < MinDelay(n, TRUE)
<1> DEFINE x == TableAt(n)
           y == 2 * TableAt(n + 1)
           hi == MaxDelay(n, FALSE)
           lo == MinDelay(n, TRUE)
<1>1. hi = (1000 + JitterPerMille) * x
  BY DEF MaxDelay, BaseDelay
<1>2. lo = (1000 - JitterPerMille) * y
  BY DEF MinDelay, BaseDelay
<1>3. TableAt(n + 1) >= TableAt(n)
  BY LookupDoubles
<1>4. TableAt(n) \in 1 .. 60 /\ TableAt(n + 1) \in 1 .. 60
  BY LookupRange, n + 1 \in Nat
<1>5. x \in Int /\ y \in Int /\ x >= 1 /\ y >= 2 * x
  BY <1>3, <1>4
<1> HIDE DEF x, y, hi, lo
<1>6. (1000 + JitterPerMille) * x < (1000 - JitterPerMille) * y
  BY <1>5, Windows
<1>7. hi < lo
  BY <1>1, <1>2, <1>6
<1> QED
  BY <1>7 DEF hi, lo

\* Past the end of the table nothing changes, so a counter that saturates
\* there stands for the unbounded one of Run.
THEOREM BackoffSaturates ==
  ASSUME NEW n \in Nat, NEW limited \in BOOLEAN, n >= LastStep
  PROVE  BaseDelay(n, limited) = BaseDelay(LastStep, limited)
<1>1. n >= 5 /\ n + 1 >= 5 /\ n + 1 \in Nat /\ LastStep = 5
  BY TableValues
<1>2. TableAt(n) = 60 /\ TableAt(n + 1) = 60 /\ TableAt(5) = 60 /\ TableAt(6) = 60
  BY <1>1, Lookup
<1>3. TableAt(LastStep) = 60 /\ TableAt(LastStep + 1) = 60
  BY <1>1, <1>2
<1> QED
  BY <1>2, <1>3 DEF BaseDelay
=============================================================================
