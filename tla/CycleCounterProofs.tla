------------------------- MODULE CycleCounterProofs -------------------------
(***************************************************************************)
(* Proofs about CycleCounter, for words of any size.  The counter may      *)
(* overflow, so the argument never compares instants: it says what the two *)
(* words were k cycles ago (HighAgo, LowAgo), and that this is the same    *)
(* for k + d after d more cycles (Aging).                                  *)
(***************************************************************************)
EXTENDS CycleCounter, RowMajor

High(c) == c \div Base
Low(c)  == c % Base

\* The word before h, and the one after.
Before(h) == IF h = 0 THEN Base - 1 ELSE h - 1
After(h)  == IF h = Base - 1 THEN 0 ELSE h + 1

\* The words of the counter k cycles before it reads c, less than a turn of
\* the low word ago.
HighAgo(c, k) == IF k <= Low(c) THEN High(c) ELSE Before(High(c))
LowAgo(c, k)  == IF k <= Low(c) THEN Low(c) - k ELSE Low(c) - k + Base

Instants == 0 .. Base * Base - 1

\* What rdcycle64 has read, and how long ago.
Reads ==
  /\ pc = "low" =>
       \E k \in 1 .. MaxTicks : k <= elapsed /\ cyclesh1 = HighAgo(cycle, k)
  /\ pc = "high2" =>
       \E j \in 1 .. MaxTicks, k \in 1 .. 2 * MaxTicks :
         j <= k /\ k <= elapsed /\ cyclesh1 = HighAgo(cycle, k) /\ cycles = LowAgo(cycle, j)

\* After a failed turn the low word has just overflowed.
Retried ==
  /\ retries \in {0, 1}
  /\ retries = 1 /\ pc = "high1" => Low(cycle) < 3 * MaxTicks
  /\ retries = 1 /\ pc = "low" => Low(cycle) < 4 * MaxTicks /\ cyclesh1 = High(cycle)
  /\ retries = 1 /\ pc = "high2" => Low(cycle) < 5 * MaxTicks /\ cyclesh1 = High(cycle)

\* The low word has gone on by the cycles of the section, less whole turns.
Section ==
  /\ prof = -1 => profiled = 0
  /\ prof # -1 => \E turns \in Int : Low(cycle) = prof + profiled - turns * Base

\* The inductive invariant.
IInv == TypeOK /\ Reads /\ ReadsAnInstant /\ Retried /\ Section /\ ProfilesElapsed

-----------------------------------------------------------------------------
(***************************************************************************)
(* Arithmetic                                                              *)
(***************************************************************************)
\* A number below n is its own remainder, and 0 the quotient.
LEMMA Small ==
  ASSUME NEW n \in Nat \ {0}, NEW r \in 0 .. n - 1
  PROVE  r % n = r /\ r \div n = 0
<1>1. 0 * n + r = r OBVIOUS
<1> QED BY <1>1, Euclid, 0 \in Int

\* Whole turns do not change the remainder.
LEMMA Turns ==
  ASSUME NEW n \in Nat \ {0}, NEW a \in Int, NEW k \in Int
  PROVE  (a - k * n) % n = a % n
<1>1. (a % n) \in 0 .. n - 1 /\ (a \div n) \in Int /\ a = (a \div n) * n + (a % n)
  OBVIOUS
<1>2. a - k * n = ((a \div n) - k) * n + (a % n) BY <1>1
<1>3. (a \div n) - k \in Int BY <1>1
<1> QED BY <1>1, <1>2, <1>3, Euclid

\* The words of the counter.
LEMMA Words ==
  ASSUME NEW c \in Instants
  PROVE  /\ Base \in Nat \ {0} /\ Base * Base \in Nat \ {0}
         /\ High(c) \in 0 .. Base - 1 /\ Low(c) \in 0 .. Base - 1
         /\ c = High(c) * Base + Low(c)
         /\ High(c) * Base \in Nat
<1>1. Base \in Nat \ {0} BY TicksAssumption
<1>2. Base * Base \in Nat \ {0} BY <1>1
<1>3. c \in Nat /\ c < Base * Base BY <1>2 DEF Instants
<1>4. Low(c) \in 0 .. Base - 1 /\ High(c) \in Int /\ c = High(c) * Base + Low(c)
  BY <1>1, <1>3 DEF Low, High
<1>5. ASSUME NEW x \in Int, NEW y \in Int, x < y
      PROVE  x * Base + Base <= y * Base
  <2>1. PICK d \in Nat : y = x + 1 + d
    <3>1. y - x - 1 \in Nat BY <1>5
    <3>2. y = x + 1 + (y - x - 1) BY <1>5
    <3> QED BY <3>1, <3>2
  <2>2. y * Base = x * Base + Base + d * Base BY <1>1, <2>1
  <2>3. d * Base >= 0 BY <1>1
  <2>4. x * Base \in Int /\ y * Base \in Int /\ d * Base \in Int BY <1>1
  <2> QED BY <1>1, <2>2, <2>3, <2>4
<1>6. ~(High(c) < 0)
  <2>1. High(c) < 0 => High(c) * Base + Base <= 0 * Base BY <1>4, <1>5
  <2> QED BY <2>1, <1>1, <1>3, <1>4
<1>7. ~(Base - 1 < High(c))
  <2>1. Base - 1 < High(c) => Base * Base <= High(c) * Base
    <3>1. CASE Base = High(c) BY <3>1, <1>1, <1>2
    <3>2. CASE Base < High(c)
      <4>1. Base * Base + Base <= High(c) * Base BY <1>1, <1>4, <1>5, <3>2
      <4> QED BY <4>1, <1>1, <1>2, <1>4
    <3>3. Base - 1 < High(c) => Base = High(c) \/ Base < High(c) BY <1>1, <1>4
    <3> QED BY <3>1, <3>2, <3>3
  <2>2. High(c) * Base \in Int BY <1>1, <1>4
  <2> QED BY <2>1, <2>2, <1>1, <1>2, <1>3, <1>4
<1> QED BY <1>1, <1>2, <1>4, <1>6, <1>7

\* A few cycles carry into the high word, or they do not.
LEMMA Advance ==
  ASSUME NEW c \in Instants, NEW d \in 1 .. Base - 1,
         NEW n, n = (c + d) % (Base * Base)
  PROVE  /\ n \in Instants
         /\ Low(c) + d < Base => Low(n) = Low(c) + d /\ High(n) = High(c)
         /\ Low(c) + d >= Base => Low(n) = Low(c) + d - Base /\ High(n) = After(High(c))
<1> DEFINE h == High(c)
           l == Low(c)
<1>1. /\ Base \in Nat \ {0} /\ Base * Base \in Nat \ {0}
      /\ h \in 0 .. Base - 1 /\ l \in 0 .. Base - 1
      /\ c = h * Base + l /\ h * Base \in Nat
  BY Words
<1>2. ASSUME NEW q \in 0 .. Base - 1, NEW r \in 0 .. Base - 1, c + d = q * Base + r
      PROVE  n = c + d /\ Low(n) = r /\ High(n) = q
  <2>1. q * Base + r \in 0 .. Base * Base - 1 BY <1>1, RowMajorBound
  <2>2. n = q * Base + r BY <2>1, <1>1, <1>2, Small
  <2>3. (q * Base + r) % Base = r /\ (q * Base + r) \div Base = q
    BY <1>1, Euclid, q \in Int
  <2> QED BY <2>2, <2>3, <1>2 DEF Low, High
<1> HIDE DEF h, l
<1>3. c + d \in Int BY <1>1
<1>4. n \in Instants BY <1>1, <1>3 DEF Instants
<1>5. CASE l + d < Base
  <2>1. c + d = h * Base + (l + d) BY <1>1
  <2>2. l + d \in 0 .. Base - 1 BY <1>1, <1>5
  <2>3. Low(n) = l + d /\ High(n) = h BY <2>1, <2>2, <1>1, <1>2
  <2> QED BY <2>3, <1>1, <1>4, <1>5 DEF h, l
<1>6. CASE l + d >= Base /\ h # Base - 1
  <2>1. (h + 1) * Base = h * Base + Base BY <1>1
  <2>2. c + d = (h + 1) * Base + (l + d - Base) BY <2>1, <1>1
  <2>3. l + d - Base \in 0 .. Base - 1 /\ h + 1 \in 0 .. Base - 1 BY <1>1, <1>6
  <2>4. Low(n) = l + d - Base /\ High(n) = h + 1 BY <2>2, <2>3, <1>2
  <2> QED BY <2>4, <1>1, <1>4, <1>6 DEF h, l, After
<1>7. CASE l + d >= Base /\ h = Base - 1
  <2>1. h * Base = Base * Base - Base BY <1>1, <1>7
  <2>2. c + d = 1 * (Base * Base) + (l + d - Base) BY <2>1, <1>1
  <2>3. l + d - Base \in 0 .. Base - 1 BY <1>1, <1>7
  <2>4. Base <= Base * Base BY <1>1
  <2>5. l + d - Base \in 0 .. Base * Base - 1 BY <2>3, <2>4, <1>1
  <2>6. n = l + d - Base BY <2>2, <2>5, <1>1, Euclid, 1 \in Int
  <2>7. Low(n) = l + d - Base /\ High(n) = 0 BY <2>3, <2>6, <1>1, Small DEF Low, High
  <2> QED BY <2>7, <1>1, <1>4, <1>7 DEF h, l, After
<1> QED BY <1>1, <1>4, <1>5, <1>6, <1>7 DEF h, l

\* What the words were does not depend on when one looks back.
LEMMA Aging ==
  ASSUME NEW c \in Instants, NEW d \in 1 .. Base - 1, NEW k \in Nat, k + d < Base,
         NEW n, n = (c + d) % (Base * Base)
  PROVE  HighAgo(n, k + d) = HighAgo(c, k) /\ LowAgo(n, k + d) = LowAgo(c, k)
<1>1. /\ Base \in Nat \ {0}
      /\ High(c) \in 0 .. Base - 1 /\ Low(c) \in 0 .. Base - 1
  BY Words
<1>2. /\ n \in Instants
      /\ Low(c) + d < Base => Low(n) = Low(c) + d /\ High(n) = High(c)
      /\ Low(c) + d >= Base => Low(n) = Low(c) + d - Base /\ High(n) = After(High(c))
  BY Advance
<1>3. CASE Low(c) + d < Base BY <1>1, <1>2, <1>3 DEF HighAgo, LowAgo
<1>4. CASE Low(c) + d >= Base
  <2>1. Before(After(High(c))) = High(c) BY <1>1 DEF Before, After
  <2>2. k <= Low(c) BY <1>1, <1>4
  <2>3. ~(k + d <= Low(n)) BY <1>1, <1>2, <1>4
  <2> QED BY <1>1, <1>2, <1>4, <2>1, <2>2, <2>3 DEF HighAgo, LowAgo
<1> QED BY <1>1, <1>3, <1>4

-----------------------------------------------------------------------------
(***************************************************************************)
(* The invariant                                                           *)
(***************************************************************************)
\* What one instruction does to the time.
LEMMA Ticking ==
  ASSUME TypeOK, NEW d \in 1 .. MaxTicks, Tick(d)
  PROVE  /\ cycle' \in Instants
         /\ Low(cycle) + d < Base =>
              Low(cycle') = Low(cycle) + d /\ High(cycle') = High(cycle)
         /\ Low(cycle) + d >= Base => Low(cycle') = Low(cycle) + d - Base
         /\ \A k \in Nat : k + d < Base =>
              /\ HighAgo(cycle', k + d) = HighAgo(cycle, k)
              /\ LowAgo(cycle', k + d) = LowAgo(cycle, k)
         /\ elapsed' \in Nat
         /\ pc \in Inside =>
              \A k \in Nat : k <= elapsed /\ k + d < Base => k + d <= elapsed'
<1>1. cycle \in Instants BY DEF TypeOK, Instants
<1>2. d \in 1 .. Base - 1 BY TicksAssumption
<1>3. cycle' = (cycle + d) % (Base * Base) BY DEF Tick
<1>4. /\ cycle' \in Instants
      /\ Low(cycle) + d < Base =>
           Low(cycle') = Low(cycle) + d /\ High(cycle') = High(cycle)
      /\ Low(cycle) + d >= Base => Low(cycle') = Low(cycle) + d - Base
  BY <1>1, <1>2, <1>3, Advance
<1>5. \A k \in Nat : k + d < Base =>
        /\ HighAgo(cycle', k + d) = HighAgo(cycle, k)
        /\ LowAgo(cycle', k + d) = LowAgo(cycle, k)
  BY <1>1, <1>2, <1>3, Aging
<1>6. elapsed \in Nat /\ Base \in Nat BY TicksAssumption DEF TypeOK
<1>7. elapsed' = IF pc \in Inside THEN UpTo(Base, elapsed + d) ELSE 0 BY DEF Tick
<1> QED BY <1>4, <1>5, <1>6, <1>7 DEF UpTo

\* The profiled section goes on or ends.
LEMMA SectionTicks ==
  ASSUME TypeOK, Section, NEW d \in 1 .. MaxTicks, Tick(d),
         \/ prof' = prof
         \/ prof = -1 /\ prof' = Low(cycle)
         \/ prof' = -1
  PROVE  Section' /\ profiled' \in Nat
<1>1. cycle \in Instants BY DEF TypeOK, Instants
<1>2. /\ Base \in Nat \ {0} /\ Low(cycle) \in 0 .. Base - 1
  BY <1>1, Words
<1>3. /\ Low(cycle) + d < Base => Low(cycle') = Low(cycle) + d
      /\ Low(cycle) + d >= Base => Low(cycle') = Low(cycle) + d - Base
  BY Ticking
<1>4. profiled \in Nat /\ prof \in -1 .. Base - 1 /\ d \in Nat
  BY TicksAssumption DEF TypeOK
<1>5. profiled' = IF prof' = -1 THEN 0 ELSE profiled + d BY DEF Tick
<1>6. CASE prof' = -1 BY <1>5, <1>6 DEF Section
<1>7. CASE prof' # -1
  <2>1. PICK k \in Int : Low(cycle) = prof' + profiled - k * Base
    <3>1. CASE prof' = prof BY <1>7, <3>1 DEF Section
    <3>2. CASE prof = -1 /\ prof' = Low(cycle)
      <4>1. Low(cycle) = prof' + profiled - 0 * Base BY <1>2, <3>2 DEF Section
      <4> QED BY <4>1, 0 \in Int
    <3> QED BY <1>7, <3>1, <3>2
  <2>2. (k + 1) * Base = k * Base + Base /\ k * Base \in Int BY <1>2
  <2>3. prof' \in Int
    BY <1>2, <1>4
  <2>4. \/ Low(cycle') = prof' + (profiled + d) - k * Base
        \/ Low(cycle') = prof' + (profiled + d) - (k + 1) * Base
    <3> DEFINE low == Low(cycle)
               turns == k * Base
    <3>1. low \in Int /\ turns \in Int /\ low = prof' + profiled - turns
      BY <1>2, <2>1, <2>2
    <3>2. CASE low + d < Base
      <4>1. Low(cycle') = low + d BY <1>3, <3>2
      <4> HIDE DEF low, turns
      <4>2. Low(cycle') = prof' + (profiled + d) - turns BY <1>4, <2>3, <3>1, <4>1
      <4> QED BY <4>2 DEF turns
    <3>3. CASE low + d >= Base
      <4>1. Low(cycle') = low + d - Base BY <1>3, <3>3
      <4>2. (k + 1) * Base = turns + Base BY <2>2
      <4> HIDE DEF low, turns
      <4>3. Low(cycle') = prof' + (profiled + d) - (turns + Base)
        BY <1>2, <1>4, <2>3, <3>1, <4>1
      <4> QED BY <4>2, <4>3
    <3> QED BY <1>2, <1>4, <3>1, <3>2, <3>3
  <2>5. \E t \in Int : Low(cycle') = prof' + profiled' - t * Base
    BY <1>5, <1>7, <2>4, k + 1 \in Int
  <2> QED BY <1>4, <1>5, <1>7, <2>5 DEF Section
<1> QED BY <1>6, <1>7

LEMMA InitInvariant == ASSUME Init PROVE IInv
<1>1. Base \in Nat \ {0} /\ Base * Base \in Nat \ {0}
  <2>1. Base \in Nat \ {0} BY TicksAssumption
  <2> QED BY <2>1
<1>2. TypeOK BY <1>1 DEF Init, TypeOK, Inside
<1>3. Reads /\ ReadsAnInstant /\ Retried /\ Section
  BY DEF Init, Reads, ReadsAnInstant, Retried, Section
<1>4. ProfilesElapsed
  <2>1. 0 % Base = 0 BY <1>1, Small
  <2> QED BY <2>1 DEF Init, ProfilesElapsed
<1> QED BY <1>2, <1>3, <1>4 DEF IInv

\* An instruction that is not one of rdcycle64's loop.
LEMMA OutsideSteps ==
  ASSUME IInv, NEW d \in 1 .. MaxTicks, Tick(d),
         Call \/ Return \/ ProfStart \/ Printf \/ Work
  PROVE  IInv'
<1> USE DEF IInv
<1>1. cycle' \in Instants /\ elapsed' \in Nat BY Ticking
<1>2. cycle \in Instants BY DEF TypeOK, Instants
<1>3. Low(cycle) \in 0 .. Base - 1 /\ Base \in Nat \ {0} /\ Base * Base \in Nat \ {0}
  BY <1>2, Words
<1>4. Section' /\ profiled' \in Nat
  BY SectionTicks DEF Call, Return, ProfStart, Printf, Work, profiler, reader, Low, rdcycle
<1>5. TypeOK'
  BY <1>1, <1>3, <1>4
  DEF TypeOK, Call, Return, ProfStart, Printf, Work, profiler, reader, Low, rdcycle, Inside, Instants
<1>6. Reads' /\ ReadsAnInstant'
  BY DEF Reads, ReadsAnInstant, Call, Return, ProfStart, Printf, Work, profiler, reader
<1>7. Retried'
  BY DEF Retried, Call, Return, ProfStart, Printf, Work, profiler, reader
<1>8. ProfilesElapsed'
  <2>1. CASE Printf
    <3>1. 0 % Base = 0 BY <1>3, Small
    <3> QED BY <2>1, <3>1 DEF Printf, ProfilesElapsed
  <2>2. CASE report' = report BY <2>2 DEF ProfilesElapsed
  <2> QED BY <2>1, <2>2 DEF Call, Return, ProfStart, Work, profiler
<1> QED BY <1>4, <1>5, <1>6, <1>7, <1>8

\* What the steps of the loop leave alone.
LEMMA ReadingFrame ==
  ASSUME IInv, NEW d \in 1 .. MaxTicks, Tick(d), ReadHigh1 \/ ReadLow \/ ReadHigh2
  PROVE  Section' /\ ProfilesElapsed' /\ profiled' \in Nat /\ prof' = prof /\ report' = report
<1>1. prof' = prof /\ report' = report
  BY DEF ReadHigh1, ReadLow, ReadHigh2, profiler
<1>2. Section' /\ profiled' \in Nat BY <1>1, SectionTicks DEF IInv
<1>3. ProfilesElapsed' BY <1>1 DEF IInv, ProfilesElapsed
<1> QED BY <1>1, <1>2, <1>3

LEMMA ReadHigh1Step ==
  ASSUME IInv, NEW d \in 1 .. MaxTicks, Tick(d), ReadHigh1
  PROVE  IInv'
<1> USE DEF IInv
<1>1. cycle \in Instants /\ MaxTicks \in Nat /\ Base \in Nat /\ 5 * MaxTicks <= Base
  BY TicksAssumption DEF TypeOK, Instants
<1>2. High(cycle) \in 0 .. Base - 1 /\ Low(cycle) \in 0 .. Base - 1 BY <1>1, Words
<1>3. Section' /\ ProfilesElapsed' /\ profiled' \in Nat /\ prof' = prof /\ report' = report
  BY ReadingFrame
<1>4. pc' = "low" /\ cyclesh1' = High(cycle) /\ retries' = retries
  BY DEF ReadHigh1, High, rdcycleh
<1>5. TypeOK'
  BY <1>2, <1>3, <1>4, Ticking DEF TypeOK, ReadHigh1, profiler, Inside, Instants
<1>6. HighAgo(cycle', d) = HighAgo(cycle, 0) /\ d <= elapsed'
  <2>1. 0 + d < Base /\ 0 \in Nat /\ 0 <= elapsed /\ 0 + d = d BY <1>1 DEF TypeOK
  <2> QED BY <2>1, Ticking DEF ReadHigh1, Inside
<1>7. HighAgo(cycle, 0) = High(cycle) BY <1>2 DEF HighAgo
<1>8. Reads' BY <1>4, <1>6, <1>7 DEF Reads
<1>9. ReadsAnInstant' BY <1>4 DEF ReadsAnInstant
<1>10. Retried'
  <2>1. ASSUME retries = 1 PROVE Low(cycle') < 4 * MaxTicks /\ High(cycle') = High(cycle)
    <3>1. Low(cycle) < 3 * MaxTicks BY <2>1 DEF Retried, ReadHigh1
    <3> QED BY <3>1, <1>1, <1>2, Ticking
  <2> QED BY <1>4, <2>1 DEF Retried
<1> QED BY <1>3, <1>5, <1>8, <1>9, <1>10

LEMMA ReadLowStep ==
  ASSUME IInv, NEW d \in 1 .. MaxTicks, Tick(d), ReadLow
  PROVE  IInv'
<1> USE DEF IInv
<1>1. cycle \in Instants /\ MaxTicks \in Nat /\ Base \in Nat /\ 5 * MaxTicks <= Base
  BY TicksAssumption DEF TypeOK, Instants
<1>2. High(cycle) \in 0 .. Base - 1 /\ Low(cycle) \in 0 .. Base - 1 BY <1>1, Words
<1>3. Section' /\ ProfilesElapsed' /\ profiled' \in Nat /\ prof' = prof /\ report' = report
  BY ReadingFrame
<1>4. pc = "low" /\ pc' = "high2" /\ cycles' = Low(cycle) /\ cyclesh1' = cyclesh1 /\ retries' = retries
  BY DEF ReadLow, Low, rdcycle
<1>5. TypeOK'
  BY <1>2, <1>3, <1>4, Ticking DEF TypeOK, ReadLow, profiler, Inside, Instants
<1>6. PICK k \in 1 .. MaxTicks : k <= elapsed /\ cyclesh1 = HighAgo(cycle, k)
  BY <1>4 DEF Reads
<1>7. HighAgo(cycle', k + d) = HighAgo(cycle, k) /\ k + d <= elapsed'
  <2>1. k + d < Base /\ k \in Nat BY <1>1
  <2> QED BY <2>1, <1>4, <1>6, Ticking DEF Inside
<1>8. LowAgo(cycle', d) = LowAgo(cycle, 0)
  <2>1. 0 + d < Base /\ 0 \in Nat /\ 0 + d = d BY <1>1
  <2> QED BY <2>1, Ticking
<1>9. LowAgo(cycle, 0) = Low(cycle) BY <1>2 DEF LowAgo
<1>10. Reads'
  <2>1. k + d \in 1 .. 2 * MaxTicks /\ d <= k + d BY <1>1
  <2> QED BY <2>1, <1>4, <1>6, <1>7, <1>8, <1>9 DEF Reads
<1>11. ReadsAnInstant' BY <1>4 DEF ReadsAnInstant
<1>12. Retried'
  <2>1. ASSUME retries = 1
        PROVE  Low(cycle') < 5 * MaxTicks /\ High(cycle') = High(cycle) /\ cyclesh1 = High(cycle)
    <3>1. Low(cycle) < 4 * MaxTicks /\ cyclesh1 = High(cycle) BY <1>4, <2>1 DEF Retried
    <3> QED BY <3>1, <1>1, <1>2, Ticking
  <2> QED BY <1>4, <2>1 DEF Retried
<1> QED BY <1>3, <1>5, <1>10, <1>11, <1>12

\* If the high word is the same, the low word has not overflowed since the first
\* read, so the two words read belong together.
LEMMA ReadHigh2Step ==
  ASSUME IInv, NEW d \in 1 .. MaxTicks, Tick(d), ReadHigh2
  PROVE  IInv'
<1> USE DEF IInv
<1>1. cycle \in Instants /\ MaxTicks \in Nat \ {0} /\ Base \in Nat /\ 5 * MaxTicks <= Base
  BY TicksAssumption DEF TypeOK, Instants
<1>2. /\ High(cycle) \in 0 .. Base - 1 /\ Low(cycle) \in 0 .. Base - 1
      /\ cycle = High(cycle) * Base + Low(cycle) /\ High(cycle) * Base \in Nat
      /\ Base * Base \in Nat \ {0}
  BY <1>1, Words
<1>3. Section' /\ ProfilesElapsed' /\ profiled' \in Nat /\ prof' = prof /\ report' = report
  BY ReadingFrame
<1>4. pc = "high2" /\ cyclesh1' = cyclesh1 /\ cycles' = cycles BY DEF ReadHigh2
<1>5. PICK j \in 1 .. MaxTicks, k \in 1 .. 2 * MaxTicks :
        j <= k /\ k <= elapsed /\ cyclesh1 = HighAgo(cycle, k) /\ cycles = LowAgo(cycle, j)
  BY <1>4 DEF Reads
<1>6. cycle' \in Instants /\ elapsed' \in Nat BY Ticking
<1>7. CASE cyclesh1 = High(cycle)
  <2>1. pc' = "return" /\ value' = cyclesh1 * Base + cycles /\ retries' = retries
    BY <1>7 DEF ReadHigh2, Consistent, High, rdcycleh
  <2>2. k <= Low(cycle)
    <3>1. Before(High(cycle)) # High(cycle) BY <1>1, <1>2 DEF Before
    <3> QED BY <1>5, <1>7, <3>1 DEF HighAgo
  <2>3. cycles = Low(cycle) - j BY <1>1, <1>2, <1>5, <2>2 DEF LowAgo
  <2>4. value' = cycle - j BY <1>1, <1>2, <1>7, <2>1, <2>3
  <2>5. value' \in 0 .. Base * Base - 1
    BY <1>1, <1>2, <1>5, <2>2, <2>4 DEF Instants
  <2>6. TypeOK'
    BY <1>3, <1>4, <1>6, <2>1, <2>5 DEF TypeOK, Inside, Instants
  <2>7. ReadsAnInstant'
    <3>1. j + d \in Nat /\ j + d < Base /\ j \in Nat /\ j <= elapsed /\ d \in Int
      BY <1>1, <1>5 DEF TypeOK
    <3>2. j + d <= elapsed' BY <1>4, <3>1, Ticking DEF Inside
    <3>3. (cycle' - value') % (Base * Base) = j + d
      <4> DEFINE N == Base * Base
                 a == cycle + d
      <4>1. N \in Nat \ {0} /\ a \in Int /\ cycle \in Int
        BY <1>1, <1>2, <3>1 DEF Instants
      <4>2. Base <= N BY <1>1
      <4>3. cycle' = a % N BY DEF Tick
      <4>4. value' = cycle - j BY <2>4
      <4> HIDE DEF N
      <4>5. (a \div N) \in Int /\ (a % N) \in Int /\ a = (a \div N) * N + (a % N)
        <5> HIDE DEF a
        <5> QED BY <4>1
      <4>6. cycle' - value' = (j + d) - (a \div N) * N
        <5> DEFINE turns == (a \div N) * N
        <5>1. turns \in Int BY <4>1, <4>5
        <5>2. cycle' = a - turns BY <4>3, <4>5, <5>1, <4>1
        <5> HIDE DEF turns
        <5> QED BY <4>1, <4>4, <5>1, <5>2, <3>1 DEF turns
      <4>7. ((j + d) - (a \div N) * N) % N = (j + d) % N BY <4>1, <4>5, <3>1, Turns, j + d \in Int
      <4>8. (j + d) % N = j + d BY <4>1, <4>2, <3>1, <1>1, Small
      <4> QED BY <4>6, <4>7, <4>8 DEF N
    <3> QED BY <3>2, <3>3, <2>1 DEF ReadsAnInstant
  <2>8. Reads' /\ Retried' BY <2>1 DEF Reads, Retried
  <2> QED BY <1>3, <2>6, <2>7, <2>8
<1>8. CASE cyclesh1 # High(cycle)
  <2>1. pc' = "high1" /\ value' = value /\ retries' = UpTo(2, retries + 1)
    BY <1>8 DEF ReadHigh2, Consistent, High, rdcycleh
  <2>2. Low(cycle) < 2 * MaxTicks BY <1>1, <1>2, <1>5, <1>8 DEF HighAgo
  <2>3. Low(cycle') < 3 * MaxTicks BY <1>1, <1>2, <2>2, Ticking
  <2>4. retries' = 1 BY <1>4, <1>8, <2>1 DEF Retried, UpTo
  <2>5. TypeOK'
    BY <1>3, <1>4, <1>6, <2>1, <2>4 DEF TypeOK, Inside, Instants
  <2>6. Reads' /\ Retried' /\ ReadsAnInstant'
    BY <2>1, <2>3, <2>4 DEF Reads, Retried, ReadsAnInstant
  <2> QED BY <1>3, <2>5, <2>6
<1> QED BY <1>7, <1>8

\* The difference of the low words is the section, less whole turns.
LEMMA ProfStopStep ==
  ASSUME IInv, NEW d \in 1 .. MaxTicks, Tick(d), ProfStop
  PROVE  IInv'
<1> USE DEF IInv
<1>1. cycle \in Instants BY DEF TypeOK, Instants
<1>2. Base \in Nat \ {0} /\ Low(cycle) \in 0 .. Base - 1 BY <1>1, Words
<1>3. prof' = -1 /\ prof # -1 /\ pc' = "printf" /\ report' = <<(Low(cycle) - prof) % Base, profiled>>
  BY DEF ProfStop, Difference, Low, rdcycle
<1>4. Section' /\ profiled' \in Nat BY <1>3, SectionTicks
<1>5. PICK k \in Int : Low(cycle) = prof + profiled - k * Base BY <1>3 DEF Section
<1>6. prof \in Int /\ profiled \in Nat BY <1>2 DEF TypeOK
<1>7. (Low(cycle) - prof) % Base = profiled % Base
  <2>1. k * Base \in Int BY <1>2
  <2>2. Low(cycle) - prof = profiled - k * Base BY <1>5, <1>6, <2>1
  <2> QED BY <1>2, <1>6, <2>2, Turns, profiled \in Int
<1>8. profiled % Base \in 0 .. Base - 1 BY <1>2, <1>6
<1>9. ProfilesElapsed'
  <2>1. profiled < Base => profiled % Base = profiled BY <1>2, <1>6, Small
  <2> QED BY <1>3, <1>7, <2>1 DEF ProfilesElapsed
<1>10. TypeOK'
  <2>1. cycle' \in Instants /\ elapsed' \in Nat BY Ticking
  <2>2. report' \in (0 .. Base - 1) \X Nat BY <1>3, <1>6, <1>7, <1>8
  <2>3. -1 \in -1 .. Base - 1 BY <1>2
  <2> QED BY <1>3, <1>4, <2>1, <2>2, <2>3 DEF TypeOK, ProfStop, Instants
<1>11. Reads' /\ ReadsAnInstant' /\ Retried'
  BY DEF Reads, ReadsAnInstant, Retried, ProfStop
<1> QED BY <1>4, <1>9, <1>10, <1>11

LEMMA StutterInvariant == ASSUME IInv, UNCHANGED vars PROVE IInv'
BY DEF IInv, TypeOK, Reads, ReadsAnInstant, Retried, Section, ProfilesElapsed,
       vars, reader, profiler

LEMMA Invariance == Spec => []IInv
<1>1. Init => IInv BY InitInvariant
<1>2. IInv /\ [Next]_vars => IInv'
  <2> SUFFICES ASSUME IInv, [Next]_vars PROVE IInv'
    OBVIOUS
  <2>1. CASE UNCHANGED vars BY <2>1, StutterInvariant
  <2>2. CASE Next
    <3>1. PICK d \in 1 .. MaxTicks :
            /\ Call \/ Reading \/ ProfStart \/ ProfStop \/ Printf \/ Work
            /\ Tick(d)
      BY <2>2 DEF Next
    <3>2. CASE Call \/ Return \/ ProfStart \/ Printf \/ Work BY <3>1, <3>2, OutsideSteps
    <3>3. CASE ReadHigh1 BY <3>1, <3>3, ReadHigh1Step
    <3>4. CASE ReadLow BY <3>1, <3>4, ReadLowStep
    <3>5. CASE ReadHigh2 BY <3>1, <3>5, ReadHigh2Step
    <3>6. CASE ProfStop BY <3>1, <3>6, ProfStopStep
    <3> QED BY <3>1, <3>2, <3>3, <3>4, <3>5, <3>6 DEF Reading
  <2> QED BY <2>1, <2>2
<1> QED BY <1>1, <1>2, PTL DEF Spec

-----------------------------------------------------------------------------
\* For words of any size every variable has its type: rdcycle64 returns a value
\* of two words.
THEOREM TypeCorrect == Spec => []TypeOK
<1>1. IInv => TypeOK BY DEF IInv
<1> QED BY <1>1, Invariance, PTL

\* For words of any size, what rdcycle64 returns is a value the counter had
\* between the call and the return, overflow of either word included.
THEOREM ReadsConsistent == Spec => []ReadsAnInstant
<1>1. IInv => ReadsAnInstant BY DEF IInv
<1> QED BY <1>1, Invariance, PTL

\* For words of any size the loop of rdcycle64 starts over at most once, because
\* five instructions take no whole turn of the low word.
THEOREM RetriesAtMostOnce == Spec => []RetriesOnce
<1>1. IInv => RetriesOnce BY DEF IInv, Retried, RetriesOnce
<1> QED BY <1>1, Invariance, PTL

\* For words of any size and sections of any length, prof_stop reports the
\* cycles of the section less whole turns of the low word.
THEOREM ProfileExact == Spec => []ProfilesElapsed
<1>1. IInv => ProfilesElapsed BY DEF IInv
<1> QED BY <1>1, Invariance, PTL
=============================================================================
