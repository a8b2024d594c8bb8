---------------------------- MODULE CycleCounter ----------------------------
(***************************************************************************)
(* The cycle counter of muriscv_nn_util.h on a 32-bit core.  The hardware  *)
(* counter has two words that are read one at a time while it runs:        *)
(* rdcycle64() reads high, low and high again and starts over when the two *)
(* reads of the high word differ.  The profiler keeps the low word only    *)
(* and subtracts in uint32_t.                                              *)
(*                                                                         *)
(* Base stands for 2^32.  Every instruction of the program takes 1 to      *)
(* MaxTicks cycles, what interrupts it included.                           *)
(***************************************************************************)
EXTENDS Integers

CONSTANTS
  Base,       \* values of a word
  MaxTicks,   \* cycles of one instruction of the program
  MaxProfile  \* bound on the cycles of a profiled section

\* Five instructions never take a whole turn of the low word (43 seconds).
ASSUME TicksAssumption ==
  /\ Base \in Nat /\ MaxTicks \in Nat \ {0} /\ MaxProfile \in Nat
  /\ 5 * MaxTicks <= Base

VARIABLES
  cycle,      \* the hardware counter, two words
  pc,         \* the next instruction, "idle" outside of the functions here
  cyclesh1, cycles,  \* what it has read
  value,      \* what it returns
  elapsed,    \* cycles since its call (history)
  retries,    \* turns of its loop that failed (history)
  prof,       \* __prof, or -1 outside of a profiled section
  profiled,   \* cycles since prof_start (history)
  report      \* what prof_stop returns, with the cycles it stands for

reader   == <<pc, cyclesh1, cycles, value, retries>>
profiler == <<prof, report>>
vars == <<cycle, reader, elapsed, profiler, profiled>>

rdcycleh == cycle \div Base
rdcycle  == cycle % Base

\* Between the call of rdcycle64 and its return.
Inside == {"high1", "low", "high2"}

\* The histories saturate.
UpTo(bound, n) == IF n < bound THEN n ELSE bound

\* Time passes after every instruction.
Tick(d) ==
  /\ cycle' = (cycle + d) % (Base * Base)
  /\ elapsed' = IF pc \in Inside THEN UpTo(Base, elapsed + d) ELSE 0
  /\ profiled' = IF prof' = -1 THEN 0 ELSE profiled + d

\* A profiled section starts nothing new after MaxProfile cycles.
SectionGoesOn == prof = -1 \/ profiled < MaxProfile

Init ==
  /\ cycle \in 0 .. Base * Base - 1
  /\ pc = "idle" /\ cyclesh1 = 0 /\ cycles = 0 /\ value = 0
  /\ elapsed = 0 /\ retries = 0
  /\ prof = -1 /\ profiled = 0 /\ report = <<0, 0>>

-----------------------------------------------------------------------------
(***************************************************************************)
(* rdcycle64                                                               *)
(***************************************************************************)
Call ==
  /\ pc = "idle"
  /\ SectionGoesOn
  /\ pc' = "high1"
  /\ retries' = 0
  /\ UNCHANGED <<cyclesh1, cycles, value, profiler>>

ReadHigh1 ==
  /\ pc = "high1"
  /\ cyclesh1' = rdcycleh
  /\ pc' = "low"
  /\ UNCHANGED <<cycles, value, retries, profiler>>

ReadLow ==
  /\ pc = "low"
  /\ cycles' = rdcycle
  /\ pc' = "high2"
  /\ UNCHANGED <<cyclesh1, value, retries, profiler>>

\* Mutations of Consistent: no test, and a test of the wrong words.
AlwaysConsistent(cyclesh2) == TRUE
ComparesLow(cyclesh2) == cycles = cyclesh2

Consistent(cyclesh2) == cyclesh1 = cyclesh2

\* The second read of the high word and the test of the loop.
ReadHigh2 ==
  /\ pc = "high2"
  /\ IF Consistent(rdcycleh)
     THEN /\ value' = cyclesh1 * Base + cycles
          /\ pc' = "return"
          /\ UNCHANGED retries
     ELSE /\ retries' = UpTo(2, retries + 1)
          /\ pc' = "high1"
          /\ UNCHANGED value
  /\ UNCHANGED <<cyclesh1, cycles, profiler>>

\* The locals of the function are gone.
Return ==
  /\ pc = "return"
  /\ pc' = "idle"
  /\ cyclesh1' = 0 /\ cycles' = 0 /\ value' = 0 /\ retries' = 0
  /\ UNCHANGED profiler

Reading == ReadHigh1 \/ ReadLow \/ ReadHigh2 \/ Return

-----------------------------------------------------------------------------
(***************************************************************************)
(* The profiler                                                            *)
(***************************************************************************)
ProfStart ==
  /\ pc = "idle"
  /\ prof = -1
  /\ prof' = rdcycle
  /\ UNCHANGED <<reader, report>>

\* Mutation of Difference: the subtraction is not modular.
PlainDifference(now, then) == now - then

\* uint32_t subtraction.
Difference(now, then) == (now - then) % Base

ProfStop ==
  /\ pc = "idle"
  /\ prof # -1
  /\ report' = <<Difference(rdcycle, prof), profiled>>
  /\ prof' = -1
  /\ pc' = "printf"
  /\ UNCHANGED <<cyclesh1, cycles, value, retries>>

\* Prints the report and returns.
Printf ==
  /\ pc = "printf"
  /\ report' = <<0, 0>>
  /\ pc' = "idle"
  /\ UNCHANGED <<cyclesh1, cycles, value, retries, prof>>

\* The program does something else.
Work ==
  /\ pc = "idle"
  /\ SectionGoesOn
  /\ UNCHANGED <<reader, profiler>>

Next ==
  \E d \in 1 .. MaxTicks :
    /\ Call \/ Reading \/ ProfStart \/ ProfStop \/ Printf \/ Work
    /\ Tick(d)

\* rdcycle64 runs to its end.
Fairness == WF_vars(\E d \in 1 .. MaxTicks : Reading /\ Tick(d))

Spec == Init /\ [][Next]_vars /\ Fairness

-----------------------------------------------------------------------------
TypeOK ==
  /\ cycle \in 0 .. Base * Base - 1
  /\ pc \in Inside \cup {"idle", "return", "printf"}
  /\ {cyclesh1, cycles} \subseteq 0 .. Base - 1
  /\ value \in 0 .. Base * Base - 1
  /\ {elapsed, retries, profiled} \subseteq Nat
  /\ prof \in -1 .. Base - 1
  /\ report \in (0 .. Base - 1) \X Nat

\* "Ensure, that we are never reading inconsistent values from the 64bit
\* hardware register": what rdcycle64 returns is a value the counter had
\* during the call, although no instruction reads both words.
ReadsAnInstant == pc = "return" => (cycle - value) % (Base * Base) <= elapsed

\* The loop starts over at most once: the low word cannot overflow in two
\* turns that follow each other.
RetriesOnce == retries <= 1

\* rdcycle64 returns.
Returns == pc = "high1" ~> pc = "idle"

\* The 32-bit subtraction of the profiler is right across an overflow of the
\* low word; a section longer than a turn of it loses the whole turns.
ProfilesElapsed ==
  /\ report[1] = report[2] % Base
  /\ report[2] < Base => report[1] = report[2]
=============================================================================
