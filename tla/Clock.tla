------------------------------- MODULE Clock -------------------------------
(***************************************************************************)
(* The clock of the Go bot (clock/clock.go).  Run sleeps until the next    *)
(* tick and then ticks every child iterator, forever.                      *)
(*                                                                         *)
(* Wall time only matters modulo the tick size: instant counts the         *)
(* smallest units of time.Duration (nanoseconds in the code) since the     *)
(* last multiple of TickSize seconds.                                      *)
(***************************************************************************)
EXTENDS Integers

CONSTANTS
  TickSize,   \* Clock.TickSize, in seconds
  Second      \* units of time.Duration in a second

ASSUME ClockAssumption == TickSize \in Nat \ {0} /\ Second \in Nat \ {0}

VARIABLES
  instant,   \* time.Now(), modulo TickSize seconds
  left       \* what is left of time.Sleep

clockVars == <<instant, left>>

ClockOK ==
  /\ instant \in 0 .. TickSize * Second - 1
  /\ left \in 0 .. TickSize

ClockInit == instant = 0 /\ left = 0

\* Clock.CurrentTick is 0 in DefaultClock and nothing ever sets it
CurrentTick == 0

\* nextTickTime - now, in seconds since Unix(); time.Duration takes it as a
\* number of its own unit: the sleep is far shorter than meant
SleepUntilNextTick ==
  /\ left' = TickSize - instant \div Second
  /\ UNCHANGED instant

\* time.Sleep is over: the children are ticked
Wake ==
  /\ left = 0
  /\ UNCHANGED clockVars

TimePasses ==
  /\ instant' = (instant + 1) % (TickSize * Second)
  /\ left' = IF left = 0 THEN 0 ELSE left - 1
=============================================================================
