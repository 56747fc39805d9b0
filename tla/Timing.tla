------------------------------- MODULE Timing -------------------------------
(***************************************************************************)
(* The delays and intervals that the library gives its callers (timing.ts):*)
(* AdaptiveBackoff with an application that asks for delays and resets it, *)
(* and PollRateLimiter with one that marks its polls.  Numbers are whole;  *)
(* the constructors' refusals are the assumption.                          *)
(***************************************************************************)
EXTENDS Integers

CONSTANTS
  Initial, Multiplier, Maximum,  \* options of the AdaptiveBackoff
  Interval,                      \* of the PollRateLimiter
  MaxDelays,                     \* bound of the delays asked for in a row
  MaxTime                        \* bound of the clock

ASSUME OptionsAssumption ==
  /\ Initial \in Nat \ {0} /\ Multiplier \in Nat \ {0} /\ Maximum \in Nat /\ Maximum >= Initial
  /\ Interval \in Nat

VARIABLES
  current,      \* of the AdaptiveBackoff
  unbounded,    \* history: the delay there would be without a maximum
  delays,       \* history: delays since the last reset
  clock,        \* the monotonic clock, in seconds
  nextAllowed,  \* of the PollRateLimiter
  marks         \* history: when polls were marked

timingVars == <<current, unbounded, delays, clock, nextAllowed, marks>>

Least(a, b) == IF a <= b THEN a ELSE b

TimingInit ==
  /\ current = Initial /\ unbounded = Initial /\ delays = 0
  /\ clock = 0 /\ nextAllowed = 0 /\ marks = {}

\* The caller gets current.
NextDelay ==
  /\ delays < MaxDelays
  /\ current' = Least(current * Multiplier, Maximum)
  /\ unbounded' = unbounded * Multiplier /\ delays' = delays + 1
  /\ UNCHANGED <<clock, nextAllowed, marks>>

Reset ==
  /\ current' = Initial /\ unbounded' = Initial /\ delays' = 0
  /\ UNCHANGED <<clock, nextAllowed, marks>>

Remaining == IF nextAllowed - clock > 0 THEN nextAllowed - clock ELSE 0

Allow == Remaining <= 0

\* Faulty variant: intervals follow each other whenever polls are marked.
MarkInARow ==
  /\ nextAllowed' = nextAllowed + Interval /\ marks' = marks \cup {clock}
  /\ UNCHANGED <<current, unbounded, delays, clock>>

\* mark() does not look at allow().
Mark ==
  /\ nextAllowed' = clock + Interval /\ marks' = marks \cup {clock}
  /\ UNCHANGED <<current, unbounded, delays, clock>>

Tick == clock < MaxTime /\ clock' = clock + 1 /\ UNCHANGED <<current, unbounded, delays, nextAllowed, marks>>

TimingNext == NextDelay \/ Reset \/ Mark \/ Tick

TimingSpec == TimingInit /\ [][TimingNext]_timingVars

-----------------------------------------------------------------------------
(* Properties *)

\* Bounding every delay gives what bounding the unbounded delay gives: delays
\* grow by the multiplier until they stay at the maximum, after every reset
\* (timing.ts 36-44).
DelaysGrowToMaximum == current = Least(unbounded, Maximum)

\* A poll is allowed exactly if none was marked within the interval before it,
\* also if polls were marked that were not allowed (timing.ts 69-83).
AllowedIffIntervalOver == Allow <=> \A t \in marks : t + Interval <= clock
=============================================================================
