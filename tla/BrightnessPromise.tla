------------------------- MODULE BrightnessPromise -------------------------
(***************************************************************************)
(* What the backlight smoother promises, without its threads: the driver   *)
(* asks for levels, the panel's level only ever moves toward the level     *)
(* that some request asked for, kept inside the configured range.          *)
(***************************************************************************)
EXTENDS Integers

CONSTANTS MaxLevel,     \* largest brightness level a register can hold
          LowerBound,   \* brightnessRange.first
          UpperBound    \* brightnessRange.second

VARIABLES level,        \* brightness level the panel shows
          goal,         \* level of the most recent request
          asked,        \* has anything been requested yet?
          dest          \* level the panel is being moved to

vars == <<level, goal, asked, dest>>

Levels == 0..MaxLevel

\* The level a request for l ends at: l, moved into the configured range.
Clamp(l) ==
  LET raised == IF l < LowerBound THEN LowerBound ELSE l
  IN  IF raised > UpperBound THEN UpperBound ELSE raised

\* x lies on the way from a to b.
Between(x, a, b) == (a <= x /\ x <= b) \/ (b <= x /\ x <= a)

Init == /\ level \in Levels
        /\ goal = 0
        /\ asked = FALSE
        /\ dest = Clamp(0)

Request == /\ goal' \in Levels
           /\ asked' \in {asked, TRUE}
           /\ UNCHANGED <<level, dest>>

Retarget == /\ dest # Clamp(goal)
            /\ dest' = Clamp(goal)
            /\ UNCHANGED <<level, goal, asked>>

Move == /\ asked
        /\ level # dest
        /\ level' \in Levels \ {level}
        /\ Between(level', level, dest)
        /\ UNCHANGED <<goal, asked, dest>>

Next == Request \/ Retarget \/ Move

Safety == Init /\ [][Next]_vars
=============================================================================
