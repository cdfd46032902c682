----------------------------- MODULE DisplayClocks -----------------------------
(***************************************************************************)
(* Two fixes of IGFX for clocks of the display engine.  The core display   *)
(* clock fix: before the driver of Ice Lake probes the clock, which panics *)
(* on low frequencies, one that is too low is reprogrammed.  The HDMI      *)
(* dividers fix: a search for the dividers of a pixel clock replaces the   *)
(* one of the driver, which may not end.                                   *)
(* Frequencies of the search are in units of 32 Hz, so that all of its     *)
(* constants are integers and fit into TLC's, and its 32-bit product wraps *)
(* at 2^27; those of the core display clock are in units of 100 kHz.       *)
(***************************************************************************)
EXTENDS Integers, Sequences

CONSTANTS Firmware,       \* clocks the firmware may leave, as in CDCLK_CTL
          References,     \* values of bits 29 to 31 of DSSM
          PixelClocks,    \* asked for by the driver
          NoClock          \* no PLL, no pixel clock and no parameters

ASSUME ClocksAssumption == /\ Firmware \subseteq Nat /\ References \subseteq Nat
                           /\ PixelClocks \subseteq Nat \ {0} /\ NoClock \notin Nat

VARIABLES reference,
          firmwareClock,  \* the clock that the firmware has left
          cdclk,          \* bits 0 to 10 of CDCLK_CTL
          pll,            \* frequency of the PLL, 0 when it is disabled
          clocksPc,
          pixelClock, parameters
clocksVars == <<reference, firmwareClock, cdclk, pll, clocksPc, pixelClock, parameters>>

ClocksTypeOK == /\ reference \in References
                /\ firmwareClock \in Firmware /\ cdclk \in Nat /\ pll \in Nat
                /\ clocksPc \in {"boot", "disabled", "original", "running", "panicked"}
                /\ pixelClock \in PixelClocks \cup {NoClock}
                /\ parameters = NoClock \/ DOMAIN parameters =
                     {"pdiv", "qdiv", "kdiv", "multiplier", "fraction", "cf15625"}

-----------------------------------------------------------------------------
\* Core display clock

ICL_CDCLK_FREQ_648_0 == 1294

\* The encoding of the clock that a PLL yields, which is half of its frequency
Decimal(frequency) == (frequency - 15) \div 10

\* The PLL ratios of the hardware reference frequencies
NewPLL == CASE reference = 0 -> 240 * 54
            [] reference = 1 -> 192 * 68
            [] reference = 2 -> 384 * 34
            [] OTHER -> NoClock

ClocksInit == /\ reference \in References
              /\ firmwareClock \in Firmware
              /\ cdclk = firmwareClock
              /\ pll = 1
              /\ clocksPc = "boot"
              /\ pixelClock = NoClock /\ parameters = NoClock

\* Mutated form of IsLow: the threshold itself counts as too low.
IsLowOrEqual(clock) == clock <= ICL_CDCLK_FREQ_648_0

IsLow(clock) == clock < ICL_CDCLK_FREQ_648_0

\* wrapProbeCDClockFrequency, and sanitizeCDClockFrequency up to disableCDClock
ProbeCDClock ==
  /\ clocksPc = "boot"
  /\ \/ /\ IsLow(cdclk) /\ NewPLL # NoClock
        /\ pll' = 0
        /\ clocksPc' = "disabled"
     \/ /\ ~IsLow(cdclk) \/ NewPLL = NoClock
        /\ clocksPc' = "original"
        /\ UNCHANGED pll
  /\ UNCHANGED <<reference, firmwareClock, cdclk, pixelClock, parameters>>

\* setCDClockFrequency programs the PLL and enables it again.
SetCDClock ==
  /\ clocksPc = "disabled"
  /\ pll' = NewPLL
  /\ cdclk' = Decimal(NewPLL)
  /\ clocksPc' = "original"
  /\ UNCHANGED <<reference, firmwareClock, pixelClock, parameters>>

\* The driver's own function
OriginalProbe ==
  /\ clocksPc = "original"
  /\ clocksPc' = IF cdclk < ICL_CDCLK_FREQ_648_0 THEN "panicked" ELSE "running"
  /\ UNCHANGED <<reference, firmwareClock, cdclk, pll, pixelClock, parameters>>

-----------------------------------------------------------------------------
\* HDMI dividers

Dividers ==
  <<4, 6, 8, 10, 12, 14, 16, 18, 20, 24, 28, 30, 32, 36, 40, 42, 44, 48, 52, 54, 56,
    60, 64, 66, 68, 70, 72, 76, 78, 80, 84, 88, 90, 92, 96, 98, 3, 5, 7, 9, 15, 21, 35>>
CentralFrequencies == <<262500000, 281250000, 300000000>>
TwentyFourMHz == 750000
UInt32 == 134217728

\* |frequency - central| * 10000 / central
Deviation(frequency, central) ==
  (IF frequency > central THEN frequency - central ELSE central - frequency)
    \div (central \div 10000)

\* Mutated form of InRange: both bounds are the negative one.
InRangeOfSix(frequency, central) == Deviation(frequency, central) < 600

\* Within +1 % and -6 % of the central frequency
InRange(frequency, central) ==
  Deviation(frequency, central) < IF frequency >= central THEN 100 ELSE 600

Context == [minDeviation |-> UInt32, central |-> 0, frequency |-> 0, divider |-> 0]

\* Bound of the model: a product beyond twice the largest central frequency, which is
\* not in range, is not multiplied out.
MaxProduct == 600000000

\* The two loops, dividers in the outer one.
Settings ==
  [n \in 1..(3 * Len(Dividers)) |->
     [divider |-> Dividers[((n - 1) \div 3) + 1],
      central |-> CentralFrequencies[((n - 1) % 3) + 1]]]

\* What the search knows after one setting more.
Better(context, s, afeClock) ==
  LET frequency == s.divider * afeClock
      deviation == Deviation(frequency, s.central)
  IN  IF /\ s.divider <= MaxProduct \div afeClock
         /\ InRange(frequency, s.central)
         /\ deviation < context.minDeviation
      THEN [minDeviation |-> deviation, central |-> s.central,
            frequency |-> frequency, divider |-> s.divider]
      ELSE context

\* Leaving the inner loop early at a deviation of 0 is left out: no deviation is
\* smaller.
Search(afeClock) ==
  LET found[n \in 0..Len(Settings)] ==
        IF n = 0 THEN Context ELSE Better(found[n - 1], Settings[n], afeClock)
  IN  found[Len(Settings)]

\* populateP0P1P2
P0P1P2(p) ==
  LET half == p \div 2 IN
  IF p % 2 = 0
  THEN CASE half \in {1, 2, 3, 5} -> <<2, 1, half>>
         [] half # 2 /\ half % 2 = 0 -> <<2, half \div 2, 2>>
         [] half # 3 /\ half % 2 = 1 /\ half % 3 = 0 -> <<3, half \div 3, 2>>
         [] half % 2 = 1 /\ half % 3 # 0 /\ half % 7 = 0 -> <<7, half \div 7, 2>>
         [] OTHER -> <<0, 0, 0>>
  ELSE CASE p \in {3, 9} -> <<3, 1, p \div 3>>
         [] p \in {5, 7} -> <<p, 1, 1>>
         [] p = 15 -> <<3, 1, 5>>
         [] p = 21 -> <<7, 1, 3>>
         [] p = 35 -> <<7, 1, 5>>
         [] OTHER -> <<0, 0, 0>>

\* What is stored.  The product of multiplier and 24 MHz wraps at 32 bits, and so
\* does the difference.
Parameters(context) ==
  LET p == P0P1P2(context.divider)
      multiplier == context.frequency \div TwentyFourMHz
      product == (multiplier * TwentyFourMHz) % UInt32
  IN [pdiv |-> p[1], qdiv |-> p[2], kdiv |-> p[3], multiplier |-> multiplier,
      fraction |-> (context.frequency - product) % UInt32,
      cf15625 |-> (context.central \div 15625) * 32]

\* wrapComputeHdmiP0P1P2.  Without a divider the parameters are left alone.
ComputeHdmiP0P1P2 ==
  /\ clocksPc = "running"
  /\ \E clock \in PixelClocks :
       LET context == Search(5 * clock) IN
       /\ pixelClock' = clock
       /\ parameters' = IF context.divider = 0 THEN parameters ELSE Parameters(context)
  /\ UNCHANGED <<reference, firmwareClock, cdclk, pll, clocksPc>>

ClocksNext == ProbeCDClock \/ SetCDClock \/ OriginalProbe \/ ComputeHdmiP0P1P2

ClocksSpec == ClocksInit /\ [][ClocksNext]_clocksVars

-----------------------------------------------------------------------------
\* Whatever clock the firmware has left, the driver finds one that it supports,
\* unless the reference frequency is not known; the PLL is enabled by then, and a
\* clock that was good is left as the firmware set it.
ClockIsSupported ==
  /\ clocksPc = "panicked" => reference \notin 0..2
  /\ clocksPc \in {"original", "running"} =>
       /\ pll # 0
       /\ firmwareClock >= ICL_CDCLK_FREQ_648_0 \/ reference \notin 0..2 =>
            cdclk = firmwareClock
       /\ firmwareClock < ICL_CDCLK_FREQ_648_0 /\ reference \in 0..2 =>
            cdclk = IF reference = 0 THEN 1294 ELSE 1304

\* Settings that the hardware allows for a pixel clock, a place in Dividers and one
\* in CentralFrequencies: within +1 % and -6 % of the latter
DCO(clock, divider) == divider * 5 * clock
Allowed(clock) ==
  {s \in (DOMAIN Dividers) \X (DOMAIN CentralFrequencies) :
     /\ Dividers[s[1]] <= MaxProduct \div (5 * clock)
     /\ LET percent == CentralFrequencies[s[2]] \div 100
            off == DCO(clock, Dividers[s[1]]) - CentralFrequencies[s[2]]
        IN off < percent /\ -off < 6 * percent}

\* Distance from the central frequency in steps of 0.01 %
Distance(clock, s) ==
  LET off == DCO(clock, Dividers[s[1]]) - CentralFrequencies[s[2]]
  IN (IF off < 0 THEN -off ELSE off) \div (CentralFrequencies[s[2]] \div 10000)

\* When the hardware has a setting for the pixel clock, the driver gets one: the
\* three dividers make up one of the list, multiplier and fraction make up exactly
\* its DCO frequency although their computation wraps at 32 bits, no setting that
\* is allowed is nearer to its central frequency, and none that is as near comes
\* earlier in the list, so that an even divider is preferred.
DividersAreBest ==
  pixelClock # NoClock =>
    LET allowed == Allowed(pixelClock)
        divider == parameters.pdiv * parameters.qdiv * parameters.kdiv
    IN allowed # {} =>
         \E s \in allowed :
           /\ Dividers[s[1]] = divider
           /\ CentralFrequencies[s[2]] = (parameters.cf15625 \div 32) * 15625
           /\ parameters.fraction < TwentyFourMHz
           /\ parameters.multiplier * TwentyFourMHz + parameters.fraction
                = DCO(pixelClock, divider)
           /\ \A t \in allowed :
                \/ Distance(pixelClock, s) < Distance(pixelClock, t)
                \/ /\ Distance(pixelClock, s) = Distance(pixelClock, t)
                   /\ s[1] <= t[1]
================================================================================
