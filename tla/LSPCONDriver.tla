---------------------------- MODULE LSPCONDriver ----------------------------
(***************************************************************************)
(* The driver of the onboard LSPCON chips (DisplayPort to HDMI adapters).  *)
(* Apple's GetDPCDInfo is wrapped: for a connector the user marked, the    *)
(* chip is probed once and then brought into the preferred mode at each    *)
(* call, over a channel that may fail and with a chip that switches its    *)
(* mode with a delay and falls back to Level Shifter on a power cycle.     *)
(*                                                                         *)
(* Each connector has its own channel, and the framebuffer controller      *)
(* calls GetDPCDInfo of one connector from one thread at a time.           *)
(***************************************************************************)
EXTENDS Integers

CONSTANTS ConnectorCount,   \* MaxFramebufferConnectorCount
          Attempts,         \* reads of getMode (5)
          Timeout,          \* setMode's time to wait in ms (200) ...
          Interval          \* ... and the sleep between two reads (20)

ASSUME ConnectorAssumption == ConnectorCount \in Nat \ {0}
ASSUME AttemptsAssumption == Attempts \in Nat \ {0}
ASSUME TimeoutAssumption == /\ Interval \in Nat \ {0}
                            /\ Timeout \in Nat \ {0}
                            /\ Timeout % Interval = 0

Connectors == 0..(ConnectorCount - 1)

VARIABLES has,          \* has[c]: framebuffer-conX-has-lspcon
          prop,         \* prop[c]: framebuffer-conX-preferred-lspcon-mode
          preferred,    \* preferred[c]: the mode processKernel derived
          chip,         \* chip[c]: is an LSPCON adapter at the connector?
          mode,         \* mode[c]: mode the adapter runs in
          wanted,       \* wanted[c]: mode it has been told to change to
          answers,      \* answers[c]: does the I2C-over-AUX channel work now?
          driver,       \* driver[c]: is lspcons[c].lspcon set?
          first,        \* first[c]: the call is the one that probes
          lspconPc,     \* lspconPc[c]: where the call of GetDPCDInfo is
          attempt,      \* attempt[c]: failed reads of this getMode
          timeout,      \* timeout[c]: setMode's remaining time
          lspconResult  \* lspconResult[c]: setModeIfNecessary's return value

config == <<has, prop, preferred, chip>>
lspconVars == <<has, prop, preferred, chip, mode, wanted, answers, driver, first,
                lspconPc, attempt, timeout, lspconResult>>

-----------------------------------------------------------------------------
Modes == {"LS", "PCON"}
Absent == -1                \* the property is not there

\* Mode::parse: only the lowest bit counts, so no raw value is invalid.
Parse(raw) == IF raw % 2 = 1 THEN "PCON" ELSE "LS"

\* pmode after connector c: it is declared outside of the loop, so that a
\* connector without the property keeps the value of the one before.
PModeRaw(p) ==
  LET pmode[c \in -1..(ConnectorCount - 1)] ==
        IF c = -1 THEN 1 ELSE IF p[c] = Absent THEN pmode[c - 1] ELSE p[c]
  IN  pmode

\* processKernel's loop over the connectors.
PreferredModes(p) ==
  [c \in Connectors |-> Parse(IF PModeRaw(p)[c] # 0 THEN 1 ELSE 0)]

LspconInit == /\ has \in [Connectors -> BOOLEAN]
              /\ prop \in [Connectors -> {Absent, 0, 1, 2}]
              /\ preferred = PreferredModes(prop)
              /\ chip \in [Connectors -> BOOLEAN]
              /\ mode \in [Connectors -> Modes]
              /\ wanted = mode
              /\ answers \in [Connectors -> BOOLEAN]
              /\ driver = [c \in Connectors |-> FALSE]
              /\ first = [c \in Connectors |-> FALSE]
              /\ lspconPc = [c \in Connectors |-> "idle"]
              /\ attempt = [c \in Connectors |-> 0]
              /\ timeout = [c \in Connectors |-> 0]
              /\ lspconResult = [c \in Connectors |-> "none"]

At(c, l) == lspconPc[c] = l
Continue(c, l) == lspconPc' = [lspconPc EXCEPT ![c] = l]

hardware == <<mode, wanted, answers>>

\* wrapGetDPCDInfo calls setupLSPCON.  The framebuffer's index may be missing;
\* a connector that is not marked is left alone; one without driver is probed.
GetDPCDInfo(c) ==
  /\ At(c, "idle")
  /\ lspconResult' = [lspconResult EXCEPT ![c] = "none"]
  /\ \/ Continue(c, "original") /\ UNCHANGED first
     \/ /\ has[c]
        /\ first' = [first EXCEPT ![c] = ~driver[c]]
        /\ Continue(c, IF driver[c] THEN "running" ELSE "probe")
  /\ UNCHANGED <<config, hardware, driver, attempt, timeout>>

\* Mutated form of Probe: the adapter's identification is not checked.
ProbeAnyChip(c) ==
  /\ At(c, "probe")
  /\ IF answers[c]
     THEN driver' = [driver EXCEPT ![c] = TRUE] /\ Continue(c, "running")
     ELSE UNCHANGED driver /\ Continue(c, "original")
  /\ UNCHANGED <<config, hardware, first, attempt, timeout, lspconResult>>

\* The adapter info is read; a driver is kept only for an LSPCON chip.
Probe(c) ==
  /\ At(c, "probe")
  /\ IF answers[c] /\ chip[c]
     THEN driver' = [driver EXCEPT ![c] = TRUE] /\ Continue(c, "running")
     ELSE UNCHANGED driver /\ Continue(c, "original")
  /\ UNCHANGED <<config, hardware, first, attempt, timeout, lspconResult>>

\* setModeIfNecessary returns r; on all but the first call the native channel
\* is woken up when the preferred mode is PCON.
Returns(c, r) ==
  /\ lspconResult' = [lspconResult EXCEPT ![c] = r]
  /\ Continue(c, IF ~first[c] /\ preferred[c] = "PCON" THEN "wake" ELSE "original")

\* getMode reads the current mode; l is the place that called it.
ReadFails(c) ==
  /\ ~answers[c]
  /\ attempt' = [attempt EXCEPT ![c] = IF @ + 1 = Attempts THEN 0 ELSE @ + 1]

ReadSucceeds(c) ==
  /\ answers[c]
  /\ attempt' = [attempt EXCEPT ![c] = 0]

\* Mutated form of IsRunningInMode: a failed read counts as the right mode.
IsRunningUnread(c) ==
  /\ At(c, "running")
  /\ ReadFails(c) \/ ReadSucceeds(c)
  /\ IF answers[c] /\ mode[c] # preferred[c]
     THEN Continue(c, "write") /\ UNCHANGED lspconResult
     ELSE Returns(c, "success")
  /\ UNCHANGED <<config, hardware, driver, first, timeout>>

\* isRunningInMode: a mode that cannot be read is taken for another mode.
IsRunningInMode(c) ==
  /\ At(c, "running")
  /\ \/ /\ ReadSucceeds(c)
        /\ IF mode[c] = preferred[c]
           THEN Returns(c, "success")
           ELSE Continue(c, "write") /\ UNCHANGED lspconResult
     \/ /\ ReadFails(c)
        /\ IF attempt[c] + 1 = Attempts THEN Continue(c, "write") ELSE UNCHANGED lspconPc
        /\ UNCHANGED lspconResult
  /\ UNCHANGED <<config, hardware, driver, first, timeout>>

\* Mutated form of WriteMode: the current mode is written back.
WriteCurrentMode(c) ==
  /\ At(c, "write")
  /\ wanted' = [wanted EXCEPT ![c] = mode[c]]
  /\ timeout' = [timeout EXCEPT ![c] = Timeout]
  /\ Continue(c, "verify")
  /\ UNCHANGED <<config, mode, answers, driver, first, attempt, lspconResult>>

\* setMode writes the new mode.  A write that is reported as failed may have
\* reached the adapter.
WriteMode(c) ==
  /\ At(c, "write")
  /\ \/ /\ answers[c]
        /\ wanted' = [wanted EXCEPT ![c] = preferred[c]]
        /\ timeout' = [timeout EXCEPT ![c] = Timeout]
        /\ Continue(c, "verify")
        /\ UNCHANGED lspconResult
     \/ /\ ~answers[c]
        /\ wanted' \in {wanted, [wanted EXCEPT ![c] = preferred[c]]}
        /\ Returns(c, "error")
        /\ UNCHANGED timeout
  /\ UNCHANGED <<config, mode, answers, driver, first, attempt>>

\* Mutated form of Verify: the time is never used up.
VerifyForever(c) ==
  /\ At(c, "verify")
  /\ \/ ReadFails(c) /\ UNCHANGED <<lspconPc, lspconResult>>
     \/ /\ ReadSucceeds(c)
        /\ IF mode[c] = preferred[c]
           THEN Returns(c, "success")
           ELSE UNCHANGED <<lspconPc, lspconResult>>
  /\ UNCHANGED <<config, hardware, driver, first, timeout>>

\* setMode waits for the mode to become effective.  A failed getMode does not
\* use up the time; after a timeout the last read's success is returned.
Verify(c) ==
  /\ At(c, "verify")
  /\ \/ /\ ReadFails(c)
        /\ UNCHANGED <<lspconPc, timeout, lspconResult>>
     \/ /\ ReadSucceeds(c)
        /\ IF mode[c] = preferred[c]
           THEN Returns(c, "success") /\ UNCHANGED timeout
           ELSE /\ timeout' = [timeout EXCEPT ![c] = @ - Interval]
                /\ IF timeout[c] = Interval
                   THEN Returns(c, "success")
                   ELSE UNCHANGED <<lspconPc, lspconResult>>
  /\ UNCHANGED <<config, hardware, driver, first>>

\* wakeUpNativeAUX reads one native register; its result is only logged.
WakeUpNativeAUX(c) ==
  /\ At(c, "wake")
  /\ Continue(c, "original")
  /\ UNCHANGED <<config, hardware, driver, first, attempt, timeout, lspconResult>>

\* The original GetDPCDInfo runs and its result is returned.
Original(c) ==
  /\ At(c, "original")
  /\ Continue(c, "idle")
  /\ UNCHANGED <<config, hardware, driver, first, attempt, timeout, lspconResult>>

Setup(c) == \/ Probe(c) \/ IsRunningInMode(c) \/ WriteMode(c) \/ Verify(c)
            \/ WakeUpNativeAUX(c) \/ Original(c)

\* The adapter carries out a mode change some time after it was told to.
Switch(c) ==
  /\ mode[c] # wanted[c]
  /\ mode' = [mode EXCEPT ![c] = wanted[c]]
  /\ UNCHANGED <<config, wanted, answers, driver, first, lspconPc, attempt, timeout,
                 lspconResult>>

\* A power cycle brings the adapter back to Level Shifter mode.
PowerCycle(c) ==
  /\ mode' = [mode EXCEPT ![c] = "LS"]
  /\ wanted' = [wanted EXCEPT ![c] = "LS"]
  /\ UNCHANGED <<config, answers, driver, first, lspconPc, attempt, timeout,
                 lspconResult>>

\* The channel starts or stops answering.
Channel(c) ==
  /\ answers' = [answers EXCEPT ![c] = ~@]
  /\ UNCHANGED <<config, mode, wanted, driver, first, lspconPc, attempt, timeout,
                 lspconResult>>

LspconNext == \E c \in Connectors : \/ GetDPCDInfo(c) \/ Setup(c)
                                    \/ Switch(c) \/ PowerCycle(c) \/ Channel(c)

\* A call that has begun goes on, and the adapter carries out its changes.
LspconSpec == /\ LspconInit /\ [][LspconNext]_lspconVars
              /\ \A c \in Connectors : WF_lspconVars(Setup(c)) /\ WF_lspconVars(Switch(c))

-----------------------------------------------------------------------------
\* Properties

\* The counters of getMode and setMode keep their ranges: the remaining time
\* never passes below zero.
LspconTypeOK ==
  /\ has \in [Connectors -> BOOLEAN]
  /\ preferred \in [Connectors -> Modes]
  /\ mode \in [Connectors -> Modes] /\ wanted \in [Connectors -> Modes]
  /\ driver \in [Connectors -> BOOLEAN] /\ first \in [Connectors -> BOOLEAN]
  /\ lspconPc \in [Connectors -> {"idle", "probe", "running", "write", "verify",
                            "wake", "original"}]
  /\ attempt \in [Connectors -> 0..(Attempts - 1)]
  /\ timeout \in [Connectors -> 0..Timeout]
  /\ lspconResult \in [Connectors -> {"none", "success", "error"}]

\* The mode of a connector is only changed through a driver that has probed an
\* LSPCON chip there, and only to the connector's preferred mode: no write to
\* another adapter, and none for a connector the user did not mark
\* (setupLSPCON's guards).
OnlyProbedChips ==
  [][\A c \in Connectors :
       wanted'[c] # wanted[c] /\ wanted'[c] # "LS" =>
         has[c] /\ chip[c] /\ driver[c] /\ wanted'[c] = preferred[c]]_lspconVars

\* setModeIfNecessary reports success only when the preferred mode has been
\* read back, or when its waiting time is used up.
SuccessIsConfirmed ==
  [][\A c \in Connectors :
       lspconResult[c] = "none" /\ lspconResult'[c] = "success" =>
         \/ mode[c] = preferred[c]
         \/ (lspconPc[c] = "verify" /\ timeout'[c] = 0)]_lspconVars

\* A channel that works again lets every call of GetDPCDInfo come back, so the
\* framebuffer controller is not blocked for ever.
CallsReturn ==
  \A c \in Connectors : <>[](answers[c]) => []<>(lspconPc[c] = "idle")

\* Once the channel works, nobody cuts the power and the controller keeps
\* calling for a connector with a driver, the chip runs in the preferred mode.
PreferredModeReached ==
  \A c \in Connectors :
    (/\ <>[](answers[c] /\ driver[c])
     /\ <>[][~PowerCycle(c)]_lspconVars
     /\ []<>(lspconPc[c] = "running"))
    => <>[](mode[c] = preferred[c])

-----------------------------------------------------------------------------
\* What the comments and the manual say, and the code does not do

\* "This method will return the result of the last attempt if timed out"
\* (kern_igfx_lspcon.hpp:335): a call comes back also when the channel stops
\* answering for good.
CallsReturnAfterFailure ==
  \A c \in Connectors : <>[](~answers[c]) => []<>(lspconPc[c] = "idle")
=============================================================================
