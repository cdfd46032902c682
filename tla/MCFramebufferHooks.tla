-------------------------- MODULE MCFramebufferHooks --------------------------
(***************************************************************************)
(* The hooks in Intel's framebuffer driver for TLC: I2C-over-AUX accesses, *)
(* LSPCON, framebuffer patches, link rates, clocks and the DVMT size.      *)
(* They share no state.  An initial state chooses the subject that moves,  *)
(* and the others stay in one initial state of theirs.                     *)
(***************************************************************************)
EXTENDS I2COverAUX, LSPCONDriver, FramebufferPatches, DPCDMaxLinkRateFix, DisplayClocks,
        DVMTCalcFix

CONSTANT Subjects
VARIABLE subject

-----------------------------------------------------------------------------
\* Machines for the framebuffer patches: frames of two connectors, one of which
\* may be without a patch, properties for three

OwnType(v) == [NoConnector EXCEPT !.type = v]

Connector(enable, named, plain, own) ==
  [enable |-> enable, named |-> named, plain |-> plain, own |-> own]
Untouched == Connector(FALSE, Missing, Missing, NoConnector)

\* Strings describe one connector or more, with words that tell them apart.
StringOf(k) == <<k + 2 * ByteMod, 70 + k, 80 + k>>
ConnectorProperties ==
  {Connector(FALSE, StringOf(1), StringOf(1), OwnType(90)),
   Connector(TRUE, Missing, Missing, NoConnector),
   Connector(TRUE, Missing, Missing, OwnType(90)),
   Connector(TRUE, Missing, StringOf(1), NoConnector),
   Connector(TRUE, Missing, StringOf(1) \o StringOf(2), OwnType(91)),
   Connector(TRUE, Missing, StringOf(3) \o StringOf(4) \o StringOf(5), NoConnector),
   Connector(TRUE, StringOf(2), StringOf(1) \o StringOf(3), NoConnector),
   Connector(TRUE, <<1>>, StringOf(1), OwnType(92))}

Frame(word) == <<word, 20, 21, 22, 23>> \o <<1, 2, DP, 9>> \o <<2, 2, DP, 9>>

\* A list of three frames; two have the same id, those of Sandy Bridge have none.
Machine(generation) ==
  [generation |-> generation, yosemite |-> TRUE, connectorless |-> FALSE,
   nohdmi |-> FALSE,
   table |-> IF generation = "SandyBridge" THEN Frame(7) \o Frame(8) \o Frame(7)
             ELSE Frame(100) \o Frame(101) \o Frame(100),
   sandy |-> <<100, 101, 100>>, reported |-> 101, enable |-> TRUE, id |-> Missing,
   fields |-> [f \in {"portcount", "stolenmem", "flags", "cursormem"} |-> Missing],
   con |-> [i \in 0..2 |-> Untouched], patch |-> <<>>]

\* Properties of connectors that overlap in all ways
Overlapping == {[Machine("Broadwell+") EXCEPT !.con = con] :
                  con \in [0..2 -> ConnectorProperties]}

\* Binary patches: missing, disabled, incomplete; for the frame of the semantic
\* patches, for another one, for one that is not there; of unequal lengths.  None
\* of them rewrites the id of a frame.
Binary(enable, id, find, replace, count) ==
  [enable |-> enable, id |-> id, find |-> find, replace |-> replace, count |-> count]
BinaryProperties ==
  {Binary("missing", Missing, <<9>>, <<10>>, 0), Binary("off", Missing, <<9>>, <<10>>, 0),
   Binary("on", Missing, <<9>>, Missing, 0), Binary("on", Missing, <<9>>, <<10>>, 1),
   Binary("on", 100, <<9>>, <<10>>, 2), Binary("on", 102, <<9>>, <<10>>, 1),
   Binary("on", Missing, <<DP, 9>>, <<HDMI, 11>>, 1),
   Binary("on", 100, <<20>>, <<10, 11>>, 1), Binary("on", 100, <<20>>, <<19>>, 1)}

Binaries ==
  {[Machine("Broadwell+") EXCEPT !.enable = enable, !.id = id,
                                 !.fields["portcount"] = 5, !.patch = patch] :
     enable \in BOOLEAN, id \in {Missing, 100, 102}, patch \in [1..2 -> BinaryProperties]}
  \cup {[Machine("SandyBridge") EXCEPT !.id = id, !.fields["portcount"] = 5,
                                       !.patch = <<patch>>] :
          id \in {Missing, 100}, patch \in BinaryProperties}

\* All generations, with and without patches of their own
Generic ==
  {[Machine(generation) EXCEPT
      !.connectorless = connectorless, !.nohdmi = nohdmi, !.yosemite = yosemite,
      !.enable = enable, !.id = id, !.fields["flags"] = flags, !.con[1] = con] :
     generation \in {"SandyBridge", "IvyBridge", "Haswell", "Broadwell+", "IceLake"},
     connectorless \in BOOLEAN, nohdmi \in BOOLEAN, yosemite \in BOOLEAN,
     enable \in BOOLEAN, id \in {Missing, 100}, flags \in {Missing, 7},
     con \in {Untouched, Connector(TRUE, Missing, Missing, OwnType(90))}}

AllMachines == Overlapping \cup Binaries \cup Generic

\* A string of 24 bytes for a connector of Ice Lake
IceLakeMachines ==
  {[Machine("IceLake") EXCEPT
      !.con[0] = Connector(TRUE, Missing, <<1, 2, 3, 0, 90, 91>>, NoConnector)]}

-----------------------------------------------------------------------------
\* Panels, pixel clocks and drivers' code

\* eDP 1.3; tables that are sorted, unsorted, ended by a 0, empty; largest rates
\* that the driver cannot use
EmbeddedPanels ==
  {[version |-> 2, rates |-> <<40500>>],
   [version |-> 3, rates |-> <<8100, 10800, 27000, 0, 40500, 0, 0, 0>>],
   [version |-> 4, rates |-> <<27000, 13500, 8100>>],
   [version |-> 3, rates |-> <<8100, 10800>>],
   [version |-> 3, rates |-> <<0>>],
   [version |-> 3, rates |-> <<40500, 65535>>]}

\* The built-in panel reports no rate.
ReportedRates == [d \in 0..2 |-> IF d = 0 THEN 0 ELSE 20 + d]

\* In MHz, from VGA to 4K; there is no divider for 500 and 650 MHz.
ScreenClocks ==
  {31250 * mhz : mhz \in {25, 40, 65, 108, 162, 225, 240, 297, 340, 450, 500, 533, 594, 650}}
  \cup {787500, 4636000, 4640625, 16664000}

Instruction(name, register) == [op |-> name, reg |-> register]
Formula(r) == <<Instruction("read", r), Instruction("shll", r), Instruction("andl", r),
                Instruction("store", r)>>

\* The formula in low and high registers, in pieces, after a shift of another
\* register, with a mask of another form, after bytes that are no instruction, and
\* too far from the beginning
DriverCodes ==
  {Formula(0), Formula(3), Formula(9), <<Instruction("shll", 1)>> \o Formula(0),
   <<Instruction("read", 9), Instruction("other", 0), Instruction("shll", 9),
     Instruction("other", 1), Instruction("andl", 9), Instruction("store", 9)>>,
   <<Instruction("read", 0), Instruction("shll", 0), Instruction("other", 0),
     Instruction("store", 0)>>,
   <<Instruction("error", 0)>> \o Formula(0),
   [n \in 1..3 |-> Instruction("other", 0)] \o Formula(0)}

-----------------------------------------------------------------------------
\* The specification

HooksInit ==
  /\ subject \in Subjects
  /\ IF subject # "I2C" THEN regs = [r \in Offsets |-> CHOOSE b \in Bytes : TRUE] /\ position = 0
     ELSE TRUE
  /\ IF subject # "LSPCON"
     THEN /\ has = [c \in Connectors |-> FALSE]
          /\ prop = [c \in Connectors |-> 0]
          /\ chip = has /\ answers = has
          /\ mode = [c \in Connectors |-> "LS"]
     ELSE TRUE
  /\ IF subject # "patches" THEN setup = CHOOSE s \in Machines : TRUE ELSE TRUE
  /\ IF subject # "link rate" THEN user = None /\ panel = CHOOSE p \in Panels : TRUE
     ELSE TRUE
  /\ IF subject # "clocks" THEN reference = 0 /\ firmwareClock = 1294 ELSE TRUE
  /\ IF subject # "DVMT"
     THEN /\ gms = CHOOSE g \in GMSFields : TRUE
          /\ code = Formula(0) /\ available = TRUE /\ asked = FALSE
     ELSE TRUE
  /\ Init /\ LspconInit /\ PatchesInit /\ RateInit /\ ClocksInit /\ DvmtInit

HooksNext ==
  /\ UNCHANGED subject
  /\ \/ /\ subject = "I2C" /\ Next
        /\ UNCHANGED <<lspconVars, patchesVars, rateVars, clocksVars, dvmtVars>>
     \/ /\ subject = "LSPCON" /\ LspconNext
        /\ UNCHANGED <<vars, patchesVars, rateVars, clocksVars, dvmtVars>>
     \/ /\ subject = "patches" /\ PatchesNext
        /\ UNCHANGED <<vars, lspconVars, rateVars, clocksVars, dvmtVars>>
     \/ /\ subject = "link rate" /\ RateNext
        /\ UNCHANGED <<vars, lspconVars, patchesVars, clocksVars, dvmtVars>>
     \/ /\ subject = "clocks" /\ ClocksNext
        /\ UNCHANGED <<vars, lspconVars, patchesVars, rateVars, dvmtVars>>
     \/ /\ subject = "DVMT" /\ DvmtNext
        /\ UNCHANGED <<vars, lspconVars, patchesVars, rateVars, clocksVars>>

HooksSpec ==
  /\ HooksInit
  /\ [][HooksNext]_<<subject, vars, lspconVars, patchesVars, rateVars, clocksVars, dvmtVars>>
  /\ \A c \in Connectors : WF_lspconVars(Setup(c)) /\ WF_lspconVars(Switch(c))
===============================================================================
