--------------------------------- MODULE NGFX ---------------------------------
(***************************************************************************)
(* The submission patches of NGFX for GeForce on macOS 10.13 and 10.14.    *)
(* PreSubmit of an address space loses its prologue to an instruction that *)
(* marks ordinary calls, what follows is routed to a trampoline, and calls *)
(* that had been removed from six functions are put back, with a mark that *)
(* says in which register the caller has its address space.  The           *)
(* trampoline tells the calls apart by the mark, and the wrapper executes  *)
(* the prologue that was lost.                                             *)
(***************************************************************************)
EXTENDS Integers

CONSTANTS Sites,        \* functions a call was removed from
          Registers,    \* where they may keep their address space
          None

VARIABLES version, fifoSubmit,
          siteRegister,  \* the register in which a site has its address space
          ngfxPc,
          prologue,      \* is the prologue of PreSubmit there?
          routed,        \* does PreSubmit jump to the trampoline after it?
          orgVaddrPreSubmit,
          presubmitBase,
          symbols,       \* symbols that have not been looked at
          restored,      \* the mark of the call that was put in, None without
          caller,        \* who has called PreSubmit: a site, or "driver"
          frames,        \* prologues that the call has executed
          that,          \* the address space it works on, named by its owner
          flags          \* what PreSubmit leaves at 0x37C and 0x37D
patches == <<prologue, routed, orgVaddrPreSubmit, presubmitBase, restored>>
call == <<caller, frames, that, flags>>
machine == <<version, fifoSubmit, siteRegister>>
ngfxVars == <<machine, ngfxPc, patches, symbols, call>>

Versions == {"10.12", "10.13", "10.14", "10.15"}
FreshFlags == <<0, 0>>

\* The driver itself calls PreSubmit with its address space in rdi.
NgfxTypeOK ==
  /\ version \in Versions /\ fifoSubmit \in {-1, 0, 1}
  /\ siteRegister \in [Sites -> Registers]
  /\ ngfxPc \in {"kext", "solve", "route", "sites", "running", "wrapper",
                "prepare", "submit", "return"}
  /\ prologue \in BOOLEAN /\ routed \in BOOLEAN
  /\ orgVaddrPreSubmit \in BOOLEAN /\ presubmitBase \in BOOLEAN
  /\ symbols \subseteq Sites
  /\ restored \in [Sites -> Registers \cup {None}]
  /\ caller \in Sites \cup {"driver", None} /\ that \in Sites \cup {"driver", None}
  /\ frames \in 0..2
  /\ flags \in (0..1) \X (0..1)

NgfxInit ==
  /\ version \in Versions /\ fifoSubmit \in {-1, 0, 1}
  /\ siteRegister \in [Sites -> Registers]
  /\ ngfxPc = "kext"
  /\ prologue = TRUE /\ routed = FALSE
  /\ orgVaddrPreSubmit = FALSE /\ presubmitBase = FALSE
  /\ symbols = Sites
  /\ restored = [s \in Sites |-> None]
  /\ caller = None /\ that = None /\ frames = 0 /\ flags = FreshFlags

-----------------------------------------------------------------------------
\* restoreLegacyOptimisations

\* Both functions of the channel must be found, although only Prepare is used.
ResolveFifo ==
  /\ ngfxPc = "kext"
  /\ \/ version \notin {"10.13", "10.14"} /\ ngfxPc' = "running"
     \/ fifoSubmit = 0 /\ ngfxPc' = "running"
     \/ version \in {"10.13", "10.14"} /\ fifoSubmit # 0 /\ ngfxPc' \in {"solve", "running"}
  /\ UNCHANGED <<machine, patches, symbols, call>>

\* PreSubmit is not found, it begins with something else, or its prologue is
\* replaced, which may fail.
ReplacePrologue ==
  /\ ngfxPc = "solve"
  /\ \/ ngfxPc' = "sites" /\ UNCHANGED prologue
     \/ prologue' = FALSE /\ ngfxPc' = "route"
  /\ UNCHANGED <<machine, routed, orgVaddrPreSubmit, presubmitBase, restored, symbols, call>>

\* routeFunction may fail, but the prologue stays replaced.
RoutePreSubmit ==
  /\ ngfxPc = "route"
  /\ \/ UNCHANGED <<routed, orgVaddrPreSubmit, presubmitBase>>
     \/ routed' = TRUE /\ orgVaddrPreSubmit' = TRUE /\ presubmitBase' = TRUE
  /\ ngfxPc' = "sites"
  /\ UNCHANGED <<machine, prologue, restored, symbols, call>>

\* Mutated form of CanRestore: calls are put back whether PreSubmit is routed or not.
CanAlways == symbols # {}

CanRestore == symbols # {} /\ orgVaddrPreSubmit /\ presubmitBase

\* One round of the loop over the symbols: one of the three sequences is found,
\* which tells the register, or the function or the sequence is not found, or it
\* cannot be written.
RestoreCall ==
  /\ ngfxPc = "sites"
  /\ IF CanRestore
     THEN \E s \in symbols :
            /\ symbols' = symbols \ {s}
            /\ restored' \in {restored, [restored EXCEPT ![s] = siteRegister[s]]}
            /\ UNCHANGED ngfxPc
     ELSE /\ ngfxPc' = "running"
          /\ UNCHANGED <<symbols, restored>>
  /\ UNCHANGED <<machine, prologue, routed, orgVaddrPreSubmit, presubmitBase, call>>

-----------------------------------------------------------------------------
\* Calls of PreSubmit

\* What the trampoline hands to the wrapper: for a restored call, what is in the
\* register that its mark stands for.
AddressSpace(who) ==
  IF who = "driver" THEN who
  ELSE IF restored[who] = siteRegister[who] THEN who ELSE None

\* The driver enters at the prologue, a restored call after it.
PreSubmit ==
  /\ ngfxPc = "running"
  /\ \E who \in {"driver"} \cup {s \in Sites : restored[s] # None} :
       /\ caller' = who
       /\ frames' = IF who = "driver" /\ prologue THEN 1 ELSE 0
       /\ IF routed
          THEN that' = AddressSpace(who) /\ ngfxPc' = "wrapper"
          ELSE that' = (IF who = "driver" THEN who ELSE None) /\ ngfxPc' = "return"
  /\ flags' = FreshFlags
  /\ UNCHANGED <<machine, patches, symbols>>

\* wrapVaddrPreSubmit: the prologue and the original come first.
Original ==
  /\ ngfxPc = "wrapper"
  /\ frames' = frames + 1
  /\ \/ ngfxPc' = "return" /\ UNCHANGED flags
     \/ ngfxPc' = "prepare" /\ flags' = [flags EXCEPT ![2] = 1]
  /\ UNCHANGED <<machine, patches, symbols, caller, that>>

Prepare == /\ ngfxPc = "prepare"
           /\ ngfxPc' \in {"submit", "return"}
           /\ UNCHANGED <<machine, patches, symbols, call>>

\* The 16 bits at 0x37C become 1.  When the channel refuses, it is prepared again.
Submit ==
  /\ ngfxPc = "submit"
  /\ flags' \in {flags, <<1, 0>>}
  /\ ngfxPc' = "return"
  /\ UNCHANGED <<machine, patches, symbols, caller, frames, that>>

Return == /\ ngfxPc = "return"
          /\ ngfxPc' = "running"
          /\ caller' = None /\ that' = None /\ frames' = 0 /\ flags' = FreshFlags
          /\ UNCHANGED <<machine, patches, symbols>>

NgfxNext == \/ ResolveFifo \/ ReplacePrologue \/ RoutePreSubmit \/ RestoreCall
            \/ PreSubmit \/ Original \/ Prepare \/ Submit \/ Return

NgfxSpec == NgfxInit /\ [][NgfxNext]_ngfxVars

-----------------------------------------------------------------------------
\* Whichever lookups and patches have failed, a call of PreSubmit is whole: it
\* executes one prologue and works on the address space of its caller, and every
\* call that was put back leads to the trampoline.  It does not hold for the
\* driver's own calls when PreSubmit cannot be routed after its prologue is gone.
CallsAreWhole ==
  /\ ngfxPc = "return" /\ (prologue \/ routed) => frames = 1 /\ that = caller
  /\ \A s \in Sites : restored[s] # None => routed /\ ~prologue
===============================================================================
