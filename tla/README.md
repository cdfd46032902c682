# A verification project for WhateverGreen

WhateverGreen (WEG) is a Lilu plug-in: a macOS kernel extension that patches
Apple's graphics drivers in memory so that they work on hardware they were not
written for. This directory holds TLA+ models of its core, configurations with
which TLC checks them on small instances, and theorems proved with TLAPS.
Line numbers refer to `src/WhateverGreen/` unless a path is given.

Contents: [the system](#1-the-system) · [modules](#2-modules-and-the-code) ·
[runs](#3-runs) · [bounds](#4-bounds-and-why-they-are-enough) ·
[fairness](#5-fairness-and-deadlock) · [proofs](#6-proofs) ·
[disagreements](#7-where-code-and-text-disagree) ·
[limits](#8-what-is-not-modelled) · [plan](#9-plan)

## 1. The system

### Life of the plug-in

1. `kern_start.cpp` creates WEG and registers it with Lilu.
2. `WEG::init` reads boot arguments, registers the kexts that may have to be
   patched, and lets its parts (IGFX, RAD, NGFX, CDF, SHIKI, UNFAIR, DPD,
   NVMTL) register theirs.
3. When the kernel patcher is ready, `WEG::processKernel` looks at the devices:
   it names GPUs, fakes device ids, decides about the framebuffer reset, the
   graphics policy and the backlight, and switches off what is not needed. Each
   part does the same for its own kexts.
4. Kexts are loaded in any order; Lilu calls `processKext` of every part, one at
   a time, and the parts replace ("route") functions of the driver.
5. From then on the replaced functions run in the drivers' threads: framebuffer
   initialisation, writes of PWM registers, reads of PCI configuration space,
   starts of AMD controllers, AUX transactions.

Steps 1 to 4 run on one thread; step 5 runs on many, and what it needs has to be
there before it starts. Most of what is hard in this code is at that border, or
in step 5.

### Inventory

| component | state it keeps | operations | interacts with | what makes it correct |
|---|---|---|---|---|
| **WEG core** `kern_weg.cpp` | modes of framebuffer reset, graphics policy and backlight; GPU name counter; two spoof flags; console buffer | `init`, `processKernel`, `processBuiltin/ExternalProperties`, `processKext`, `wrapFramebufferInit`, `wrapConfigRead*`, `wrapFunctionReturnZero` | Lilu, I/O registry, every part below; configuration reads come from other threads | decisions reach the kexts; a faked id, once seen, stays; each screen shows what was chosen for it and global flags are put back |
| **IGFX submodule framework** `kern_igfx.cpp`, `kern_igfx.hpp` | 21 submodules and 3 shared ones, each with `enabled`; lists of injection descriptors | `init`, `processKernel`, `processKext`, `disableDependentSubmodules`, `add`, `getInjector` | all IGFX submodules; framebuffer and accelerator kexts | a submodule's routed functions find the shared submodules they call; a register write reaches the function meant for this driver |
| **Backlight smoother (BLS)** `kern_igfx_backlight.cpp` 1044–1461 | one shared request, steps, threshold, range; event source, workloop | `smooth*WriteRegister*`, `submit`, `checkForWork`, `processKernel`, `deinit` | driver threads, a kernel workloop, MMIO registers; is called by BLR and BLT | no request is lost, no level flashes that nobody asked for |
| **Backlight registers fix (BLR)** 1–344 | firmware's frequency and control register, driver's frequency | four injected write functions | driver, MMIO, BLS | panel runs with the firmware's frequency and the driver's duty cycle, through sleep |
| **Backlight registers alternative fix (BLT)** 346–1042 | probe contexts, frequency, divider | `processFramebufferKext`, probers, two `hwSetBacklight` wrappers | machine code of the driver, BLS | all or none of the driver's functions are patched, each patch continues at the right instruction, panel shows the level asked for |
| **LSPCON driver** `kern_igfx_lspcon.*` | per connector: has a chip, preferred mode, driver | `GetDPCDInfo` wrapper, `probe`, `getMode`, `setMode`, `wakeUpNativeAUX` | adapter through I2C-over-AUX | only a probed chip is written to; calls return; preferred mode is reached after every power cycle |
| **I2C-over-AUX** `kern_igfx_i2c_aux.cpp` | none (a position in the adapter) | `advSeek/Read/WriteI2COverAUX` | adapter; used by LSPCON | exact transfers, or an error |
| **RAD connectors** `kern_rad.cpp` 600–1290 | current provider per thread, framebuffer limit | controller start/stop, `updateConnectorsInfo`, overrides, autocorrection, reordering | AMD drivers on several threads | a GPU gets the connectors its own properties ask for |
| RAD: Navi 10 backlight, codecs, properties | backlight level, tables | wraps of PWM and property functions | AMD drivers | level follows property |
| **GuC firmware** `kern_igfx.cpp` 1143–1199, 1348–1566 | loading flag; the firmware's buffer with its own pointer and the dummy's; pointers to signature and size | `wrapLoadGuCBinary`, `wrapIgBufferWithOptions`, `wrapIgBufferGetGpuVirtualAddress`, `wrapInitSchedControl`, `wrapSystemDidWake` | accelerator's scheduler, other clients of its buffers | the GPU is given one whole firmware with its own signature and size; every buffer gets its memory back |
| **Maximum link rate** `kern_igfx_clock.cpp` 17–256 | user's or remembered rate; arguments of the last call | `wrapReadAUX` of two families, `probeMaxLinkRate` | displays via AUX, on several threads | each display keeps its own rate, the panel gets one of its own |
| **Display clock, HDMI dividers** `kern_igfx_clock.cpp` 394–888 | – | `wrapProbeCDClockFrequency`, `sanitizeCDClockFrequency`, `wrapComputeHdmiP0P1P2` | MMIO, driver | driver finds a clock it supports; dividers give the frequency asked for |
| **Force wake** `kern_igfx_pm.cpp` 154–319 | none beside the registers | `forceWake`, `forceWakeWaitAckFallback` | accelerator in threads and interrupts, MMIO | what a context woke stays awake until it releases it; calls end, or panic |
| **DVMT** `kern_igfx_memory.cpp` 17–215 | decoded size | `processKernel`, patch of two instructions | framebuffer kext | driver works with the size the firmware set aside |
| **Framebuffer patches** `kern_igfx.cpp` 1622–2147 | fields and connectors to patch, binary patches | `loadPatchesFromDevice`, `applyFramebufferPatches`, `doFrameBufferStuff`, `wrapGetOSInformation` | properties, the driver's list of frames | the list is what the properties describe, after every call |
| **NGFX** `kern_ngfx.cpp` 163–351 | original function, base of the calls to put back | prologue, trampoline, six restored calls, `wrapVaddrPreSubmit` | NVIDIA's submission | a call is whole whichever patches were possible |
| CDF, SHIKI, UNFAIR, DPD, NVMTL, NVHDA | flags | byte patches, answers from constants | NVIDIA/AMD drivers, user space | right patch for right version |
| data: models, firmware, Apple's interfaces; tools | – | – | – | – |

### Interactions worth a composition

- BLR and BLT hand their duty cycle to BLS. BLS is proved to implement the
  abstract module `BrightnessPromise`; BLR and BLT are composed with that
  promise instead of with its threads: `BacklightHardware` instantiates it over the
  duty cycle register, and its steps are the promise's `Retarget` and `Move`, with the
  configured range they keep to, and `Settle`, the end of a pass.
- BLS relies on a workloop, an event source and sane parameters;
  `BacklightSmootherSetup` shows that an enabled BLS has them (`SetupAllOrNothing`).
- LSPCON's reads and writes are accesses that `I2COverAUX` shows to be exact or to
  fail, which is how `LSPCONDriver` models them.
- Whether a shared submodule is there, and which injected function a register
  write reaches, is decided in `SubmoduleCoordinator`; the submodules' own modules
  start from an enabled submodule.
- Force wake, GuC and NGFX do not meet, nor do the hooks of the framebuffer driver:
  the composite modules `MC...Hooks` only put them into one run.

### What is hard here

- **Unlocked shared data**: BLS's request is written by driver threads and copied by
  the workloop with no lock; RAD passes the provider around in a table indexed
  by thread; configuration reads happen while WEG decides what to fake; the link
  rate wrapper leaves its arguments in members; while the GuC firmware is loaded,
  one flag makes every allocation a candidate.
- **Shared registers**: force wake requests of a thread and an interrupt toggle bits of
  the same registers, and both use one fallback bit.
- **Order of callbacks**: submodules read other submodules' `enabled` before it is
  final; kexts arrive in any order; shared submodules may fail late.
- **Power cycles**: PWM registers lose the firmware's frequency, LSPCON falls
  back to Level Shifter, and both have to be set up again by code that has
  already been initialised.
- **Partial failure**: multi-transaction accesses, creation of four objects in
  a row, patches of several functions of which one is not found, a prologue that
  is taken away before the jump that makes up for it is there.
- **Arithmetic at its width**: products of 32-bit numbers, 8-bit pass counters,
  the signed operand of a short jump, frequencies in 32 bits.

Each hazard is listed in `PROJECT.json` at the line where it bites, with the
properties that cover it, or with the reason why none does yet.

## 2. Modules and the code

Definitions keep the source's names where TLA+ allows it; `PROJECT.json` maps
every definition to its lines.

**BrightnessPromise** is the abstract specification of the smoother: a level,
the goal of the latest request, and the destination the panel is moved to.
`Move` may only bring the level closer to its destination, never past it, and
`Retarget` may only choose the goal clamped into the range.

**BacklightSmoother** is the smoother at the grain of memory accesses. A driver
thread reads `request.id` and starts a submission (`Submit`), stores the three
8-byte words of the request in any order (`StoreWord`), and calls
`eventSource->enable()` (`Enable`). The workloop clears the pending flag
(`StartPass`), copies the words in any order (`LoadWord`), returns early
(`ReturnEmpty`, `ReturnCompleted`), prepares the ramp (`Prepare`), and alternates a
write of the next level with a look at the shared id (`RampWrite`, `RampCheck`),
until the final write and return value (`FinalWrite`, `ReturnFinal`). Register values keep
the bits outside of the brightness mask; products are taken modulo `Wrap`.
`Promise == INSTANCE BrightnessPromise WITH level <- regs[Pwm].lo,
goal <- request.target.lo, asked <- request.controller, dest <- Clamp(req.target.lo)`
is the refinement mapping.

**BacklightSmootherSetup** is `processKernel` and `deinit` of the smoother: the
device properties, their corrections, and the creation of owner, workloop and
event source, each of which may fail.

**LSPCONDriver** has one small program per connector for the wrapped
`GetDPCDInfo`: probe, read the mode (with attempts), write the mode, wait for it
(with a timeout), wake the native AUX channel, call the original. The adapter
(`Switch`, `PowerCycle`) and its channel (`Channel`) are the environment.

**I2COverAUX** is one access: guard, start, seek, chunks, and the terminating
transaction; each may fail with or without having reached the adapter.

**BacklightRegisters** has one action per injected function of BLR
(`wrapKBLWriteRegisterPWMFreq1`, ...); the driver (`KBLDriver`, `CFLDriver`) writes
its registers in any order, `Smooth` is the promise of the smoother, and
`SleepAndWake` clears the registers. `LevelIsRight` says what the panel shows when the
smoother is at rest: the duty cycle asked for last, rescaled and moved into the range.

**BacklightRegistersAlt** goes through `processFramebufferKext` of BLT function by
function (`Prepare`, `Revert`, `Abort`, `Route`) with the length of each patch and
the operand of the jump at its end, then runs the wrapper under a driver that
changes levels, disables and lights the display. What the probers find in the
driver's code is an input.

**SubmoduleCoordinator** walks through the submodules in the order of the arrays
of `kern_igfx.hpp`, lets each decide (`ProcessKernel`, `ProcessKernelShared`),
and processes the kexts (`LoadFramebuffer`, `ProcessFramebufferShared`,
`ProcessFramebuffer`, `LoadGraphics`); `Add` and `getInjector` are the linked list of
descriptors and its search.

**RadeonConnectors** lets threads start controllers and ask for connectors. A
thread's provider is in `slot`; `KeepConnectors`, `OverrideConnectors`,
`CorrectConnectors`, and the passes `Reorder` and `NextPass` are
`updateConnectorsInfo`. `MCRadeonConnectors` lists the boards and properties.

**WEG** is `kern_weg.cpp`: boot (`WEGInit`, `ProcessPolicy`, `ProcessBuiltin`,
`ProcessExternal`, `Route`, `Decide`), loading of kexts (`LoadKext`), reads of
configuration space by other threads at any time (`ConfigRead`), and
initialisation of framebuffers (`FramebufferInit`, `OriginalInit`,
`FramebufferDone`). `MCWEG` lists the machines.

**ForceWake** is a call of `forceWake` in each context (`Call`): the masked write of
its bit in the register of the next domain (`WriteRequest`), the wait for the
acknowledgement (`Poll`), and the passes of the fallback (`SetFallback`,
`ClearFallback`, `LastPoll`), with a panic at the end of the last one. The
hardware acknowledges (`Acknowledge`) when it likes, or never.

**GuCFirmware** follows a machine through boot (`ProcessKernel`,
`loadIGScheduler4Patches`, `applyDevelopmentPatches`) and through loads of the
firmware (`wrapLoadGuCBinary` or `wrapLoadFirmware`, the driver's own steps,
`LoadDone`), with `InitSchedControl` inside of a load, and `Sleep` and
`wrapSystemDidWake` around. `wrapIgBufferWithOptions` and
`wrapIgBufferGetGpuVirtualAddress` exchange the firmware's buffer for a dummy and
back; `ClientAllocate`, `ClientAddress` and `ClientRelease` are the driver's other
buffers. `Serial` says that those clients keep off while the firmware is loaded.

**NGFX** applies the submission patches symbol by symbol (`ResolveFifo`,
`ReplacePrologue`, `RoutePreSubmit`, `RestoreCall`), each with its failure, then
lets any site or the driver call: `PreSubmit` (what runs depends on which
patches are there), `Original`, `Prepare`, `Submit`, `Return`.

**FramebufferPatches** has three actions: `PatchesProcessKernel` with
`loadPatchesFromDevice` (fields, connectors by `Override` of the three sources of a
connector's properties, binary patches), `PatchesProcessKext`, and
`wrapGetOSInformation` with `applyFramebufferPatches`: `PatchedList` or `HDMIList`, then
`WithBinary`. The loops of the code are recursive functions whose value at n is the
state after n rounds: `ConnectorsAfter`, `PatchesAfter`, `BinariesAfter`. The list is a
sequence of words.

**DPCDMaxLinkRateFix** lets threads read the capabilities of displays (`Call`,
`OriginalRead`, `FramebufferIndex`), and probes the panel's table (`ReadVersion`,
`ReadRates`) one access at a time.

**DisplayClocks** is `ProbeCDClock`, `SetCDClock` and `OriginalProbe`, and
`ComputeHdmiP0P1P2`, whose loops over dividers and central frequencies are one
recursive function (`Search`) over `Settings` in the order of the code.

**DVMTCalcFix** decodes GMS (`DvmtProcessKernel`), finds and replaces two
instructions (`DvmtProcessFramebufferKext`), and executes the patched code one
instruction after the other (`RegistersAfter`, `FBMemMgr_Init`). `HasFormula` says what
the driver's code looks like: the formula in some register, with any other instructions
between, a store after it, and the shift and mask that the search finds being the
formula's. TLC evaluates it on the codes of the instance.

**BacklightHardware** is what BLR and BLT share: the machine, its PWM registers, and
the smoother. `Promise == INSTANCE BrightnessPromise WITH level <- duty, asked <- smoother`;
`WriteDuty` is the hand-over of a request, `SmootherStep` a `Promise!Retarget`, a
`Promise!Move` (both also while `dest` is still that of an earlier request), or `Settle`:
the pass ends, because the register holds what was asked for (line 1250) or the request
clamped into `LowerBound..UpperBound` (1255). The history variable `ranged` records whether
the register has been in the range since power-up, which is what tells when a level
outside of it can be left alone (`Reached`).

**MCBacklightHooks**, **MCFramebufferHooks** and **MCAcceleratorHooks** check
several of these modules in one run each. Components in one of them share no
state: an initial state chooses the `subject` that moves, all others stay
in one initial state of theirs, so that states add up and do not multiply.
They extend the modules they compose, as do the modules of proofs, so a theorem and a
run speak of the same definition. General names therefore say what they belong to: `AltNext`, `SetupSpec`,
`LspconInit`, `RateTypeOK`, `forceWakeVars`.

## 3. Runs

| run | distinct states | properties | what it shows |
|---|---:|---|---|
| `bls_one` | 923,744 | `QuietMeansSettled`, `ImplementsPromise`, `EventuallySettled` | No request is lost although it is copied while it is being stored, ids wrap, and the notification can come during a pass; each write moves toward the level of a request, and the level settles. |
| `backlight` | 1,017,129 | `LevelIsRight`, `FrequencyRestored`, `ControlRestored`, `FrequencyBeforeOn`; `ShowsLevel`, `GoesOnAtEnd`, `AllOrNothing`; `SetupAllOrNothing` | BLR: firmware's frequency and driver's duty cycle are both kept, in all orders of writes, with and without smoother and within its range, through sleeps. BLT: the wrapper only takes over when every function is patched, and shows the level the user chose. Set-up of BLS: an enabled smoother has what it relies on, a failed one leaks nothing. |
| `framebuffer` | 87,342 | `AccessIsExact`; `OnlyProbedChips`, `SuccessIsConfirmed`, `CallsReturn`, `PreferredModeReached`; `ListAsAsked`, `FirstCallIsFinal`; `RateIsOwn`; `ClockIsSupported`, `DividersAreBest`; `SizeIsRight` | I2C: success means a complete transfer at the right offset. LSPCON: no writes to a foreign adapter, calls return and the preferred mode is reached if the channel works. Patches: the driver's list is what properties describe, after any number of calls. Link rate, clocks, DVMT: each display has its own rate, the driver a clock it supports, the best dividers, and on Ice Lake the right size. |
| `accelerator` | 594,496 | `AwakeWhileHeld`, `CallsEnd`; `RunsWholeImage`, `BuffersRestored`; `CallsAreWhole` | Force wake: a domain is awake while a context holds it, whatever the other one does, and calls end or panic. GuC: one whole firmware after every wake, and buffers come back. NGFX: calls execute each prologue once on their own address space, whichever patches failed. |
| `lspcon_hang` | 6,120 | `CallsReturnAfterFailure` (violated) | A channel that goes silent while `setMode` waits keeps the call for ever. |
| `blt_jump` | 20,738 | `GoesOnAtEnd` (violated) | In an inlined copy of 200 bytes the jump goes backwards. |
| `coord` | 163,680 | `FramebufferServed`, `AcceleratorServed`, `LSPCONServed`, `InjectionsFollowDriver` | For all generations, submodules find what they call, and register writes reach the function meant for the driver. |
| `coord_late` | 977 | `AcceleratorServed` (violated) | If the accelerator kext comes first, a shared submodule that fails later leaves routed functions without support. |
| `rad_con` | 141,616 | `OwnOverrides`, `TransmittersRight`, `PriorityFollowsList`, `CallsEnd` | Controllers starting on two threads get their own connectors, corrected and ordered as documented. |
| `weg` | 70,715 | `IdentityStable`, `IdsAsAsked`, `PolicyAsPromised`, `ChoicesReachKexts`, `ScreensAsChosen` | On 3,718 machines, while drivers read ids, decisions reach kexts, faked ids stay, and each screen shows what was chosen. |
| `fb_icl` | – | `ListAsAsked` (violated) | A string of 24 bytes for one connector of Ice Lake is taken for two connectors. |
| `dvmt` | – | `SizeIsRight` (violated) | With 512 MB, which the driver's formula gets right, the fix makes it 0. |

State counts of violated runs are those at which TLC stopped; the last two stop
within a few steps. Type invariants are in no run: they are conjuncts of
the proved inductive invariants or of facts proved beside them. TLC checked the inductive invariants on small instances before their proofs were begun
(the one of RAD's priorities completely with one thread only). For every
property of a passing run `PROJECT.json` names a mutant: a plausible mistake in
one mapped definition under which the same run finds the property violated.

To check a run: `tlc -config <cfg> <module>`; to check proofs: `tlapm <module>.tla`.

## 4. Bounds and why they are enough

- **bls_one**: one driver thread, levels 0..3, three steps, threshold 1, range
  1..2, ids modulo 2. The range cuts levels at both ends; a distance of 3 in 3
  steps and of 2 and 1 shows exact and rounded steps as well as the threshold;
  ids wrap at once, so that an old id is met again. With two threads there
  are millions of states; the theorem `NoRequestLost` covers any number. The level is
  the whole register, as on CFL; bits outside of the mask (KBL) are covered by the theorems.
- **backlight**, setup: property values below, at and above each default and minimum.
- **backlight**, BLR: two scales; firmware frequencies of zero, below (3) and above (7)
  the fallback (6); user preset present (5) or not; products and quotients that round and
  that do not. The driver writes a frequency first (`ControlFirst = FALSE`).
- **backlight**, BLR and BLT: registers of 0..7 and a smoother's range of 2..4. It cuts both
  ends of the scales of 5, 6 and 7, and the lower end of that of 3; a firmware's level may be
  in it, below or above. TLC reaches levels that are clamped at either end, registers that
  are left alone out of range, and passes that still move to an earlier request.
- **backlight**, BLT: inlined copies that are too short (36), just long enough for either kind
  of patch (43, 44), and as long as a short jump reaches (165); registers with
  and without a REX prefix; a level zero meant by the user (CFL only) and one meant by a
  disabled display. A region that is not patched yet has the operand -128, which no jump
  in a copy of these lengths has.
- **framebuffer**, I2C: four registers and chunks of two bytes: accesses of zero to three
  bytes are empty, partial, full, and full plus partial, at every offset.
- **framebuffer**, LSPCON: connectors share nothing, so one is enough; two reads and three
  waits are the smallest numbers with a first, a middle and a last.
- **framebuffer**, patches: a list of three frames, two of which have the same id; frames
  of two connectors and properties for three; all 512 combinations of eight ways to
  describe a connector, pairs of nine binary patches, and every generation with and
  without patches; three calls.
- **framebuffer**, link rate: three displays and two threads; tables that are sorted,
  unsorted, ended by a zero, empty, and too old. Two reads do not overlap (`Serial = TRUE`).
- **framebuffer**, clocks: all reference clocks, clocks of the firmware on both sides of the
  limit, and 18 pixel clocks from VGA to 4K, with and without a divider.
- **framebuffer**, DVMT: codes at the boundaries of all ranges; 0x10 has its own run. The
  search looks at 5 instructions instead of 64, and codes lie within and beyond.
- **accelerator**, force wake: two domains, a thread and an interrupt, two passes: a
  first and a last one.
- **accelerator**, GuC: three buffers and two dummies are enough for a firmware's, a
  client's and a leaked one; requests with and without room for the generic
  firmware; two sleeps, so that the second load starts from what the first one left.
- **accelerator**, NGFX: three sites with the address space in any of three registers.
- **coord**: all twelve generations; every combination of the eight submodules that
  depend on a shared one or on each other. The other submodules depend on nothing
  and keep their defaults.
- **rad_con**: two controllers and two threads are the smallest race. Bytes wrap at
  10 and words at 100, so that the longest list of sense ids leaves just enough room for types.
- **weg**: families of machines, each varying what one group of decisions reads
  (ids and names; policies; backlight; screens), and names for one GPU, so
  that they run out with the second.

## 5. Fairness and deadlock

- BLS: weak fairness of the workloop (a kernel thread that is never blocked for
  good) and of a driver thread inside a submission (straight-line code without
  locks). Nothing forces a driver to write.
- LSPCON: weak fairness of a call that has begun and of the adapter's mode
  change. The channel has none: it may stay silent for ever, and properties say
  what they need of it.
- RAD: weak fairness of `updateConnectorsInfo`, straight-line code.
- Force wake: weak fairness of a call that has begun, in each context: it only polls
  with deadlines. Hardware has none: it may never acknowledge.
- The other modules state no fairness; only safety is checked.

Deadlock is checked except in `coord`, `weg`, `backlight`, `framebuffer`,
`accelerator` and the violated runs that share their modules: these programs
patch what there is to patch and finish, or panic.

## 6. Proofs

`tlapm` checks every leaf of the following theorems, for all values of the
constants that satisfy the named assumptions of the modules and, where the table says
so, a hypothesis of the theorem. The inductive invariants are conjunctions of
named parts.

| module | theorems | inductive invariant, and why it is needed |
|---|---|---|
| `BacklightSmootherProofs` | `TypeCorrect`, `NoRequestLost`, `SmootherImplementsPromise` | `IInv`: `TypeOK` (with the arithmetic of the ramp: `RampIndex`), `SubmissionsComplete` (the words that a thread inside a submission has stored stay those of some complete request, with controller, address and mask), `RequestComplete` (when nobody is inside a submission, a request with a controller has the address and the mask as well), `CopyIsLatest` (whoever sleeps without a notification holds a copy of the latest request) and `PassTarget` (a pass works on the clamped target of its copy). `QuietMeansSettled` is not inductive: it says nothing while threads are busy, which is when the mistakes are made. The refinement needs `RampProgress` in addition: in a ramp the level lies between where the ramp began and its target. |
| `BacklightHooksProofs`, BLR | `FrequencyIsRestored`, `LevelStaysRight`, `ControlIsRestored`, `NoBlackout` | `IInv`, what each remembered value stands for: `TargetKnown`, `FrequencyKnown`, `ControlKnown`, `ScaleKnown`, and `LevelKnown`, which states the rounding of the duty cycle for the value that the smoother still has to reach (`DutyToCome`). Two conjuncts, shared with BLT, are about the smoother: `SmootherRight` (its destination is in the range; once the register has been in the range it stays there) and `AtRestReached` (without a pass under way the register shows the request: clamped, or as it is when it was never in the range). `LevelIsRight` alone says nothing while a pass is under way, nor that its destination is in the range. For any range (`BoundsAssumption`) and drivers that write a frequency first (`~ControlFirst`). |
| `BacklightHooksProofs`, BLT | `PanelShowsLevel`, `PatchedFunctionsGoOn`, `PatchingIsAllOrNothing` | `AltInv`: `LevelStored` (the level that is stored is the one asked for last), `FirmwareRemembered` (the firmware's values are remembered from the first call on, and in the registers until then), `PanelRight` (a panel that is lit has the firmware's frequency and control, and the register or the smoother's pending goal shows the level), and `SmootherRight` and `AtRestReached` as for BLR. `ShowsLevel` alone forgets the level while the display is disabled. A KBL driver stores no level 0, so that its user must not choose it (`"KBL" \notin ZeroByUser`, see section 7). For the patches, `PatchedSoFar` (the functions before the one at work are patched, and only those whose copy has room for the longest patch) and `GoesOnSoFar` (the jump of a patched copy lands on its end), for copies that a short jump can cross (`ShortCopies`: 165 bytes; the run `blt_jump` shows a longer one). |
| `BacklightHooksProofs`, set-up | `SetupIsAllOrNothing` | `SetupInv`: `ResourcesRight` (which objects exist at each point of the creation, and that the pointers are to those), `ConfigurationRight` (the values are naturals whatever the user gave, and in range once they have been corrected). |
| `FramebufferHooksProofs`, I2C | `AccessesAreExact` | `IInv`: `Untouched` (registers beside the access are as before), `BufferFilled` (what is to be written stays in the buffer), `Progress` (the adapter's position is the offset plus what has been transferred, and that part of buffer and registers agrees) and `ResultAtEnd` (only a finished access has a result). |
| `FramebufferHooksProofs`, LSPCON | `OnlyChipsAreSwitched`, `SuccessIsReadBack` | `LspconInv`: `DriversProbed` (a connector with a driver is a marked one with a chip, and mode changes are made through a driver), `TimeLeft` (the time that is left is a number of intervals, and some of it is left while a call still verifies). Both are action properties; the invariant says what the step starts from. |
| `FramebufferHooksProofs`, clocks | `DriverFindsClock` | `ClocksInv`: what the clock is at each point of the wrapper, for any clock the firmware leaves, and that the reference is one of the three known ones whenever the clock has been switched off. |
| `FramebufferHooksProofs`, dividers | `DividersOfClocks` | `DividersAreBest` is inductive by itself, since a call stores all of it. The content is in the lemmas: `SearchFindsNearest` (after n settings the search knows the first one of the nearest that fit), `AllowedFits` (what the code's deviations accept is what the hardware allows in percent), `ParametersOfSetting` (with words that wrap, and the three dividers of every entry of the table). For any pixel clock but 0. |
| `FramebufferHooksProofs`, link rate | `RatesAreOwn` | `RateInv`: `OneRead` (at most one thread reads), `ReadUnderWay` (how far that read has got: only capabilities are looked at, and only the panel's lead to a probe, while no rate is known), `UserRateKept`, `RateIsOwn`. For reads that do not overlap (`Serial`). `LargestRateIsMax`, which the proof rests on, says what the loop over the panel's table computes for any table. |
| `FramebufferPatchesProofs`, patches | `ListsAreAsAsked`, `FirstCallsAreFinal` | `PatchesIInv`: `PatchesTyped`, `Decisions` (what was decided at boot is what the properties ask for), the list is the driver's before the first call, and `Once(setup.table)`, the list after one call, as long as no binary patch was applied. `ListAsAsked` is not inductive: it does not say that the frames are found in the same places again. For the calls after the first one, `RestIInv`: `SamePlaces` (each id that the properties name stands where the semantic patches leave it) and `AllOver` (a binary patch that is still kept has no frame, or lengths that differ). See the hypotheses below. |
| `FramebufferPatchesProofs`, DVMT | `SizesAreRight` | `DvmtInv`: `SizeIsDecoded` (what an enabled fix has decoded on Ice Lake), the code of each phase (the driver's own, or with the formula replaced: `IsPatched`), and `SizeIsRight`. The content is in the lemmas about executing the code: only the instructions of the formula change its register, so the result does not depend on the other ones. For GMS fields without 0x10, for which the run `dvmt` shows the opposite, and for Ice Lake or machines on which the fix is not asked for (section 7). |
| `SubmoduleCoordinatorProofs` | `FramebufferIsServed`, `LSPCONIsServed`, `AcceleratorIsServed`, `InjectionsFollow` | `Control` (phases), `Decided`, `Ready`, `Before` and `Progress` (shared submodules up to the current index are set up or nobody who needs them is enabled), `CalledEnabled` (what has been called is still enabled). `AcceleratorIsServed` is for a framebuffer kext that comes first. For LSPCON, `LSPCONDecided`: an enabled LSPCON has made I2C-over-AUX enabled, before it is processed. For injections, `InjectionsInOrder`: before submodule n is called, the linked list is what the submodules before n have added, in their order, and ends. |
| `RadeonConnectorsProofs` | `OverridesAreOwn`, `TransmittersAreRight`, `PrioritiesFollowList` | `IInv`: `SlotsRight` (a thread's slot holds the controller it starts, and only then), `StartsOnce`, `AsksOwn` (a call inside a start is for the controller that starts), `Fresh`, `OrdersDetected` (only detected connectors are reordered), `OwnOverrides`. From `SlotsAssumption`: no more threads than a `ThreadLocal` has entries. `AnswerInv` adds `DetectedRight` (the connectors are those of the BIOS's paths, with corrected transmitters; `CorrectAll` says what the loop over the paths computes). For the order, `PrioritiesRight`: `Prioritised` names, for each connector, the passes that have come to it so far, the one of them that counts (the last one of the user's list, or else the first), and says that priorities follow those; it bounds the counter, which therefore never wraps. For lists whose length fits a byte (`ShortLists`). |
| `WEGProofs` | `IdentityIsStable`, `ScreensAreAsChosen`, `IdsAreAsAsked`, `PolicyIsAsPromised`, `ChoicesReachTheKexts` | `NamesKnown`, `NothingRouted`, `ReadsHeld` (a faked read was made through a routed function for a device whose kind is spoofed, which no step takes back). `SInv`: `Untouched`, `Decided`, `CopiedOnce`, `CallRight`, `ShownRight` (the call under way carries the value of the verbose flag that has to be restored). `IdsInv`: `NamesSoFar`, `Counted` (no more names are used than there were GPUs to be named), `BuiltinSeen`, `ExternalsSeen` (what the flags of faked GPUs say of the GPUs before the one at work), `FunctionsReplaced`, `AllSeen`. `PolicyInv`: the policy before and after the first GPU that has one has been found, and after the default has replaced it. `ChoiceInv`: `BacklightSoFar` (the first GPU that says something of the backlight has been heard, if it has been passed) and `Registered` (which kexts are still registered for). |
| `AcceleratorProofs`, force wake | `DomainsStayAwake`, `FallbackIsReleased` | `IInv`: `CallsHaveDomains` (a call under way has a domain left, the least of which it works on; there is a least one since `<` is well-founded on the naturals), `BitsAgree` (in the domain whose acknowledgement a call awaits, the context's request bit is what was asked; in every other one its request, its acknowledgement and what the context holds agree), `FallbackReleased`. `AwakeWhileHeld` alone is not inductive: it does not say that the other context leaves the bit alone. For any domains, contexts and number of passes. |
| `AcceleratorProofs`, NGFX | `PreSubmitIsWhole` | `NgfxInv`: `PatchWhole` (the three parts of the patch come together, and without the prologue), `CallsMarked` (a call that was put back has the register of its function and leads to the trampoline), `CallUnderWay` (the wrapper runs for its caller, before the prologue has been executed). |
| `AcceleratorProofs`, GuC | `FirmwareIsWhole`, `BuffersAreRestored` | `FirmwareInv`: `FlagKnown` (the flag is set exactly during a hooked load, outside of `initSchedControl`), `Exchanged` (only the firmware's buffer points elsewhere, to the dummy, between its allocation and its address look-up), `DummiesCounted` (besides that dummy only those of failed writes are left), `ImageKnown` and `GpuKnown` (which image, signature and size have been put together so far). For any buffers, sizes and number of sleeps, when other clients keep off during a load (`Serial`). |

Assumptions of the constants that matter: the ramp's products fit into 32 bits
(`WrapAssumption`), the range is not empty and there is at least one step (both
of which `SetupAllOrNothing` checks of the set-up code), a word has two bytes
(`WidthAssumption`), and there is one IGPU.

Hypotheses of the two theorems about framebuffer patches:

- `ReadAsWritten` (of `ListsAreAsAsked`): an enabled connector of Ice Lake has no
  `alldata`. The run `fb_icl` shows that the code misreads it there.
- `IdsStay` (of `FirstCallsAreFinal`): a binary patch that can be applied leaves each id that
  the machine's properties name where it is (it may search for one, if it writes the same
  one back). Without it the property is false: if patch 1 is for an id that is not in the
  list, and patch 2 writes this id over another one, the first call keeps patch 1 and the
  second one applies it, as TLC finds for such a machine.

Both hold of all machines of the run `framebuffer`, as TLC has evaluated.

What a loop over a list computes is proved for lists of any length where a theorem
depends on it (`LargestRateIsMax`, `SearchFindsNearest`, `CorrectAll`,
`ConnectorsAreAsAsked`, `BinaryRound` and `SteadyRounds`). The loops are recursive functions; the
library's induction principles cannot be instantiated, so the proofs take the least
counterexample, which exists since `<` is well-founded on the naturals
(`LeastElement`, `IntervalInduction`). That such a function exists is proved in the same way
(`RecursionDefined`).

Only model-checked: liveness (`EventuallySettled`, `CallsReturn`,
`PreferredModeReached`, `CallsEnd` of force wake and RAD), which TLAPS does not reach, and the
properties of the violated runs. Every other property of a passing run is proved.

## 7. Where code and text disagree

Five runs end in a violation of what a comment or a manual says:

1. `lspcon_hang`: `setMode` does not count failed reads against its timeout
   (`kern_igfx_lspcon.cpp:106`, against `kern_igfx_lspcon.hpp:335`).
2. `blt_jump`: offsets of 128 to 255 are accepted for a short jump with a signed
   operand (`kern_igfx_backlight.cpp:553`, against line 546).
3. `coord_late`: `disableDependentSubmodules` cannot undo what has been patched in
   the accelerator (`kern_igfx.cpp:368`, against line 367).
4. `fb_icl`: `alldata` is divided into connectors of 12 bytes, on Ice Lake as well
   (`kern_igfx.cpp:1656`, against `Manual/FAQ.IntelHD.en.md:2337`, which says 24).
5. `dvmt`: GMS 0x10 (512 MB) is treated as a reserved value, and the fix makes
   the size 0 (`kern_igfx_memory.cpp:55`, against line 102).

Noticed while modelling, kept as remarks:

- A torn copy can pair a new id with an old target; the next pass repairs it
  (`kern_igfx_backlight.cpp:1238`). On the very first submission it can also be
  a copy without an address, and a write goes to MMIO offset zero.
- A register that holds the requested level already is left alone, also if that level
  is outside of the range (1250). `LevelIsRight` and `ShowsLevel` except exactly that: with
  the smoother, a level outside of its range stays if nothing has moved the register into
  the range since power-up. Any other request is clamped, so that the panel does not show
  what the driver asked for but the nearest level of the range: for the smoother that is
  the intention (`Manual/FAQ.IntelHD.en.md` describes the two bounds).
- A write that only changes the bits outside of the mask is dropped.
- The upper bound's default depends on the lower one being absent (1358).
- `setMode` reports success after its timeout (`kern_igfx_lspcon.cpp:118`); `pmode` of
  a connector that does not say is the previous connector's (175).
- CTL1 written before any frequency writes frequency zero
  (`kern_igfx_backlight.cpp:154`); a duty cycle written first reaches "should never
  happen" (216); on KBL, BLT does not store level zero (955), although the
  comment at 907 says that it stores the given level. `ShowsLevel` is false for a KBL user
  who chooses level zero; the run and the theorem leave that user out (`ZeroByUser`).
- Kexts are switched off by what submodules patch, enabled or not
  (`kern_igfx.cpp:251`).
- `DVMTCalcFix` logs on platforms other than Ice Lake that the fix "is not available on the
  current platform and has been disabled" (`kern_igfx_memory.cpp:38`), but returns with
  `enabled` set and a size of 0. If the framebuffer driver has the formula, it is then
  patched to work with 0, as in the model: `DvmtProcessKernel` has this path, and
  `SizeIsRight` excepts it (`available \/ ~asked`), because there it is false: TLC
  finds that when the exception is taken out. Whether drivers of other platforms have
  the formula is not in this repository, so this is a remark and not a finding.
- `connector-count` replaces the count before overrides are validated
  (`kern_rad.cpp:725`); the pass counter has eight bits (857).
- `no-gfx-spoof` is ignored once another GPU of its kind is faked
  (`kern_weg.cpp:758`); names given next to a GPU that the firmware named GFX0
  repeat (500); `applbkl=3` as a property does not reach RAD (140, 147).
- Two initialisations of framebuffers at a time would save each other's value of
  the verbose flag (`kern_weg.cpp:732`); the model relies on IOGraphics' lock.
- GuC: when the generic firmware cannot be written, the dummy stays allocated
  (`kern_igfx.cpp:1481`); without `Serial`, a client's buffer that is allocated during a
  load is taken for the firmware's (1440), which violates both properties.
- Link rate: overlapping reads of two displays mix their arguments
  (`kern_igfx_clock.cpp:176`): `RateIsOwn` is violated without `Serial`. Whether the driver
  serialises them is not in this code.
- HDMI: pixel clocks from 485 to 526 MHz and from 646 MHz have no divider; the
  parameters then keep the values that the driver's caller left in them.
- Framebuffer patches: binary patches of Sandy Bridge apply if any word of the list
  equals the id; there are none when the base frame is not found; the second call takes
  back a binary patch of a word that a field patches as well; the last word of the
  searched page is not looked at. A binary patch that writes a frame's id can make the
  second call apply an earlier one (section 6); such patches are left out of the instances.
- NGFX: the prologue is gone when `routeFunction` fails after it was replaced
  (`kern_ngfx.cpp:196`), and the driver's own calls then run without a stack frame,
  which `CallsAreWhole` excepts; a channel is prepared twice on refusal
  (336, `orgFifoComplete` is looked up but not used); the original is stored after
  the jump to the wrapper is live; the route of GeForceWeb uses
  `orgSetAccelProperties` although `kern_ngfx.hpp:104` has a member of its own.
- Navi 10 backlight: a level set before the panel is known is dropped, and success
  returned (`kern_rad.cpp:258`).

## 8. What is not modelled

- Bytes of machine code and their search: patches of CDF, UNFAIR, DPD, NVMTL,
  SHIKI, Westmere and Gen6 (`kern_igfx.cpp` 1577–1620, 2148–2329), disassembly in BLT's
  probers. A model would repeat the tables. SHIKI is a static choice of such tables.
- In modelled parts: RPS control (a bit test that is patched out),
  the override of the maximal pixel clock (`kern_igfx_clock.cpp` 890–936, a
  constant), the optimizer of display data buffers (`kern_igfx_memory.cpp` 218–),
  and the other wraps of NGFX, which answer from constants.
- The Navi 10 backlight: a conversion of one level in one step.
- Wrappers that answer from a constant (AGDC, Type-C, PAVP, descriptor reads, online
  display) have no state beyond `enabled`, which `SubmoduleCoordinator` has.
- Logging (`kern_igfx_debug.cpp`, `kern_iofbdebug.cpp`: 3,798 lines), model names (a
  table), firmware data (`kern_guc.cpp`: 18,482 lines of one array), Apple's
  interfaces, tools. More than half of the plug-in's lines are such data and logging.
- In WEG: panel data, slot names, the IMEI device, the ConfigMap of AGDP.
- What is left to do is below. `PROJECT.json` lists every component with its status.

## 9. Plan

Done, in this order: smoother with its promise; its set-up; LSPCON and I2C; BLR and
BLT; the submodule coordinator; RAD connectors; WEG core; force wake; GuC firmware;
framebuffer patches; NGFX's submission; link rate; clocks; DVMT.

Next, most important first:

1. **ConfigMap** of AGDP and the IMEI device in WEG, whose decisions follow those
   on ids and policies.
2. **RadeonBacklight** (`kern_rad.cpp`, Navi 10), **SHIKI** bits to patches, RPS control:
   little control, kept for completeness.
