------------------------- MODULE BacklightSmoother -------------------------
(***************************************************************************)
(* The backlight smoother (BLS).  Threads of the framebuffer driver write  *)
(* a PWM register; the injected smooth*WriteRegister* functions replace    *)
(* the write by a request stored in one shared BrightnessRequest and a     *)
(* call of the event source's enable().  The event source runs on a        *)
(* workloop, copies the request and moves the register to the requested    *)
(* level in small steps, starting again when the request's id has changed. *)
(*                                                                         *)
(* Nothing orders the stores of a driver thread against the copy the       *)
(* workloop takes: each of the three 8-byte words of the request is stored *)
(* and loaded on its own, in any order.                                    *)
(***************************************************************************)
EXTENDS Integers, FiniteSets

CONSTANTS Producers,    \* driver threads that write the PWM register
          MaxLevel,     \* largest brightness level
          HighBits,     \* values of the bits outside of the brightness mask
          Steps,        \* BacklightSmoother::steps
          Threshold,    \* BacklightSmoother::threshold
          LowerBound,   \* brightnessRange.first
          UpperBound,   \* brightnessRange.second
          IdMod,        \* request ids are counted modulo IdMod (2^32)
          Wrap          \* uint32_t arithmetic is modulo Wrap (2^32)

Levels == 0..MaxLevel

ASSUME RangeAssumption == /\ MaxLevel \in Nat
                          /\ LowerBound \in Levels
                          /\ UpperBound \in Levels
                          /\ LowerBound <= UpperBound
ASSUME StepsAssumption == Steps \in Nat \ {0} /\ Threshold \in Nat
ASSUME IdAssumption == IdMod \in Nat \ {0}
ASSUME HighBitsAssumption == 0 \in HighBits
\* i * distance does not overflow: the driver's levels are 16 to 17 bits wide
\* and steps is a small number.
ASSUME WrapAssumption == /\ Wrap \in Nat \ {0}
                         /\ MaxLevel < Wrap
                         /\ \A i \in 0..(Steps - 1), d \in Levels : i * d < Wrap

VARIABLES request,      \* BacklightSmoother::request, shared
          regs,         \* the MMIO registers the worker may write
          pending,      \* the workloop's "work to do" flag, set by enable()
          todo,         \* todo[p]: words of its request p still has to store
          new,          \* new[p]: the request p is storing
          busy,         \* busy[p]: p is between reading the id and enable()
          wpc,          \* where the workloop is
          toload,       \* words of the request still to be copied
          req,          \* checkForWork's local copy of the request
          cb, tb,       \* cbrightness and tbrightness
          i             \* the ramp's loop counter

producerVars == <<todo, new, busy>>
workerVars == <<wpc, toload, req, cb, tb, i>>
vars == <<request, regs, pending, todo, new, busy, wpc, toload, req, cb, tb, i>>

-----------------------------------------------------------------------------
\* Values and requests

Values == [hi : HighBits, lo : Levels]      \* a register's content
NoAddress == "zero"                         \* MMIO offset 0
Pwm == "pwm"                                \* the platform's PWM register
Addresses == {NoAddress, Pwm}

Fields == {"controller", "address", "target", "mask", "id"}

\* The 8-byte words in which a BrightnessRequest is stored and loaded.
Words == {{"controller"}, {"address", "target"}, {"mask", "id"}}

Requests == [controller : BOOLEAN,          \* is the pointer non-null?
             address : Addresses,
             target : Values,
             mask : BOOLEAN,                \* FALSE is mask 0
             id : 0..(IdMod - 1)]

EmptyRequest == [controller |-> FALSE, address |-> NoAddress,
                 target |-> [hi |-> 0, lo |-> 0], mask |-> FALSE, id |-> 0]

\* BrightnessRequest(id, controller, address, value, mask)
BrightnessRequest(id, value) ==
  [controller |-> TRUE, address |-> Pwm, target |-> value,
   mask |-> TRUE, id |-> id]

\* One word of src copied over dst.
CopyWord(dst, src, w) == [f \in Fields |-> IF f \in w THEN src[f] ELSE dst[f]]

getCurrentBrightness(r, current) == IF r.mask THEN current.lo ELSE 0
getTargetBrightness(r) == IF r.mask THEN r.target.lo ELSE 0
getTargetRegisterValue(r, brightness) ==
  [hi |-> r.target.hi, lo |-> brightness]

\* max with brightnessRange.first, then min with brightnessRange.second
Clamp(l) ==
  LET raised == IF l < LowerBound THEN LowerBound ELSE l
  IN  IF raised > UpperBound THEN UpperBound ELSE raised

Distance(a, b) == IF a < b THEN b - a ELSE a - b

\* Mutated form of RampLevel: the downward loop adds.
RampLevelUp(k) == (cb + (k * Distance(cb, tb)) \div Steps) % Wrap

\* The level the ramp writes in its k-th step.
RampLevel(k) ==
  LET part == ((k * Distance(cb, tb)) % Wrap) \div Steps
  IN  IF cb < tb THEN (cb + part) % Wrap ELSE (cb - part) % Wrap

-----------------------------------------------------------------------------
Init == /\ request = EmptyRequest
        /\ regs \in [Addresses -> Values]
        /\ pending \in BOOLEAN      \* the new workloop may owe its first pass
        /\ todo = [p \in Producers |-> {}]
        /\ new = [p \in Producers |-> EmptyRequest]
        /\ busy = [p \in Producers |-> FALSE]
        /\ wpc = "idle"
        /\ toload = {}
        /\ req = EmptyRequest
        /\ cb = 0
        /\ tb = 0
        /\ i = 0

\* A driver thread writes v to the PWM register: the injected function reads
\* the current request's id and builds the next request.
Submit(p, v) ==
  /\ ~busy[p]
  /\ busy' = [busy EXCEPT ![p] = TRUE]
  /\ new' = [new EXCEPT ![p] = BrightnessRequest((request.id + 1) % IdMod, v)]
  /\ todo' = [todo EXCEPT ![p] = Words]
  /\ UNCHANGED <<request, regs, pending, workerVars>>

\* It assigns the new request to the shared one, a word at a time ...
StoreWord(p) ==
  /\ \E w \in todo[p] :
       /\ request' = CopyWord(request, new[p], w)
       /\ todo' = [todo EXCEPT ![p] = @ \ {w}]
  /\ UNCHANGED <<regs, pending, new, busy, workerVars>>

\* Mutated form of Enable: the event source is notified before the request has
\* been stored.
EnableEarly(p) ==
  /\ busy[p]
  /\ pending' = TRUE
  /\ busy' = [busy EXCEPT ![p] = FALSE]
  /\ UNCHANGED <<request, regs, todo, new, workerVars>>

\* ... and notifies the event source.
Enable(p) ==
  /\ busy[p] /\ todo[p] = {}
  /\ pending' = TRUE
  /\ busy' = [busy EXCEPT ![p] = FALSE]
  /\ new' = [new EXCEPT ![p] = EmptyRequest]
  /\ UNCHANGED <<request, regs, todo, workerVars>>

\* The workloop starts a pass over its event source: it was notified, or the
\* last pass asked for another one.  It first clears its "work to do" flag.
StartPass ==
  /\ (wpc = "idle" /\ pending) \/ wpc = "again"
  /\ pending' = FALSE
  /\ wpc' = "copy"
  /\ toload' = Words
  /\ cb' = 0 /\ tb' = 0 /\ i' = 0      \* the locals of the new call
  /\ UNCHANGED <<request, regs, producerVars, req>>

\* checkForWork copies the shared request into a local one.
LoadWord ==
  /\ wpc = "copy"
  /\ \E w \in toload :
       /\ req' = CopyWord(req, request, w)
       /\ toload' = toload \ {w}
  /\ UNCHANGED <<request, regs, pending, producerVars, wpc, cb, tb, i>>

\* return false: the request is empty
ReturnEmpty ==
  /\ wpc = "copy" /\ toload = {}
  /\ ~req.controller
  /\ wpc' = "idle"
  /\ UNCHANGED <<request, regs, pending, producerVars, toload, req, cb, tb, i>>

\* return false: the register already holds the requested level
ReturnCompleted ==
  /\ wpc = "copy" /\ toload = {}
  /\ req.controller
  /\ getCurrentBrightness(req, regs[req.address]) = getTargetBrightness(req)
  /\ wpc' = "idle"
  /\ UNCHANGED <<request, regs, pending, producerVars, toload, req, cb, tb, i>>

\* The register is read and the target moved into the configured range; the
\* ramp is taken when the distance exceeds the threshold.
Prepare ==
  /\ wpc = "copy" /\ toload = {}
  /\ req.controller
  /\ LET current == getCurrentBrightness(req, regs[req.address])
         target == getTargetBrightness(req)
     IN  /\ current # target
         /\ cb' = current
         /\ tb' = Clamp(target)
         /\ IF Distance(current, Clamp(target)) > Threshold /\ Steps > 1
            THEN wpc' = "ramp" /\ i' = 1
            ELSE wpc' = "final" /\ i' = 0
  /\ UNCHANGED <<request, regs, pending, producerVars, toload, req>>

WriteLevel(l) ==
  regs' = [regs EXCEPT ![req.address] = getTargetRegisterValue(req, l)]

\* One step of the ramp: write the register, then sleep.
RampWrite ==
  /\ wpc = "ramp"
  /\ WriteLevel(RampLevel(i))
  /\ wpc' = "sleep"
  /\ UNCHANGED <<request, pending, producerVars, toload, req, cb, tb, i>>

\* Mutated form of RampCheck: the loop counter is not advanced.
RampCheckStuck ==
  /\ wpc = "sleep"
  /\ wpc' = IF request.id # req.id THEN "again" ELSE "ramp"
  /\ UNCHANGED <<request, regs, pending, producerVars, toload, req, cb, tb, i>>

\* After the sleep, return true when the shared request has another id.
RampCheck ==
  /\ wpc = "sleep"
  /\ IF request.id # req.id
     THEN wpc' = "again" /\ i' = i
     ELSE IF i + 1 < Steps
          THEN wpc' = "ramp" /\ i' = i + 1
          ELSE wpc' = "final" /\ i' = i
  /\ UNCHANGED <<request, regs, pending, producerVars, toload, req, cb, tb>>

FinalWrite ==
  /\ wpc = "final"
  /\ WriteLevel(tb)
  /\ wpc' = "return"
  /\ UNCHANGED <<request, pending, producerVars, toload, req, cb, tb, i>>

\* return smoother->request.id != request.id
ReturnFinal ==
  /\ wpc = "return"
  /\ wpc' = IF request.id # req.id THEN "again" ELSE "idle"
  /\ UNCHANGED <<request, regs, pending, producerVars, toload, req, cb, tb, i>>

checkForWork == \/ LoadWord \/ ReturnEmpty \/ ReturnCompleted \/ Prepare
                \/ RampWrite \/ RampCheck \/ FinalWrite \/ ReturnFinal

Workloop == StartPass \/ checkForWork

Finish(p) == StoreWord(p) \/ Enable(p)

Next == \/ \E p \in Producers : Finish(p) \/ \E v \in Values : Submit(p, v)
        \/ Workloop

Safety == Init /\ [][Next]_vars

\* A driver thread that has begun a request finishes it, and the workloop's
\* thread is scheduled.  The driver is never obliged to make a request.
Spec == /\ Safety
        /\ WF_vars(Workloop)
        /\ \A p \in Producers : WF_vars(Finish(p))

-----------------------------------------------------------------------------
\* Properties

\* Registers, requests and the worker's arithmetic keep their widths: the ramp
\* of checkForWork never leaves the levels.
TypeOK ==
  /\ request \in Requests
  /\ regs \in [Addresses -> Values]
  /\ pending \in BOOLEAN
  /\ todo \in [Producers -> SUBSET Words]
  /\ new \in [Producers -> Requests]
  /\ busy \in [Producers -> BOOLEAN]
  /\ wpc \in {"idle", "copy", "ramp", "sleep", "final", "return", "again"}
  /\ toload \in SUBSET Words
  /\ req \in Requests
  /\ cb \in Levels /\ tb \in Levels
  /\ i \in 0..Steps

\* No thread is inside a submission, and the workloop sleeps with nothing to do.
Quiet == /\ \A p \in Producers : ~busy[p]
         /\ wpc = "idle"
         /\ ~pending

\* The register shows the level of the shared request: the level itself, when
\* the register held it already, or the level moved into the range.
Settled ==
  request.controller =>
    regs[Pwm].lo \in {request.target.lo, Clamp(request.target.lo)}

\* No request is lost: however the threads of the driver and the workloop
\* interleave, and whatever mixture of old and new words the workloop copies,
\* the workloop never goes to sleep for good on a level that is not the one
\* of the latest request (checkForWork's return values and enable()).
QuietMeansSettled == Quiet => Settled

\* When the driver stops writing, the register settles on the last request.
EventuallySettled ==
  <>[](\A p \in Producers : ~busy[p]) => <>[]Settled

-----------------------------------------------------------------------------
\* The abstract view: the level the panel shows, the latest request, and the
\* level the request last copied by the workloop leads to.
Promise == INSTANCE BrightnessPromise
             WITH level <- regs[Pwm].lo,
                  goal <- request.target.lo,
                  asked <- request.controller,
                  dest <- Clamp(req.target.lo)

\* Whatever mixture of old and new words the workloop copies, and whenever the
\* request is replaced, every write moves the panel toward the level of a
\* request of the driver, kept in the range, and never past it: no flash of
\* another level (the loops of lines 1261-1289 and the id checks in them).
ImplementsPromise == Promise!Safety
=============================================================================
