----------------------- MODULE FramebufferHooksProofs -----------------------
(***************************************************************************)
(* Proofs about the hooks in Intel's framebuffer driver, which share no    *)
(* state: accesses over the AUX channel, for adapters, chunks and accesses *)
(* of any size and any pattern of failed transactions; the LSPCON driver,  *)
(* for any number of connectors, attempts and looks at the mode; the core  *)
(* display clock, for any clock that the firmware leaves; the dividers of  *)
(* HDMI, for any pixel clock; and link rates, for any displays, tables of  *)
(* rates and number of threads.                                            *)
(***************************************************************************)
EXTENDS I2COverAUX, LSPCONDriver, DisplayClocks, DPCDMaxLinkRateFix,
        WellFoundedInduction, TLAPS

-----------------------------------------------------------------------------
\* Accesses over the AUX channel

Done == total - left

\* Before the first chunk the adapter is as it was when the access began.
Untouched == pc \in {"guard", "start", "seek"} => regs = before /\ left = total

\* The bytes to write are in the buffer during the whole access.
BufferFilled ==
  op = "write" => \A k \in 0..(total - 1) : buffer[k] \in Bytes

\* Between two chunks the adapter's position is where the access has got to,
\* and the chunks so far have been transferred.
Progress ==
  pc = "data" =>
    /\ position = offset + Done
    /\ op = "read" => \A k \in 0..(Done - 1) : buffer[k] = regs[offset + k]
    /\ op = "write" => \A k \in 0..(Done - 1) : regs[offset + k] = buffer[k]

\* Only a finished access has a result.
ResultAtEnd == pc # "idle" => result = "none"

IInv == /\ TypeOK /\ Untouched /\ BufferFilled /\ Progress /\ ResultAtEnd
        /\ WriteStaysInside /\ ReadIsExact /\ WriteIsExact

\* The invariant holds before the first access.
LEMMA InitInv == Init => IInv
<1> SUFFICES ASSUME Init PROVE IInv
  OBVIOUS
<1>1. /\ offset \in Offsets /\ total \in 0..MaxLength /\ left \in 0..total
      /\ offset + total <= Size
  BY SizeAssumption, MaxLengthAssumption DEF Init, Offsets
<1>2. buffer \in Buffers
  BY DEF Init, Buffers
<1>3. TypeOK
  BY <1>1, <1>2 DEF Init, TypeOK
<1>4. /\ Untouched /\ BufferFilled /\ Progress /\ ResultAtEnd
      /\ WriteStaysInside /\ ReadIsExact /\ WriteIsExact
  BY DEF Init, Untouched, BufferFilled, Progress, ResultAtEnd,
         WriteStaysInside, ReadIsExact, WriteIsExact
<1>5. QED
  BY <1>3, <1>4 DEF IInv

\* An access starts with all of its bytes left.
LEMMA CallInv ==
  ASSUME IInv, NEW o \in {"read", "write"}, NEW f \in Offsets,
         NEW n \in 0..MaxLength, Call(o, f, n)
  PROVE  IInv'
<1>1. TypeOK'
  BY MaxLengthAssumption DEF IInv, TypeOK, Call, Goto, Buffers
<1>2. BufferFilled'
  <2>1. CASE o = "write"
    <3>1. buffer' \in {b \in Buffers : \A k \in 0..(MaxLength - 1) :
                                         b[k] \in Bytes <=> k < n}
      BY <2>1 DEF Call
    <3>2. total' = n
      BY DEF Call
    <3>3. QED
      BY <3>1, <3>2, MaxLengthAssumption DEF BufferFilled
  <2>2. CASE o = "read"
    BY <2>2 DEF Call, BufferFilled
  <2>3. QED
    BY <2>1, <2>2
<1>3. Untouched' /\ Progress' /\ ResultAtEnd' /\ WriteStaysInside'
      /\ ReadIsExact' /\ WriteIsExact'
  BY DEF Call, Goto, Untouched, Progress, ResultAtEnd, WriteStaysInside,
         ReadIsExact, WriteIsExact
<1>4. QED
  BY <1>1, <1>2, <1>3 DEF IInv

\* The steps that transfer no data.
LEMMA ControlInv ==
  ASSUME IInv, Guard \/ Start \/ Seek \/ Abort \/ Terminate
  PROVE  IInv'
<1>1. UNCHANGED <<regs, op, offset, total, left, buffer, before>>
  BY DEF Guard, Start, Seek, Abort, Terminate, request
<1>2. TypeOK'
  <2>0. open' \in BOOLEAN
    BY DEF Guard, Start, Seek, Abort, Terminate, IInv, TypeOK
  <2>1. position' \in 0..Size
    <3>1. position' \in {position, offset}
      BY DEF Guard, Start, Seek, Abort, Terminate
    <3>2. position \in 0..Size /\ offset \in 0..Size
      BY SizeAssumption DEF IInv, TypeOK, Offsets
    <3>3. QED
      BY <3>1, <3>2
  <2>2. pc' \in {"idle", "start", "seek", "data"}
        /\ result' \in {"none", "success", "error", "invalid"}
    BY DEF Guard, Start, Seek, Abort, Terminate, IInv, TypeOK, Goto, Return
  <2>3. QED
    BY <1>1, <2>0, <2>1, <2>2 DEF IInv, TypeOK
<1>3. BufferFilled' /\ WriteStaysInside'
  BY <1>1 DEF IInv, BufferFilled, WriteStaysInside
<1>4. Untouched' /\ ResultAtEnd'
  BY <1>1 DEF Guard, Start, Seek, Abort, Terminate, IInv, Untouched,
              ResultAtEnd, Goto, Return
<1>5. Progress'
  <2>1. pc' = "data" => Seek /\ position' = offset /\ left = total
    BY DEF Guard, Start, Seek, Abort, Terminate, IInv, Untouched, Goto, Return
  <2>2. offset \in Int /\ total \in Int
    BY DEF IInv, TypeOK, Offsets
  <2>3. QED
    BY <1>1, <2>1, <2>2 DEF Progress, Done
<1>6. ReadIsExact' /\ WriteIsExact'
  <2>1. result' = "success" => Terminate
    BY DEF Guard, Start, Seek, Abort, Terminate, IInv, ResultAtEnd, Goto,
           Return
  <2>2. Terminate => Done = total
    BY DEF Terminate, IInv, TypeOK, Done, Offsets
  <2>3. QED
    BY <1>1, <2>1, <2>2
       DEF Terminate, IInv, Progress, ReadIsExact, WriteIsExact
<1>7. QED
  BY <1>2, <1>3, <1>4, <1>5, <1>6 DEF IInv

\* The chunk and the buffer around it.
LEMMA ChunkFacts ==
  ASSUME TypeOK, left > 0
  PROVE  /\ ChunkLength \in 1..left
         /\ Done \in 0..(total - 1)
         /\ Done + ChunkLength <= total
         /\ total \in Nat /\ offset \in Nat /\ left \in Nat
         /\ total <= MaxLength /\ MaxLength \in Nat
BY ChunkAssumption, MaxLengthAssumption
   DEF TypeOK, ChunkLength, Done, Offsets

\* What a chunk of a write leaves in the registers.
LEMMA WrittenFacts ==
  ASSUME IInv, pc = "data", left > 0, op = "write"
  PROVE  /\ WrittenFrom \in [Offsets -> Bytes]
         /\ \A k \in 0..(Done + ChunkLength - 1) :
              WrittenFrom[offset + k] = buffer[k]
         /\ \A r \in Offsets :
              \/ WrittenFrom[r] = regs[r]
              \/ /\ r - offset \in 0..(total - 1)
                 /\ WrittenFrom[r] = buffer[r - offset]
<1>1. /\ ChunkLength \in 1..left /\ Done \in 0..(total - 1)
      /\ Done + ChunkLength <= total
      /\ total \in Nat /\ offset \in Nat /\ left \in Nat
  BY ChunkFacts DEF IInv
<1>2. position = offset + Done
      /\ \A k \in 0..(Done - 1) : regs[offset + k] = buffer[k]
  BY DEF IInv, Progress
<1>3. offset + total <= Size /\ Size \in Nat
  BY SizeAssumption DEF IInv, TypeOK
<1>4. ASSUME NEW r \in Offsets
      PROVE  WrittenFrom[r] = IF r - offset \in Done..(Done + ChunkLength - 1)
                              THEN buffer[r - offset] ELSE regs[r]
  <2>1. r - position + (total - left) = r - offset
    BY <1>1, <1>2 DEF Done, Offsets
  <2>2. QED
    BY <2>1 DEF WrittenFrom, Carried, Done
<1>5. ASSUME NEW k \in 0..(Done + ChunkLength - 1)
      PROVE  WrittenFrom[offset + k] = buffer[k]
  <2>1. offset + k \in Offsets /\ (offset + k) - offset = k
    BY <1>1, <1>3 DEF Offsets
  <2>2. k \in Done..(Done + ChunkLength - 1) \/ k \in 0..(Done - 1)
    BY <1>1
  <2>3. QED
    BY <1>2, <1>4, <2>1, <2>2
<1>6. ASSUME NEW r \in Offsets
      PROVE  \/ WrittenFrom[r] = regs[r]
             \/ /\ r - offset \in 0..(total - 1)
                /\ WrittenFrom[r] = buffer[r - offset]
  BY <1>1, <1>4 DEF Offsets
<1>7. ASSUME NEW r \in Offsets PROVE WrittenFrom[r] \in Bytes
  BY <1>6, <1>7 DEF IInv, BufferFilled, TypeOK
<1>8. WrittenFrom \in [Offsets -> Bytes]
  BY <1>7 DEF WrittenFrom
<1>9. QED
  BY <1>5, <1>6, <1>8

\* What a chunk of a read leaves in the buffer.
LEMMA ReadFacts ==
  ASSUME IInv, pc = "data", left > 0, op = "read"
  PROVE  /\ ReadInto \in Buffers
         /\ \A k \in 0..(Done + ChunkLength - 1) :
              ReadInto[k] = regs[offset + k]
<1>1. /\ ChunkLength \in 1..left /\ Done \in 0..(total - 1)
      /\ Done + ChunkLength <= total
      /\ total \in Nat /\ offset \in Nat /\ left \in Nat
      /\ total <= MaxLength /\ MaxLength \in Nat
  BY ChunkFacts DEF IInv
<1>2. position = offset + Done
      /\ \A k \in 0..(Done - 1) : buffer[k] = regs[offset + k]
  BY DEF IInv, Progress
<1>3. offset + total <= Size /\ Size \in Nat
  BY SizeAssumption DEF IInv, TypeOK
<1>4. ASSUME NEW k \in 0..(MaxLength - 1)
      PROVE  ReadInto[k] = IF k \in Done..(Done + ChunkLength - 1)
                           THEN regs[offset + k] ELSE buffer[k]
  <2>1. position + (k - (total - left)) = offset + k
    BY <1>1, <1>2 DEF Done
  <2>2. QED
    BY <2>1 DEF ReadInto, Carried, Done
<1>5. ASSUME NEW k \in 0..(MaxLength - 1)
      PROVE  ReadInto[k] \in Bytes \cup {Garbage}
  <2>1. k \in Done..(Done + ChunkLength - 1) => offset + k \in Offsets
    BY <1>1, <1>3 DEF Offsets
  <2>2. QED
    BY <1>4, <2>1 DEF IInv, TypeOK, Buffers
<1>6. ReadInto \in Buffers
  BY <1>5 DEF ReadInto, Buffers
<1>7. ASSUME NEW k \in 0..(Done + ChunkLength - 1)
      PROVE  ReadInto[k] = regs[offset + k]
  <2>1. k \in 0..(MaxLength - 1)
    BY <1>1
  <2>2. k \in Done..(Done + ChunkLength - 1) \/ k \in 0..(Done - 1)
    BY <1>1
  <2>3. QED
    BY <1>2, <1>4, <2>1, <2>2
<1>8. QED
  BY <1>6, <1>7

\* A chunk moves exactly its own bytes, or a part of them when it fails.
LEMMA TransferInv == IInv /\ Transfer => IInv'
<1> SUFFICES ASSUME IInv, Transfer PROVE IInv'
  OBVIOUS
<1>1. /\ pc = "data" /\ left > 0 /\ left \in Nat /\ result' = result
      /\ UNCHANGED <<open, op, offset, total, before>>
  BY DEF Transfer, request, IInv, TypeOK
<1>2. /\ ChunkLength \in 1..left /\ Done \in 0..(total - 1)
      /\ Done + ChunkLength <= total
      /\ total \in Nat /\ offset \in Nat
  BY <1>1, ChunkFacts DEF IInv
<1>3. offset + total <= Size /\ Size \in Nat /\ position = offset + Done
  BY <1>1, SizeAssumption DEF IInv, TypeOK, Progress
<1>4. /\ regs' \in {regs, WrittenFrom}
      /\ op = "read" => regs' = regs
      /\ buffer' \in {buffer, ReadInto}
      /\ op = "write" => buffer' = buffer
  BY DEF Transfer
<1>5. op \in {"read", "write"}
  BY DEF IInv, TypeOK
<1>6. regs' \in [Offsets -> Bytes] /\ buffer' \in Buffers
  BY <1>1, <1>4, <1>5, WrittenFacts, ReadFacts DEF IInv, TypeOK
<1>7. position' \in 0..Size /\ left' \in 0..total /\ pc' \in {"data", "abort"}
  BY <1>1, <1>2, <1>3 DEF Transfer, Goto, Done
<1>8. TypeOK'
  BY <1>1, <1>6, <1>7 DEF IInv, TypeOK
<1>9. WriteStaysInside'
  <2>1. CASE op = "read"
    BY <2>1, <1>1, <1>4 DEF IInv, WriteStaysInside
  <2>2. CASE op = "write"
    BY <2>2, <1>1, <1>4, WrittenFacts DEF IInv, WriteStaysInside
  <2>3. QED
    BY <1>5, <2>1, <2>2
<1>10. Progress'
  <2> SUFFICES ASSUME pc' = "data"
               PROVE  /\ position' = offset + Done'
                      /\ op = "read" => \A k \in 0..(Done' - 1) :
                                          buffer'[k] = regs'[offset + k]
                      /\ op = "write" => \A k \in 0..(Done' - 1) :
                                           regs'[offset + k] = buffer'[k]
    BY <1>1 DEF Progress
  <2>1. /\ position' = position + ChunkLength /\ left' = left - ChunkLength
        /\ op = "read" => buffer' = ReadInto
        /\ op # "read" => regs' = WrittenFrom
    BY DEF Transfer, Goto
  <2>2. Done' = Done + ChunkLength
    BY <1>1, <1>2, <2>1 DEF Done
  <2>3. position' = offset + Done'
    BY <1>2, <1>3, <2>1, <2>2
  <2>4. CASE op = "read"
    <3>1. \A k \in 0..(Done + ChunkLength - 1) : ReadInto[k] = regs[offset + k]
      BY <2>4, <1>1, ReadFacts
    <3>2. buffer' = ReadInto /\ regs' = regs
      BY <2>1, <2>4, <1>4
    <3>3. \A k \in 0..(Done' - 1) : buffer'[k] = regs'[offset + k]
      <4> TAKE k \in 0..(Done' - 1)
      <4>1. k \in 0..(Done + ChunkLength - 1)
        BY <1>2, <2>2
      <4>2. ReadInto[k] = regs[offset + k]
        BY <3>1, <4>1
      <4>3. QED
        BY <3>2, <4>2, Zenon
    <3>4. QED
      BY <2>3, <2>4, <3>3
  <2>5. CASE op = "write"
    <3>1. \A k \in 0..(Done + ChunkLength - 1) :
            WrittenFrom[offset + k] = buffer[k]
      BY <2>5, <1>1, WrittenFacts
    <3>2. buffer' = buffer /\ regs' = WrittenFrom
      BY <2>1, <2>5, <1>4
    <3>3. \A k \in 0..(Done' - 1) : regs'[offset + k] = buffer'[k]
      <4> TAKE k \in 0..(Done' - 1)
      <4>1. k \in 0..(Done + ChunkLength - 1)
        BY <1>2, <2>2
      <4>2. WrittenFrom[offset + k] = buffer[k]
        BY <3>1, <4>1
      <4>3. QED
        BY <3>2, <4>2, Zenon
    <3>4. QED
      BY <2>3, <2>5, <3>3
  <2>6. QED
    BY <1>5, <2>4, <2>5
<1>11. BufferFilled'
  BY <1>1, <1>4 DEF IInv, BufferFilled
<1>12. Untouched' /\ ResultAtEnd' /\ ReadIsExact' /\ WriteIsExact'
  BY <1>1, <1>7 DEF IInv, Untouched, ResultAtEnd, ReadIsExact, WriteIsExact
<1>13. QED
  BY <1>8, <1>9, <1>10, <1>11, <1>12 DEF IInv

\* No step leaves the invariant.
LEMMA StepInv == IInv /\ [Next]_vars => IInv'
<1>1. ASSUME IInv, UNCHANGED vars PROVE IInv'
  BY <1>1 DEF vars, IInv, TypeOK, Untouched, BufferFilled, Progress, Done,
              ResultAtEnd, WriteStaysInside, ReadIsExact, WriteIsExact
<1>2. QED
  BY <1>1, CallInv, ControlInv, TransferInv DEF Next, Access

\* For every adapter, chunk and access.
THEOREM InductiveInvariant == Spec => []IInv
<1>1. QED
  BY InitInv, StepInv, PTL DEF Spec

\* A successful access of advReadI2COverAUX fills the buffer with the registers
\* at the offset, one of advWriteI2COverAUX writes exactly the buffer, and no
\* failed access changes another register, for every size and chunk.
THEOREM AccessesAreExact == Spec => [](TypeOK /\ AccessIsExact)
<1>1. IInv => TypeOK /\ AccessIsExact
  BY DEF IInv, AccessIsExact
<1>2. QED
  BY <1>1, InductiveInvariant, PTL

-----------------------------------------------------------------------------
\* The LSPCON driver

\* A driver is kept for marked connectors with an LSPCON chip only, and mode
\* changes are made through a driver.
DriversProbed ==
  \A c \in Connectors :
    /\ driver[c] => has[c] /\ chip[c]
    /\ lspconPc[c] = "probe" => has[c]
    /\ lspconPc[c] \in {"running", "write", "verify"} => driver[c]

\* setMode's remaining time is a number of intervals, and not used up while it waits.
TimeLeft ==
  \A c \in Connectors :
    \E k \in Nat : timeout[c] = k * Interval /\ (lspconPc[c] = "verify" => k > 0)

LspconInv == LspconTypeOK /\ DriversProbed /\ TimeLeft

\* The waiting time is a number of intervals.
LEMMA WholeIntervals == \E k \in Nat : k > 0 /\ Timeout = k * Interval
<1>1. Timeout = (Timeout \div Interval) * Interval /\ Timeout \div Interval \in Nat
  BY TimeoutAssumption
<1>2. Timeout \div Interval > 0
  BY <1>1, TimeoutAssumption
<1>3. QED
  BY <1>1, <1>2

\* The invariant holds before the first call.
LEMMA LspconInitInv == LspconInit => LspconInv
<1> SUFFICES ASSUME LspconInit PROVE LspconInv
  OBVIOUS
<1>1. preferred \in [Connectors -> Modes]
  BY DEF LspconInit, PreferredModes, Parse, Modes
<1>2. LspconTypeOK
  BY <1>1, AttemptsAssumption, TimeoutAssumption DEF LspconInit, LspconTypeOK
<1>3. DriversProbed
  BY DEF LspconInit, DriversProbed
<1>4. TimeLeft
  <2>1. 0 = 0 * Interval
    BY TimeoutAssumption
  <2>2. QED
    BY <2>1 DEF LspconInit, TimeLeft
<1>5. QED
  BY <1>2, <1>3, <1>4 DEF LspconInv

\* Every step of a call keeps its counters in their ranges; the remaining time
\* does so because it is a number of intervals.
LEMMA LspconTypeStep ==
  ASSUME LspconInv, NEW c \in Connectors,
         GetDPCDInfo(c) \/ Setup(c) \/ Switch(c) \/ PowerCycle(c) \/ Channel(c)
  PROVE  LspconTypeOK'
<1> USE DEF LspconInv, LspconTypeOK, config, hardware, At, Continue
<1>1. CASE GetDPCDInfo(c)
  BY <1>1 DEF GetDPCDInfo
<1>2. CASE Probe(c)
  BY <1>2 DEF Probe
<1>3. CASE IsRunningInMode(c)
  BY <1>3, AttemptsAssumption DEF IsRunningInMode, ReadFails, ReadSucceeds, Returns
<1>4. CASE WriteMode(c)
  BY <1>4, TimeoutAssumption DEF WriteMode, Returns
<1>5. CASE Verify(c)
  <2>1. /\ attempt' \in [Connectors -> 0..(Attempts - 1)]
        /\ lspconPc' \in [Connectors -> {"idle", "probe", "running", "write", "verify",
                                         "wake", "original"}]
        /\ lspconResult' \in [Connectors -> {"none", "success", "error"}]
        /\ UNCHANGED <<has, preferred, mode, wanted, driver, first>>
    BY <1>5, AttemptsAssumption DEF Verify, ReadFails, ReadSucceeds, Returns
  <2>2. timeout[c] - Interval \in 0..Timeout
    <3>1. PICK k \in Nat : timeout[c] = k * Interval /\ k > 0
      BY <1>5 DEF Verify, TimeLeft
    <3>2. k * Interval >= Interval
      BY <3>1, TimeoutAssumption
    <3>3. QED
      BY <3>1, <3>2, TimeoutAssumption
  <2>3. timeout' \in [Connectors -> 0..Timeout]
    BY <1>5, <2>2 DEF Verify
  <2>4. QED
    BY <2>1, <2>3
<1>6. CASE WakeUpNativeAUX(c)
  BY <1>6 DEF WakeUpNativeAUX
<1>7. CASE Original(c)
  BY <1>7 DEF Original
<1>8. CASE Switch(c)
  BY <1>8 DEF Switch
<1>9. CASE PowerCycle(c)
  BY <1>9 DEF PowerCycle, Modes
<1>10. CASE Channel(c)
  BY <1>10 DEF Channel
<1>11. QED
  BY <1>1, <1>2, <1>3, <1>4, <1>5, <1>6, <1>7, <1>8, <1>9, <1>10 DEF Setup

\* Only a probe makes a driver, and only calls with a driver get past it.
LEMMA DriversProbedStep ==
  ASSUME LspconInv, NEW c \in Connectors,
         GetDPCDInfo(c) \/ Setup(c) \/ Switch(c) \/ PowerCycle(c) \/ Channel(c)
  PROVE  DriversProbed'
<1> USE DEF LspconInv, LspconTypeOK, DriversProbed, config, hardware, At, Continue
<1>1. CASE GetDPCDInfo(c)
  BY <1>1 DEF GetDPCDInfo
<1>2. CASE Probe(c)
  BY <1>2 DEF Probe
<1>3. CASE IsRunningInMode(c)
  BY <1>3 DEF IsRunningInMode, Returns
<1>4. CASE WriteMode(c)
  BY <1>4 DEF WriteMode, Returns
<1>5. CASE Verify(c)
  BY <1>5 DEF Verify, Returns
<1>6. CASE WakeUpNativeAUX(c)
  BY <1>6 DEF WakeUpNativeAUX
<1>7. CASE Original(c)
  BY <1>7 DEF Original
<1>8. CASE Switch(c) \/ PowerCycle(c) \/ Channel(c)
  BY <1>8 DEF Switch, PowerCycle, Channel
<1>9. QED
  BY <1>1, <1>2, <1>3, <1>4, <1>5, <1>6, <1>7, <1>8 DEF Setup

\* The time only begins anew, or shrinks by an interval.
LEMMA TimeLeftStep ==
  ASSUME LspconInv, NEW c \in Connectors,
         GetDPCDInfo(c) \/ Setup(c) \/ Switch(c) \/ PowerCycle(c) \/ Channel(c)
  PROVE  TimeLeft'
<1> USE DEF LspconInv, config, hardware, At, Continue
<1>1. lspconPc \in [Connectors -> {"idle", "probe", "running", "write", "verify",
                                   "wake", "original"}]
      /\ timeout \in [Connectors -> 0..Timeout]
  BY DEF LspconTypeOK
<1>2. ASSUME \A d \in Connectors :
               /\ timeout'[d] = timeout[d]
               /\ lspconPc'[d] = "verify" => lspconPc[d] = "verify"
      PROVE  TimeLeft'
  BY <1>2 DEF TimeLeft
<1>3. CASE GetDPCDInfo(c) \/ Probe(c) \/ WakeUpNativeAUX(c) \/ Original(c)
  <2>1. timeout' = timeout /\ \E l : l # "verify" /\ lspconPc' = [lspconPc EXCEPT ![c] = l]
    BY <1>3 DEF GetDPCDInfo, Probe, WakeUpNativeAUX, Original
  <2>2. QED
    BY <1>1, <1>2, <2>1
<1>4. CASE IsRunningInMode(c) \/ Switch(c) \/ PowerCycle(c) \/ Channel(c)
  <2>1. /\ timeout' = timeout
        /\ \/ lspconPc' = lspconPc
           \/ \E l : l # "verify" /\ lspconPc' = [lspconPc EXCEPT ![c] = l]
    BY <1>4 DEF IsRunningInMode, Returns, Switch, PowerCycle, Channel
  <2>2. QED
    BY <1>1, <1>2, <2>1
<1>5. CASE WriteMode(c)
  <2>1. CASE timeout' = timeout /\ Returns(c, "error")
    BY <1>1, <1>2, <2>1 DEF Returns
  <2>2. CASE timeout' = [timeout EXCEPT ![c] = Timeout] /\ Continue(c, "verify")
    BY <1>1, <2>2, WholeIntervals DEF TimeLeft
  <2>3. QED
    BY <1>5, <2>1, <2>2 DEF WriteMode
<1>6. CASE Verify(c)
  <2>1. CASE timeout' = timeout /\ (lspconPc' = lspconPc \/ Returns(c, "success"))
    BY <1>1, <1>2, <2>1 DEF Returns
  <2>2. CASE /\ timeout' = [timeout EXCEPT ![c] = @ - Interval]
             /\ IF timeout[c] = Interval THEN Returns(c, "success")
                ELSE lspconPc' = lspconPc
    <3>1. PICK k \in Nat : timeout[c] = k * Interval /\ k > 0
      BY <1>6 DEF Verify, TimeLeft
    <3>2. (k - 1) * Interval = k * Interval - Interval /\ k - 1 \in Nat
      BY <3>1, TimeoutAssumption
    <3>3. timeout[c] # Interval => k # 1
      BY <3>1, TimeoutAssumption
    <3>4. timeout'[c] = (k - 1) * Interval
      BY <1>1, <2>2, <3>1, <3>2
    <3>5. lspconPc'[c] = "verify" => k - 1 > 0
      BY <1>1, <2>2, <3>1, <3>3 DEF Returns
    <3>6. \A d \in Connectors \ {c} : timeout'[d] = timeout[d] /\ lspconPc'[d] = lspconPc[d]
      BY <1>1, <2>2 DEF Returns
    <3>7. QED
      BY <3>2, <3>4, <3>5, <3>6 DEF TimeLeft
  <2>3. QED
    BY <1>6, <2>1, <2>2 DEF Verify
<1>7. QED
  BY <1>3, <1>4, <1>5, <1>6 DEF Setup

\* No step of a call, an adapter or a channel leaves the invariant.
LEMMA LspconStepInv == LspconInv /\ [LspconNext]_lspconVars => LspconInv'
<1>1. ASSUME LspconInv, UNCHANGED lspconVars PROVE LspconInv'
  BY <1>1 DEF lspconVars, LspconInv, LspconTypeOK, DriversProbed, TimeLeft
<1>2. QED
  BY <1>1, LspconTypeStep, DriversProbedStep, TimeLeftStep, Zenon DEF LspconNext, LspconInv

\* The counters of getMode and setMode stay in their ranges, and what they count
\* belongs to a probed chip, for any number of attempts and any waiting time.
THEOREM LspconInductiveInvariant == LspconSpec => []LspconInv
<1>1. QED
  BY LspconInitInv, LspconStepInv, PTL DEF LspconSpec

\* The mode of a connector is changed only through a driver that has probed an
\* LSPCON chip there, and to the preferred mode (setupLSPCON's guards).
THEOREM OnlyChipsAreSwitched == LspconSpec => OnlyProbedChips
<1>1. ASSUME LspconInv, [LspconNext]_lspconVars
      PROVE  [\A c \in Connectors :
                wanted'[c] # wanted[c] /\ wanted'[c] # "LS" =>
                  has[c] /\ chip[c] /\ driver[c] /\ wanted'[c] = preferred[c]]_lspconVars
  <2> SUFFICES ASSUME NEW c \in Connectors,
                      wanted'[c] # wanted[c] /\ wanted'[c] # "LS", LspconNext
               PROVE  has[c] /\ chip[c] /\ driver[c] /\ wanted'[c] = preferred[c]
    BY <1>1
  <2>1. wanted \in [Connectors -> Modes]
    BY <1>1 DEF LspconInv, LspconTypeOK
  <2>2. PICK d \in Connectors : \/ GetDPCDInfo(d) \/ Setup(d)
                                \/ Switch(d) \/ PowerCycle(d) \/ Channel(d)
    BY DEF LspconNext
  <2>3. WriteMode(d) \/ PowerCycle(d)
    BY <2>2 DEF GetDPCDInfo, Setup, Switch, Channel, Probe, IsRunningInMode, Verify,
                WakeUpNativeAUX, Original, hardware
  <2>4. WriteMode(d) /\ d = c /\ wanted'[c] = preferred[c]
    BY <2>1, <2>3 DEF WriteMode, PowerCycle
  <2>5. driver[c]
    BY <1>1, <2>4 DEF WriteMode, At, LspconInv, DriversProbed
  <2>6. QED
    BY <1>1, <2>4, <2>5 DEF LspconInv, DriversProbed
<1>2. QED
  BY <1>1, LspconInductiveInvariant, PTL DEF LspconSpec, OnlyProbedChips

\* setModeIfNecessary reports success only for a mode that has been read back, or
\* when its waiting time is used up.
THEOREM SuccessIsReadBack == LspconSpec => SuccessIsConfirmed
<1>1. ASSUME LspconInv, [LspconNext]_lspconVars
      PROVE  [\A c \in Connectors :
                lspconResult[c] = "none" /\ lspconResult'[c] = "success" =>
                  \/ mode[c] = preferred[c]
                  \/ (lspconPc[c] = "verify" /\ timeout'[c] = 0)]_lspconVars
  <2> SUFFICES ASSUME NEW c \in Connectors,
                      lspconResult[c] = "none" /\ lspconResult'[c] = "success", LspconNext
               PROVE  mode[c] = preferred[c] \/ (lspconPc[c] = "verify" /\ timeout'[c] = 0)
    BY <1>1
  <2>1. /\ lspconResult \in [Connectors -> {"none", "success", "error"}]
        /\ timeout \in [Connectors -> 0..Timeout]
    BY <1>1 DEF LspconInv, LspconTypeOK
  <2>2. PICK d \in Connectors : \/ GetDPCDInfo(d) \/ Setup(d)
                                \/ Switch(d) \/ PowerCycle(d) \/ Channel(d)
    BY DEF LspconNext
  <2>3. IsRunningInMode(d) \/ Verify(d)
    BY <2>1, <2>2 DEF GetDPCDInfo, Setup, Switch, Channel, PowerCycle, Probe, WriteMode,
                      WakeUpNativeAUX, Original, Returns
  <2>4. CASE IsRunningInMode(d)
    BY <2>1, <2>4 DEF IsRunningInMode, Returns
  <2>5. CASE Verify(d)
    BY <2>1, <2>5, TimeoutAssumption DEF Verify, Returns, At
  <2>6. QED
    BY <2>3, <2>4, <2>5
<1>2. QED
  BY <1>1, LspconInductiveInvariant, PTL DEF LspconSpec, SuccessIsConfirmed

-----------------------------------------------------------------------------
\* The core display clock

\* A clock is changed only when it is too low for the driver and the reference
\* frequency is known, and then it is one that the driver supports.
ClocksInv ==
  /\ reference \in Nat /\ firmwareClock \in Nat /\ cdclk \in Nat
  /\ clocksPc \in {"boot", "disabled", "original", "running", "panicked"}
  /\ clocksPc = "boot" => pll # 0 /\ cdclk = firmwareClock
  /\ clocksPc = "disabled" => /\ cdclk = firmwareClock /\ IsLow(firmwareClock)
                              /\ reference \in 0..2
  /\ ClockIsSupported

\* A PLL frequency is known for three reference frequencies, and each of them makes
\* a clock that the driver supports.
LEMMA NewPLLFacts ==
  ASSUME reference \in Nat
  PROVE  /\ NewPLL # NoClock <=> reference \in 0..2
         /\ reference = 0 => NewPLL = 12960
         /\ reference \in 1..2 => NewPLL = 13056
         /\ Decimal(12960) = 1294 /\ Decimal(13056) = 1304
<1>1. reference \in 0..2 <=> reference = 0 \/ reference = 1 \/ reference = 2
  OBVIOUS
<1>2. reference = 0 => NewPLL = 12960
  BY DEF NewPLL
<1>3. reference = 1 \/ reference = 2 => NewPLL = 13056
  BY DEF NewPLL
<1>4. ~(reference = 0 \/ reference = 1 \/ reference = 2) => NewPLL = NoClock
  BY DEF NewPLL
<1>5. 12960 # NoClock /\ 13056 # NoClock
  BY ClocksAssumption
<1>6. Decimal(12960) = 1294 /\ Decimal(13056) = 1304
  BY DEF Decimal
<1>7. QED
  BY <1>1, <1>2, <1>3, <1>4, <1>5, <1>6

\* The invariant holds before the driver probes its clock.
LEMMA ClocksInitInv == ClocksInit => ClocksInv
BY ClocksAssumption DEF ClocksInit, ClocksInv, ClockIsSupported

\* A clock is sanitised as a whole or left alone; dividers do not touch it.
LEMMA ClocksStepInv == ClocksInv /\ [ClocksNext]_clocksVars => ClocksInv'
<1> SUFFICES ASSUME ClocksInv, [ClocksNext]_clocksVars PROVE ClocksInv'
  OBVIOUS
<1>1. CASE UNCHANGED <<reference, firmwareClock, cdclk, pll, clocksPc>>
  BY <1>1 DEF ClocksInv, ClockIsSupported, IsLow
<1>2. CASE ProbeCDClock
  BY <1>2, NewPLLFacts
     DEF ProbeCDClock, ClocksInv, ClockIsSupported, IsLow, ICL_CDCLK_FREQ_648_0
<1>3. CASE SetCDClock
  <2>1. /\ cdclk' = Decimal(NewPLL) /\ pll' = NewPLL /\ clocksPc' = "original"
        /\ UNCHANGED <<reference, firmwareClock>>
        /\ reference \in 0..2 /\ IsLow(firmwareClock)
    BY <1>3 DEF SetCDClock, ClocksInv
  <2>2. /\ pll' \in {12960, 13056}
        /\ cdclk' = IF reference = 0 THEN 1294 ELSE 1304
    BY <2>1, NewPLLFacts
  <2>3. QED
    BY <2>1, <2>2 DEF ClocksInv, ClockIsSupported, IsLow, ICL_CDCLK_FREQ_648_0
<1>4. CASE OriginalProbe
  BY <1>4 DEF OriginalProbe, ClocksInv, ClockIsSupported, ICL_CDCLK_FREQ_648_0
<1>5. QED
  BY <1>1, <1>2, <1>3, <1>4 DEF ClocksNext, ComputeHdmiP0P1P2, clocksVars

\* Whatever clock the firmware has left, the driver finds one that it supports when
\* its reference frequency is known, with the PLL enabled; a good clock is left alone.
THEOREM DriverFindsClock == ClocksSpec => []ClockIsSupported
<1>1. ClocksInv => ClockIsSupported
  BY DEF ClocksInv
<1>2. QED
  BY <1>1, ClocksInitInv, ClocksStepInv, PTL DEF ClocksSpec

-----------------------------------------------------------------------------
\* Induction

Less == {ss \in Nat \X Nat : ss[1] < ss[2]}

\* A set of naturals that is not empty has a least element.
LEMMA LeastElement ==
  ASSUME NEW T \in SUBSET Nat, T # {}
  PROVE  \E m \in T : \A n \in T : m <= n
<1>1. Less = OpToRel(<, Nat)
  BY Zenon DEF Less, OpToRel
<1>2. IsWellFoundedOn(Less, Nat)
  BY <1>1, NatLessThanWellFounded, Zenon
<1>3. PICK m \in T : \A n \in T : ~(<<n, m>> \in Less)
  BY <1>2, WFMin, Zenon
<1>4. ASSUME NEW n \in T PROVE m <= n
  <2>1. n \in Nat /\ m \in Nat
    OBVIOUS
  <2>2. CASE n < m
    <3>1. <<n, m>> \in Less
      BY <2>1, <2>2 DEF Less
    <3>2. QED
      BY <1>3, <3>1, Zenon
  <2>3. QED
    BY <2>1, <2>2
<1>5. QED
  BY <1>4

-----------------------------------------------------------------------------
\* HDMI dividers

\* What the three dividers of populateP0P1P2 make up
Product(d) == P0P1P2(d)[1] * P0P1P2(d)[2] * P0P1P2(d)[3]

\* Even dividers of these forms are split without a remainder.
LEMMA EvenProduct ==
  ASSUME NEW h \in Nat,
         h \in {1, 2, 3, 5} \/ h % 2 = 0 \/ h % 3 = 0 \/ h % 7 = 0
  PROVE  Product(2 * h) = 2 * h
BY DEF Product, P0P1P2

\* The odd dividers are split into themselves.
LEMMA OddProduct ==
  \A p \in {3, 5, 7, 9, 15, 21, 35} : Product(p) = p
BY DEF Product, P0P1P2

\* All dividers of the table are of these forms.
LEMMA DividersFacts ==
  /\ Len(Dividers) = 43 /\ DOMAIN Dividers = 1..43
  /\ \A i \in 1..43 : Dividers[i] \in Nat \ {0} /\ Product(Dividers[i]) = Dividers[i]
<1>1. Len(Dividers) = 43 /\ DOMAIN Dividers = 1..43
  BY DEF Dividers
<1>2. ASSUME NEW i \in 1..43
      PROVE  \/ Dividers[i] \in {3, 5, 7, 9, 15, 21, 35}
             \/ \E h \in Nat : /\ Dividers[i] = 2 * h /\ h # 0
                               /\ h \in {1, 2, 3, 5} \/ h % 2 = 0 \/ h % 3 = 0 \/ h % 7 = 0
  <2> DEFINE h == Dividers[i] \div 2
  <2>1. \/ Dividers[i] \in {3, 5, 7, 9, 15, 21, 35}
        \/ /\ Dividers[i] = 2 * h /\ h # 0 /\ h \in Nat
           /\ h \in {1, 2, 3, 5} \/ h % 2 = 0 \/ h % 3 = 0 \/ h % 7 = 0
    BY DEF Dividers
  <2>2. QED
    BY <2>1
<1>3. ASSUME NEW i \in 1..43
      PROVE  Dividers[i] \in Nat \ {0} /\ Product(Dividers[i]) = Dividers[i]
  <2>1. CASE Dividers[i] \in {3, 5, 7, 9, 15, 21, 35}
    BY <2>1, OddProduct
  <2>2. CASE \E h \in Nat : /\ Dividers[i] = 2 * h /\ h # 0
                            /\ h \in {1, 2, 3, 5} \/ h % 2 = 0 \/ h % 3 = 0 \/ h % 7 = 0
    <3>1. PICK h \in Nat : /\ Dividers[i] = 2 * h /\ h # 0
                           /\ h \in {1, 2, 3, 5} \/ h % 2 = 0 \/ h % 3 = 0 \/ h % 7 = 0
      BY <2>2
    <3>2. QED
      BY <3>1, EvenProduct
  <2>3. QED
    BY <1>2, <2>1, <2>2
<1>4. QED
  BY <1>1, <1>3

\* The unit of deviations, one percent, and what the parameters keep of a central
\* frequency
Unit(central) == central \div 10000
Percent(central) == central \div 100
Stored(central) == (central \div 15625) * 32
Restored(value) == (value \div 32) * 15625

\* Central frequencies are kept without loss, and their units are not 0.
LEMMA CentralFacts ==
  /\ DOMAIN CentralFrequencies = 1..3
  /\ \A j \in 1..3 :
       LET central == CentralFrequencies[j]
       IN  /\ central \in Nat /\ Unit(central) \in Nat \ {0}
           /\ Percent(central) = 100 * Unit(central)
           /\ Restored(Stored(central)) = central
BY DEF CentralFrequencies, Unit, Percent, Stored, Restored

\* The divider and the central frequency of setting n
Row(n) == ((n - 1) \div 3) + 1
Column(n) == ((n - 1) % 3) + 1

\* The settings are the pairs of a divider and a central frequency, by dividers.
LEMMA RowFacts ==
  /\ \A n \in 1..129 : Row(n) \in 1..43 /\ Column(n) \in 1..3
  /\ \A m, n \in 1..129 : m <= n => Row(m) <= Row(n)
  /\ \A i \in 1..43, j \in 1..3 :
       \E n \in 1..129 : Row(n) = i /\ Column(n) = j
<1>1. \A n \in 1..129 : Row(n) \in 1..43 /\ Column(n) \in 1..3
  BY DEF Row, Column
<1>2. \A m, n \in 1..129 : m <= n => Row(m) <= Row(n)
  BY DEF Row
<1>3. ASSUME NEW i \in 1..43, NEW j \in 1..3
      PROVE  \E n \in 1..129 : Row(n) = i /\ Column(n) = j
  <2>1. LET n == 3 * (i - 1) + j
        IN  n \in 1..129 /\ Row(n) = i /\ Column(n) = j
    BY DEF Row, Column
  <2>2. QED
    BY <2>1
<1>4. QED
  BY <1>1, <1>2, <1>3

\* Setting n is a pair of the two tables.
SettingRight(n) ==
  /\ Settings[n].divider = Dividers[Row(n)]
  /\ Settings[n].central = CentralFrequencies[Column(n)]
  /\ Settings[n].divider \in Nat \ {0} /\ Settings[n].central \in Nat
  /\ Unit(Settings[n].central) \in Nat \ {0}

\* There are three settings for each divider ...
LEMMA SettingsLength == Len(Settings) = 129
BY DividersFacts DEF Settings

\* ... which are what the tables say.
LEMMA SettingsFacts == \A n \in 1..129 : SettingRight(n)
<1> SUFFICES ASSUME NEW n \in 1..129 PROVE SettingRight(n)
  OBVIOUS
<1>1. /\ Settings[n].divider = Dividers[Row(n)]
      /\ Settings[n].central = CentralFrequencies[Column(n)]
  BY DividersFacts DEF Settings, Row, Column
<1>2. Row(n) \in 1..43 /\ Column(n) \in 1..3
  BY RowFacts
<1>3. Dividers[Row(n)] \in Nat \ {0}
  BY <1>2, DividersFacts
<1>4. /\ CentralFrequencies[Column(n)] \in Nat
      /\ Unit(CentralFrequencies[Column(n)]) \in Nat \ {0}
  BY <1>2, CentralFacts
<1>5. QED
  BY <1>1, <1>3, <1>4, Zenon DEF SettingRight

\* How far setting n is from its central frequency, whether it is allowed, and what
\* the search remembers of it
Near(afeClock, n) == Deviation(Settings[n].divider * afeClock, Settings[n].central)
Fits(afeClock, n) == /\ Settings[n].divider <= MaxProduct \div afeClock
                     /\ InRange(Settings[n].divider * afeClock, Settings[n].central)
Remembered(afeClock, n) ==
  [minDeviation |-> Near(afeClock, n), central |-> Settings[n].central,
   frequency |-> Settings[n].divider * afeClock, divider |-> Settings[n].divider]

\* A setting that fits is nearer than the search assumes at first.
LEMMA NearFacts ==
  ASSUME NEW afeClock \in Nat, NEW n \in 1..129
  PROVE  /\ Settings[n].divider * afeClock \in Nat
         /\ Near(afeClock, n) \in Nat
         /\ Fits(afeClock, n) => Near(afeClock, n) < UInt32
<1> DEFINE F == Settings[n].divider * afeClock
           C == Settings[n].central
           step == Unit(C)
<1>1. C \in Nat /\ Settings[n].divider \in Nat \ {0} /\ step \in Nat \ {0}
  <2>1. SettingRight(n)
    BY SettingsFacts
  <2>2. QED
    BY <2>1, Zenon DEF SettingRight
<1>2. F \in Nat
  BY <1>1
<1>3. Near(afeClock, n) = Deviation(F, C) /\ (Fits(afeClock, n) => InRange(F, C))
  BY DEF Near, Fits
<1> HIDE DEF F, C, step
<1>4. Deviation(F, C) \in Nat
  <2>1. Deviation(F, C) = (IF F > C THEN F - C ELSE C - F) \div step
    BY DEF Deviation, Unit, step
  <2>2. (IF F > C THEN F - C ELSE C - F) \in Nat
    BY <1>1, <1>2
  <2>3. QED
    BY <1>1, <2>1, <2>2
<1>5. InRange(F, C) => Deviation(F, C) < 600
  BY <1>1, <1>2, <1>4 DEF InRange
<1>6. 600 < UInt32 /\ UInt32 \in Nat
  BY DEF UInt32
<1>7. QED
  BY <1>2, <1>3, <1>4, <1>5, <1>6 DEF F

\* Setting k is the first one of those that are nearest, of the first n.
Nearest(afeClock, n, k) ==
  /\ k \in 1..n /\ Fits(afeClock, k)
  /\ \A l \in 1..n : Fits(afeClock, l) =>
       \/ Near(afeClock, k) < Near(afeClock, l)
       \/ Near(afeClock, k) = Near(afeClock, l) /\ k <= l

\* What the search knows after n settings.
Known(afeClock, n, context) ==
  \/ context = Context /\ \A l \in 1..n : ~Fits(afeClock, l)
  \/ \E k \in 1..n : Nearest(afeClock, n, k) /\ context = Remembered(afeClock, k)

\* One setting more.
LEMMA BetterIsKnown ==
  ASSUME NEW afeClock \in Nat, NEW n \in 1..129, NEW context,
         Known(afeClock, n - 1, context)
  PROVE  Known(afeClock, n, Better(context, Settings[n], afeClock))
<1> DEFINE better == Better(context, Settings[n], afeClock)
           closer == Fits(afeClock, n) /\ Near(afeClock, n) < context.minDeviation
<1>1. better = IF closer THEN Remembered(afeClock, n) ELSE context
  BY DEF Better, Fits, Near, Remembered
<1>2. \A l \in 1..n : Near(afeClock, l) \in Nat
  <2>1. \A l \in 1..n : l \in 1..129
    OBVIOUS
  <2>2. QED
    BY <2>1, NearFacts
<1>3. Context.minDeviation = UInt32
  BY DEF Context
<1> HIDE DEF better, closer
<1>4. CASE context = Context /\ \A l \in 1..(n - 1) : ~Fits(afeClock, l)
  <2>1. CASE Fits(afeClock, n)
    <3>1. better = Remembered(afeClock, n)
      BY <1>1, <1>3, <1>4, <2>1, NearFacts DEF closer
    <3>2. Nearest(afeClock, n, n)
      BY <1>2, <1>4, <2>1 DEF Nearest
    <3>3. QED
      BY <3>1, <3>2 DEF Known, better
  <2>2. CASE ~Fits(afeClock, n)
    <3>1. better = context
      BY <1>1, <2>2 DEF closer
    <3>2. \A l \in 1..n : ~Fits(afeClock, l)
      BY <1>4, <2>2
    <3>3. QED
      BY <1>4, <3>1, <3>2 DEF Known, better
  <2>3. QED
    BY <2>1, <2>2
<1>5. ASSUME NEW k \in 1..(n - 1), Nearest(afeClock, n - 1, k),
             context = Remembered(afeClock, k)
      PROVE  Known(afeClock, n, better)
  <2>1. context.minDeviation = Near(afeClock, k)
    BY <1>5 DEF Remembered
  <2>2. CASE closer
    <3>1. Nearest(afeClock, n, n)
      BY <1>2, <1>5, <2>1, <2>2 DEF Nearest, closer
    <3>2. QED
      BY <1>1, <2>2, <3>1 DEF Known
  <2>3. CASE ~closer
    <3>1. Nearest(afeClock, n, k)
      BY <1>2, <1>5, <2>1, <2>3 DEF Nearest, closer
    <3>2. k \in 1..n
      OBVIOUS
    <3>3. QED
      BY <1>1, <1>5, <2>3, <3>1, <3>2 DEF Known
  <2>4. QED
    BY <2>2, <2>3
<1>6. QED
  BY <1>4, <1>5 DEF Known, better

Contexts == [minDeviation : Nat, central : Nat, frequency : Nat, divider : Nat]

\* The search stays in the set of its contexts.
LEMMA ContextTypes ==
  /\ Context \in Contexts
  /\ \A afeClock \in Nat, n \in 1..129 :
       /\ Remembered(afeClock, n) \in Contexts
       /\ \A context \in Contexts : Better(context, Settings[n], afeClock) \in Contexts
<1>1. Context \in Contexts
  BY DEF Context, Contexts, UInt32
<1>2. ASSUME NEW afeClock \in Nat, NEW n \in 1..129
      PROVE  /\ Remembered(afeClock, n) \in Contexts
             /\ \A context \in Contexts : Better(context, Settings[n], afeClock) \in Contexts
  <2>1. /\ Near(afeClock, n) \in Nat /\ Settings[n].divider * afeClock \in Nat
    BY NearFacts
  <2>2. Settings[n].divider \in Nat /\ Settings[n].central \in Nat
    BY SettingsFacts DEF SettingRight
  <2>3. Remembered(afeClock, n) \in Contexts
    BY <2>1, <2>2 DEF Remembered, Contexts
  <2>4. ASSUME NEW context \in Contexts
        PROVE  Better(context, Settings[n], afeClock) \in Contexts
    <3>1. Better(context, Settings[n], afeClock) \in {context, Remembered(afeClock, n)}
      BY DEF Better, Near, Remembered
    <3>2. QED
      BY <2>3, <3>1
  <2>5. QED
    BY <2>3, <2>4
<1>3. QED
  BY <1>1, <1>2

\* f[i] is what is known after i settings, for each i up to n.
Searched(afeClock, n, f) ==
  /\ f \in [0..n -> Contexts]
  /\ f[0] = Context
  /\ \A i \in 1..n : f[i] = Better(f[i - 1], Settings[i], afeClock)

\* The search can be run to its end.
LEMMA SearchEnds ==
  ASSUME NEW afeClock \in Nat
  PROVE  \E f \in [0..129 -> Contexts] : Searched(afeClock, 129, f)
<1> DEFINE Ends(m) == \E f \in [0..m -> Contexts] : Searched(afeClock, m, f)
           Bad == {m \in 0..129 : ~Ends(m)}
<1> SUFFICES Bad = {}
  <2> HIDE DEF Ends
  <2>1. Bad = {} => Ends(129)
    OBVIOUS
  <2>2. QED
    BY <2>1 DEF Ends
<1>1. SUFFICES ASSUME Bad # {} PROVE FALSE
  OBVIOUS
<1>2. PICK m \in Bad : \A k \in Bad : m <= k
  <2> HIDE DEF Ends
  <2>1. Bad \in SUBSET Nat
    OBVIOUS
  <2>2. QED
    BY <1>1, <2>1, LeastElement, Zenon
<1>3. m \in 0..129 /\ ~\E f \in [0..m -> Contexts] : Searched(afeClock, m, f)
  OBVIOUS
<1>4. m # 0
  <2>1. Searched(afeClock, 0, [i \in 0..0 |-> Context])
    BY ContextTypes DEF Searched
  <2>2. QED
    BY <1>3, <2>1 DEF Searched
<1>5. m - 1 \in 0..129 /\ m - 1 \notin Bad
  <2>1. m - 1 \in 0..129 /\ ~(m <= m - 1)
    BY <1>3, <1>4
  <2>2. QED
    BY <1>2, <2>1, Zenon
<1>6. PICK f \in [0..(m - 1) -> Contexts] : Searched(afeClock, m - 1, f)
  BY <1>5
<1> DEFINE last == Better(f[m - 1], Settings[m], afeClock)
           g == [i \in 0..m |-> IF i = m THEN last ELSE f[i]]
<1>7. last \in Contexts
  <2>1. f[m - 1] \in Contexts /\ m \in 1..129
    BY <1>3, <1>4
  <2>2. QED
    BY <2>1, ContextTypes
<1> HIDE DEF last
<1>8. g \in [0..m -> Contexts]
  BY <1>3, <1>7
<1>9. g[0] = Context
  BY <1>3, <1>4, <1>6 DEF Searched
<1>10. ASSUME NEW i \in 1..m PROVE g[i] = Better(g[i - 1], Settings[i], afeClock)
  <2>1. g[i - 1] = f[i - 1]
    BY <1>3
  <2>2. CASE i = m
    BY <2>1, <2>2, <1>3 DEF last
  <2>3. CASE i # m
    <3>1. i \in 1..(m - 1) /\ g[i] = f[i]
      BY <2>3, <1>3
    <3>2. QED
      BY <2>1, <3>1, <1>6 DEF Searched
  <2>4. QED
    BY <2>2, <2>3
<1>11. Searched(afeClock, m, g)
  BY <1>8, <1>9, <1>10 DEF Searched
<1>12. QED
  BY <1>3, <1>8, <1>11

\* The search finds the first one of the nearest settings that fit.
LEMMA SearchFindsNearest ==
  ASSUME NEW afeClock \in Nat
  PROVE  Known(afeClock, 129, Search(afeClock))
<1> DEFINE Loop(found) == [n \in 0..Len(Settings) |->
             IF n = 0 THEN Context ELSE Better(found[n - 1], Settings[n], afeClock)]
           g == CHOOSE found : found = Loop(found)
<1>1. PICK f \in [0..129 -> Contexts] : Searched(afeClock, 129, f)
  BY SearchEnds
<1>2. f = Loop(f)
  <2>1. ASSUME NEW n \in 0..129 PROVE f[n] = Loop(f)[n]
    <3>1. CASE n = 0
      BY <3>1, <1>1, SettingsLength DEF Searched
    <3>2. CASE n # 0
      <4>1. n \in 1..129 /\ f[n] = Better(f[n - 1], Settings[n], afeClock)
        BY <3>2, <1>1 DEF Searched
      <4>2. QED
        BY <4>1, SettingsLength
    <3>3. QED
      BY <3>1, <3>2
  <2>2. QED
    BY <2>1, SettingsLength
<1>3. g = Loop(g)
  BY <1>2, Zenon
<1>4. Search(afeClock) = g[Len(Settings)]
  BY Zenon DEF Search
<1>5. /\ g[0] = Context
      /\ \A n \in 1..129 : g[n] = Better(g[n - 1], Settings[n], afeClock)
  <2> HIDE DEF g
  <2>1. ASSUME NEW n \in 0..129 PROVE g[n] = Loop(g)[n]
    BY <1>3, Zenon
  <2>2. g[0] = Context
    BY <2>1, SettingsLength
  <2>3. ASSUME NEW n \in 1..129 PROVE g[n] = Better(g[n - 1], Settings[n], afeClock)
    <3>1. n \in 0..129 /\ n # 0
      OBVIOUS
    <3>2. QED
      BY <2>1, <3>1, SettingsLength
  <2>4. QED
    BY <2>2, <2>3
<1> HIDE DEF g, Loop
<1> DEFINE Bad == {m \in 0..129 : ~Known(afeClock, m, g[m])}
<1>6. Bad = {}
  <2>1. SUFFICES ASSUME Bad # {} PROVE FALSE
    OBVIOUS
  <2>2. PICK m \in Bad : \A k \in Bad : m <= k
    <3>1. Bad \in SUBSET Nat
      OBVIOUS
    <3>2. QED
      BY <2>1, <3>1, LeastElement, Zenon
  <2>3. m \in 0..129 /\ ~Known(afeClock, m, g[m])
    OBVIOUS
  <2>4. m # 0
    BY <1>5, <2>3 DEF Known
  <2>5. m \in 1..129 /\ m - 1 \in 0..129 /\ ~(m <= m - 1)
    BY <2>3, <2>4
  <2>6. Known(afeClock, m - 1, g[m - 1])
    BY <2>2, <2>5, Zenon
  <2>7. QED
    BY <1>5, <2>3, <2>5, <2>6, BetterIsKnown, Zenon
<1>7. Known(afeClock, 129, g[129])
  BY <1>6
<1>8. QED
  BY <1>4, <1>7, SettingsLength

\* A quotient and its remainder.
LEMMA Quotient ==
  ASSUME NEW F \in Nat, NEW T \in Nat \ {0}
  PROVE  F \div T \in Nat /\ (F \div T) * T <= F /\ F < (F \div T) * T + T
OBVIOUS

\* A difference that wraps is right when it fits a word, although what is subtracted
\* has wrapped before.
LEMMA WrappedDifference ==
  ASSUME NEW U \in Nat \ {0}, NEW F \in Nat, NEW q \in Nat, q <= F, F < q + U
  PROVE  (F - (q % U)) % U = F - q
OBVIOUS

\* A distance counts less than k steps when it is less than k times one step.
LEMMA StepsOf ==
  ASSUME NEW x \in Nat, NEW unit \in Nat \ {0}, NEW k \in Nat
  PROVE  x \div unit < k <=> x < k * unit
OBVIOUS

\* The parameters make up the frequency of the setting.
LEMMA ParametersOfSetting ==
  ASSUME NEW afeClock \in Nat, NEW n \in 1..129
  PROVE  LET p == Parameters(Remembered(afeClock, n))
         IN  /\ p.pdiv * p.qdiv * p.kdiv = Settings[n].divider
             /\ Restored(p.cf15625) = Settings[n].central
             /\ p.fraction < TwentyFourMHz
             /\ p.multiplier * TwentyFourMHz + p.fraction = Settings[n].divider * afeClock
<1> DEFINE F == Settings[n].divider * afeClock
           T == TwentyFourMHz
           U == UInt32
           D == Settings[n].divider
           C == Settings[n].central
           p == Parameters(Remembered(afeClock, n))
           q == (F \div T) * T
<1>1. T \in Nat \ {0} /\ U \in Nat \ {0} /\ T < U
  BY DEF TwentyFourMHz, UInt32
<1>2. F \in Nat /\ SettingRight(n)
  BY NearFacts, SettingsFacts
<1>3. Row(n) \in 1..43 /\ Column(n) \in 1..3
  BY RowFacts
<1>4. Product(D) = D
  BY <1>2, <1>3, DividersFacts, Zenon DEF SettingRight
<1>5. Restored(Stored(C)) = C
  BY <1>2, <1>3, CentralFacts, Zenon DEF SettingRight
<1>6. /\ p.pdiv * p.qdiv * p.kdiv = Product(D)
      /\ p.multiplier = F \div T
      /\ p.fraction = (F - (q % U)) % U
  BY DEF Parameters, Remembered, Product
<1>7. p.cf15625 = Stored(C)
  BY DEF Parameters, Remembered, Stored
<1> HIDE DEF F, T, U, D, C, p
<1>8. q \in Nat /\ q <= F /\ F < q + T
  BY <1>1, <1>2, Quotient
<1> HIDE DEF q
<1>9. (F - (q % U)) % U = F - q
  <2>1. F < q + U
    BY <1>1, <1>2, <1>8
  <2>2. QED
    BY <1>1, <1>2, <1>8, <2>1, WrappedDifference
<1>10. p.fraction < T
  BY <1>1, <1>2, <1>6, <1>8, <1>9
<1>11. p.multiplier * T + p.fraction = F
  <2>1. p.multiplier * T = q
    BY <1>6 DEF q
  <2>2. QED
    BY <1>2, <1>6, <1>8, <1>9, <2>1
<1>12. QED
  BY <1>4, <1>5, <1>6, <1>7, <1>10, <1>11, Zenon DEF F, T, D, C, p

\* What the hardware allows is what fits, with the same distance.
LEMMA AllowedFits ==
  ASSUME NEW clock \in Nat \ {0}, NEW n \in 1..129
  PROVE  LET s == <<Row(n), Column(n)>>
         IN  /\ s \in Allowed(clock) <=> Fits(5 * clock, n)
             /\ Distance(clock, s) = Near(5 * clock, n)
             /\ DCO(clock, Dividers[s[1]]) = Settings[n].divider * (5 * clock)
<1> DEFINE s == <<Row(n), Column(n)>>
           D == Settings[n].divider
           C == Settings[n].central
           F == D * (5 * clock)
           unit == Unit(C)
           below == D <= MaxProduct \div (5 * clock)
           near == IF F > C THEN F - C ELSE C - F
<1>1. /\ D = Dividers[Row(n)] /\ C = CentralFrequencies[Column(n)]
      /\ D \in Nat \ {0} /\ C \in Nat /\ unit \in Nat \ {0}
  BY SettingsFacts, Zenon DEF SettingRight
<1>2. s \in (DOMAIN Dividers) \X (DOMAIN CentralFrequencies)
  BY RowFacts, DividersFacts, CentralFacts
<1>3. Percent(C) = 100 * unit
  BY <1>1, RowFacts, CentralFacts
<1>4. F \in Nat /\ DCO(clock, D) = F
  BY <1>1 DEF DCO
<1>5. Dividers[s[1]] = D /\ CentralFrequencies[s[2]] = C
  BY <1>1
<1>6. s \in Allowed(clock) <=>
        /\ below
        /\ F - C < Percent(C) /\ -(F - C) < 6 * Percent(C)
  BY <1>2, <1>4, <1>5 DEF Allowed, Percent
<1>7. Fits(5 * clock, n) <=> below /\ InRange(F, C)
  BY DEF Fits
<1>8. Near(5 * clock, n) = Deviation(F, C)
  BY DEF Near
<1>9. Deviation(F, C) = near \div unit
  BY DEF Deviation, Unit
<1>10. Distance(clock, s) = (IF F - C < 0 THEN -(F - C) ELSE F - C) \div unit
  BY <1>4, <1>5 DEF Distance, Unit
<1> HIDE DEF s, D, C, F, unit, below
<1>11. Distance(clock, s) = near \div unit
  <2>1. (IF F - C < 0 THEN -(F - C) ELSE F - C) = near
    BY <1>1, <1>4
  <2>2. QED
    BY <1>10, <2>1
<1>12. InRange(F, C) <=> F - C < Percent(C) /\ -(F - C) < 6 * Percent(C)
  <2>1. near \in Nat
    BY <1>1, <1>4
  <2>2. CASE F >= C
    <3>1. near = F - C
      BY <1>1, <1>4, <2>2
    <3>2. InRange(F, C) <=> near \div unit < 100
      BY <1>9, <2>2 DEF InRange
    <3>3. near \div unit < 100 <=> near < 100 * unit
      BY <1>1, <2>1, StepsOf
    <3>4. QED
      BY <1>1, <1>3, <1>4, <2>2, <3>1, <3>2, <3>3
  <2>3. CASE ~(F >= C)
    <3>1. near = C - F
      BY <1>1, <1>4, <2>3
    <3>2. InRange(F, C) <=> near \div unit < 600
      BY <1>9, <2>3 DEF InRange
    <3>3. near \div unit < 600 <=> near < 600 * unit
      BY <1>1, <2>1, StepsOf
    <3>4. QED
      BY <1>1, <1>3, <1>4, <2>3, <3>1, <3>2, <3>3
  <2>4. QED
    BY <2>2, <2>3
<1>13. s \in Allowed(clock) <=> Fits(5 * clock, n)
  BY <1>6, <1>7, <1>12
<1>14. QED
  BY <1>4, <1>5, <1>8, <1>9, <1>11, <1>13, Zenon DEF s, D, F

\* The setting that is found is one of the best.
LEMMA DividersFound ==
  ASSUME NEW clock \in Nat \ {0}, Allowed(clock) # {}
  PROVE  \E n \in 1..129 : /\ Search(5 * clock) = Remembered(5 * clock, n)
                           /\ Nearest(5 * clock, 129, n)
<1>1. 5 * clock \in Nat
  OBVIOUS
<1>2. PICK s \in Allowed(clock) : TRUE
  OBVIOUS
<1>3. s \in (DOMAIN Dividers) \X (DOMAIN CentralFrequencies)
  BY Zenon DEF Allowed
<1>4. PICK n \in 1..129 : Row(n) = s[1] /\ Column(n) = s[2]
  <2>1. s[1] \in 1..43 /\ s[2] \in 1..3
    BY <1>3, DividersFacts, CentralFacts
  <2>2. QED
    BY <2>1, RowFacts
<1>5. s = <<Row(n), Column(n)>>
  BY <1>3, <1>4
<1>6. Fits(5 * clock, n)
  BY <1>5, AllowedFits
<1>7. QED
  BY <1>1, <1>6, SearchFindsNearest, Zenon DEF Known

\* One call of the wrapper: what is stored is right for the clock asked for.
LEMMA CallFindsBest ==
  ASSUME ComputeHdmiP0P1P2 PROVE DividersAreBest'
<1>1. PICK clock \in PixelClocks :
        /\ pixelClock' = clock
        /\ parameters' = IF Search(5 * clock).divider = 0 THEN parameters
                         ELSE Parameters(Search(5 * clock))
  BY DEF ComputeHdmiP0P1P2
<1>2. clock \in Nat \ {0} /\ 5 * clock \in Nat
  BY ClocksAssumption
<1> SUFFICES ASSUME Allowed(clock) # {}
             PROVE  \E s \in Allowed(clock) :
                      LET divider == parameters'.pdiv * parameters'.qdiv * parameters'.kdiv
                      IN  /\ Dividers[s[1]] = divider
                          /\ CentralFrequencies[s[2]] = (parameters'.cf15625 \div 32) * 15625
                          /\ parameters'.fraction < TwentyFourMHz
                          /\ parameters'.multiplier * TwentyFourMHz + parameters'.fraction
                               = DCO(clock, divider)
                          /\ \A t \in Allowed(clock) :
                               \/ Distance(clock, s) < Distance(clock, t)
                               \/ /\ Distance(clock, s) = Distance(clock, t)
                                  /\ s[1] <= t[1]
  BY <1>1 DEF DividersAreBest
<1>3. PICK n \in 1..129 : /\ Search(5 * clock) = Remembered(5 * clock, n)
                          /\ Nearest(5 * clock, 129, n)
  BY <1>2, DividersFound
<1> DEFINE s == <<Row(n), Column(n)>>
           D == Settings[n].divider
           q == Parameters(Remembered(5 * clock, n))
<1>4. SettingRight(n)
  BY SettingsFacts
<1>5. parameters' = q
  <2>1. Remembered(5 * clock, n).divider = D
    BY DEF Remembered
  <2>2. D # 0
    BY <1>4 DEF SettingRight
  <2>3. QED
    BY <1>1, <1>3, <2>1, <2>2, Zenon
<1>6. /\ q.pdiv * q.qdiv * q.kdiv = D
      /\ Restored(q.cf15625) = Settings[n].central
      /\ q.fraction < TwentyFourMHz
      /\ q.multiplier * TwentyFourMHz + q.fraction = D * (5 * clock)
  BY <1>2, ParametersOfSetting, Zenon
<1>7. s \in Allowed(clock) /\ DCO(clock, D) = D * (5 * clock)
  <2>1. Fits(5 * clock, n)
    BY <1>3 DEF Nearest
  <2>2. Dividers[s[1]] = D
    BY <1>4 DEF SettingRight
  <2>3. QED
    BY <1>2, <2>1, <2>2, AllowedFits
<1>8. Dividers[s[1]] = D /\ CentralFrequencies[s[2]] = Settings[n].central
  BY <1>4 DEF SettingRight
<1>9. ASSUME NEW t \in Allowed(clock)
      PROVE  \/ Distance(clock, s) < Distance(clock, t)
             \/ Distance(clock, s) = Distance(clock, t) /\ s[1] <= t[1]
  <2>1. t \in (DOMAIN Dividers) \X (DOMAIN CentralFrequencies)
    BY Zenon DEF Allowed
  <2>2. t[1] \in 1..43 /\ t[2] \in 1..3
    BY <2>1, DividersFacts, CentralFacts
  <2>3. PICK l \in 1..129 : Row(l) = t[1] /\ Column(l) = t[2]
    BY <2>2, RowFacts
  <2>4. t = <<Row(l), Column(l)>>
    BY <2>1, <2>3
  <2>5. Fits(5 * clock, l) /\ Distance(clock, t) = Near(5 * clock, l)
    BY <1>2, <2>4, AllowedFits
  <2>6. Distance(clock, s) = Near(5 * clock, n)
    BY <1>2, AllowedFits
  <2>7. \/ Near(5 * clock, n) < Near(5 * clock, l)
        \/ Near(5 * clock, n) = Near(5 * clock, l) /\ n <= l
    BY <1>3, <2>5 DEF Nearest
  <2>8. n <= l => s[1] <= t[1]
    <3>1. n <= l => Row(n) <= Row(l)
      BY RowFacts
    <3>2. s[1] = Row(n)
      OBVIOUS
    <3>3. QED
      BY <2>3, <3>1, <3>2
  <2>9. QED
    BY <2>5, <2>6, <2>7, <2>8
<1> HIDE DEF s, D, q
<1>10. Restored(q.cf15625) = (q.cf15625 \div 32) * 15625
  BY DEF Restored
<1>11. DCO(clock, D) = D * (5 * clock) /\ s \in Allowed(clock)
  BY <1>7
<1>12. QED
  BY <1>5, <1>6, <1>8, <1>9, <1>10, <1>11

\* Whatever pixel clock the driver asks for, the parameters are those of the best
\* setting, if the hardware has one.
THEOREM DividersOfClocks == ClocksSpec => []DividersAreBest
<1>1. ClocksInit => DividersAreBest
  BY DEF ClocksInit, DividersAreBest
<1>2. DividersAreBest /\ [ClocksNext]_clocksVars => DividersAreBest'
  <2> SUFFICES ASSUME DividersAreBest, [ClocksNext]_clocksVars PROVE DividersAreBest'
    OBVIOUS
  <2>1. CASE ComputeHdmiP0P1P2
    BY <2>1, CallFindsBest
  <2>2. CASE UNCHANGED <<pixelClock, parameters>>
    BY <2>2 DEF DividersAreBest
  <2>3. QED
    BY <2>1, <2>2 DEF ClocksNext, ProbeCDClock, SetCDClock, OriginalProbe, clocksVars
<1>3. QED
  BY <1>1, <1>2, PTL DEF ClocksSpec

-----------------------------------------------------------------------------
\* Link rates

\* A set of naturals with an upper bound has a largest element.
LEMMA LargestElement ==
  ASSUME NEW N \in Nat, NEW S \in SUBSET (0..N), S # {}
  PROVE  Max(S) \in S /\ \A x \in S : x <= Max(S)
<1> DEFINE T == {N - x : x \in S}
<1>0. \A x \in S : x \in Nat /\ N - x \in Nat
  OBVIOUS
<1>1. T \in SUBSET Nat /\ T # {}
  BY <1>0
<1>2. PICK m \in T : \A n \in T : m <= n
  BY <1>1, LeastElement, Zenon
<1>3. PICK y \in S : m = N - y
  OBVIOUS
<1>4. ASSUME NEW x \in S PROVE y >= x
  <2>1. m <= N - x
    BY <1>2
  <2>2. QED
    BY <1>3, <2>1
<1>5. \E z \in S : \A x \in S : z >= x
  BY <1>4
<1>6. Max(S) \in S /\ \A x \in S : Max(S) >= x
  BY <1>5, Zenon DEF Max
<1>7. QED
  BY <1>6

\* An entry counts 200 kHz, a link rate 270 MHz.
LEMMA LinkRateFacts == \A e \in Nat : LinkRate(e) \in Nat /\ LinkRate(e) = e \div 1350
BY SMT DEF LinkRate

\* The largest entry makes the largest rate.
LEMMA LinkRateGrows ==
  ASSUME NEW d \in Nat, NEW e \in Nat, d <= e
  PROVE  LinkRate(d) <= LinkRate(e)
BY SMT DEF LinkRate

\* An entry of 0 makes no rate.
LEMMA LinkRateOfZero == LinkRate(0) = 0
BY SMT DEF LinkRate

\* Entries of a sequence lie in the set that it is over.
LEMMA EntryOfTable ==
  ASSUME NEW T, NEW s \in Seq(T), NEW i \in 1..Len(s)
  PROVE  s[i] \in T
OBVIOUS

\* A table's entries and their rates are naturals.
LEMMA TableFacts ==
  ASSUME NEW rates \in Seq(0..LargestEntry)
  PROVE  /\ Len(rates) \in Nat /\ DOMAIN rates = 1..Len(rates)
         /\ \A i \in 1..Len(rates) : rates[i] \in Nat /\ LinkRate(rates[i]) \in Nat
<1>1. Len(rates) \in Nat /\ DOMAIN rates = 1..Len(rates)
  OBVIOUS
<1>2. \A i \in 1..Len(rates) : rates[i] \in 0..LargestEntry
  BY EntryOfTable, Zenon
<1>3. \A e \in 0..LargestEntry : e \in Nat
  <2>1. LargestEntry \in Nat
    BY DEF LargestEntry
  <2>2. QED
    BY <2>1
<1>4. QED
  BY <1>1, <1>2, <1>3, LinkRateFacts

\* An entry of the table counts when no entry up to it is 0.
ListedEntry(rates, i) == \A j \in 1..i : rates[j] # 0

\* One round of the loop, which has found x so far.
Round(rates, i, x) ==
  IF (\E j \in 1..i : rates[j] = 0) \/ x >= LinkRate(rates[i]) THEN x ELSE LinkRate(rates[i])

\* The rate found after i entries, for each i up to n.
Found(rates, n, f) ==
  /\ f \in [0..n -> Nat]
  /\ f[0] = 0
  /\ \A i \in 1..n : f[i] = Round(rates, i, f[i - 1])

\* The loop can be run to its end.
LEMMA LoopEnds ==
  ASSUME NEW rates \in Seq(0..LargestEntry), NEW n \in 0..Len(rates)
  PROVE  \E f \in [0..n -> Nat] : Found(rates, n, f)
<1> DEFINE Bad == {m \in 0..Len(rates) : ~\E f \in [0..m -> Nat] : Found(rates, m, f)}
<1> SUFFICES Bad = {}
  OBVIOUS
<1>1. SUFFICES ASSUME Bad # {} PROVE FALSE
  OBVIOUS
<1>2. PICK m \in Bad : \A k \in Bad : m <= k
  <2>1. Bad \in SUBSET Nat
    OBVIOUS
  <2>2. QED
    BY <1>1, <2>1, LeastElement, Zenon
<1>3. m \in 0..Len(rates) /\ ~\E f \in [0..m -> Nat] : Found(rates, m, f)
  OBVIOUS
<1>4. m # 0
  <2>1. Found(rates, 0, [i \in 0..0 |-> 0])
    BY DEF Found
  <2>2. QED
    BY <1>3, <2>1
<1>5. m - 1 \in 0..Len(rates) /\ m - 1 \notin Bad
  <2>1. m - 1 \in 0..Len(rates) /\ ~(m <= m - 1)
    BY <1>3, <1>4, TableFacts
  <2>2. QED
    BY <1>2, <2>1, Zenon
<1>6. PICK f \in [0..(m - 1) -> Nat] : Found(rates, m - 1, f)
  BY <1>5
<1>7. LinkRate(rates[m]) \in Nat
  BY <1>3, <1>4, TableFacts
<1> DEFINE g == [i \in 0..m |-> IF i = m THEN Round(rates, m, f[m - 1]) ELSE f[i]]
<1>8. Round(rates, m, f[m - 1]) \in Nat
  <2>1. f[m - 1] \in Nat
    BY <1>3, <1>4
  <2>2. QED
    BY <1>7, <2>1 DEF Round
<1>9. g \in [0..m -> Nat]
  BY <1>3, <1>8
<1>10. g[0] = 0
  BY <1>3, <1>4, <1>6 DEF Found
<1>11. ASSUME NEW i \in 1..m PROVE g[i] = Round(rates, i, g[i - 1])
  <2>1. g[i - 1] = f[i - 1]
    BY <1>3
  <2>2. CASE i = m
    BY <2>1, <2>2, <1>3
  <2>3. CASE i # m
    <3>1. i \in 1..(m - 1) /\ g[i] = f[i]
      BY <2>3, <1>3
    <3>2. QED
      BY <2>1, <3>1, <1>6 DEF Found
  <2>4. QED
    BY <2>2, <2>3
<1>12. Found(rates, m, g)
  BY <1>9, <1>10, <1>11 DEF Found
<1>13. QED
  BY <1>3, <1>9, <1>12

\* After i entries the loop has found a rate of the table, and none that counts is
\* larger.
LEMMA LoopFindsLargest ==
  ASSUME NEW rates \in Seq(0..LargestEntry), NEW f, Found(rates, Len(rates), f),
         NEW n \in 0..Len(rates)
  PROVE  /\ f[n] = 0 \/ \E i \in 1..n : ListedEntry(rates, i) /\ f[n] = LinkRate(rates[i])
         /\ \A i \in 1..n : ListedEntry(rates, i) => LinkRate(rates[i]) <= f[n]
<1> DEFINE Good(m) ==
      /\ f[m] = 0 \/ \E i \in 1..m : ListedEntry(rates, i) /\ f[m] = LinkRate(rates[i])
      /\ \A i \in 1..m : ListedEntry(rates, i) => LinkRate(rates[i]) <= f[m]
<1> DEFINE Bad == {m \in 0..Len(rates) : ~Good(m)}
<1> SUFFICES Bad = {}
  OBVIOUS
<1>1. SUFFICES ASSUME Bad # {} PROVE FALSE
  OBVIOUS
<1>2. PICK m \in Bad : \A k \in Bad : m <= k
  <2>1. Bad \in SUBSET Nat
    OBVIOUS
  <2>2. QED
    BY <1>1, <2>1, LeastElement, Zenon
<1>3. m \in 0..Len(rates) /\ ~Good(m)
  OBVIOUS
<1>4. m # 0
  BY <1>3 DEF Found
<1>5. m - 1 \in 0..Len(rates) /\ m \in 1..Len(rates) /\ Good(m - 1)
  BY <1>2, <1>3, <1>4
<1>6. f[m] = Round(rates, m, f[m - 1]) /\ f[m - 1] \in Nat
  BY <1>5 DEF Found
<1>7. \A i \in 1..Len(rates) : LinkRate(rates[i]) \in Nat
  BY TableFacts
<1>8. f[m] >= f[m - 1] /\ (ListedEntry(rates, m) => f[m] >= LinkRate(rates[m]))
  BY <1>5, <1>6, <1>7 DEF Round, ListedEntry
<1>9. ASSUME NEW i \in 1..m, ListedEntry(rates, i) PROVE LinkRate(rates[i]) <= f[m]
  <2>1. CASE i = m
    BY <2>1, <1>8, <1>9
  <2>2. CASE i # m
    <3>1. LinkRate(rates[i]) <= f[m - 1] /\ LinkRate(rates[i]) \in Nat
      BY <2>2, <1>5, <1>7, <1>9
    <3>2. f[m] \in Nat
      BY <1>5 DEF Found
    <3>3. QED
      BY <3>1, <3>2, <1>6, <1>8
  <2>3. QED
    BY <2>1, <2>2
<1>10. f[m] = 0 \/ \E i \in 1..m : ListedEntry(rates, i) /\ f[m] = LinkRate(rates[i])
  <2>1. CASE f[m] = f[m - 1]
    BY <2>1, <1>5
  <2>2. CASE f[m] # f[m - 1]
    <3>1. ListedEntry(rates, m) /\ f[m] = LinkRate(rates[m])
      BY <2>2, <1>6 DEF Round, ListedEntry
    <3>2. QED
      BY <3>1, <1>5
  <2>3. QED
    BY <2>1, <2>2
<1>11. QED
  BY <1>3, <1>9, <1>10

\* The loop of probeMaxLinkRate computes the largest rate before the first 0, in
\* units of 0.27 Gbps.
LEMMA LargestRateIsMax ==
  ASSUME NEW rates \in Seq(0..LargestEntry)
  PROVE  LargestRate(rates) =
           Max({rates[i] : i \in {k \in DOMAIN rates : ListedEntry(rates, k)}} \cup {0})
             \div 1350
<1> DEFINE n == Len(rates)
           S == {rates[i] : i \in {k \in DOMAIN rates : ListedEntry(rates, k)}} \cup {0}
           Loop(last) == [i \in 0..n |->
             IF i = 0 THEN 0
             ELSE IF (\E j \in 1..i : rates[j] = 0) \/ LinkRate(rates[i]) <= last[i - 1]
                  THEN last[i - 1] ELSE LinkRate(rates[i])]
<1>1. n \in Nat /\ DOMAIN rates = 1..n
  BY TableFacts
<1>2. \A i \in 1..n : rates[i] \in Nat /\ LinkRate(rates[i]) \in Nat
  BY TableFacts
<1>3. PICK f \in [0..n -> Nat] : Found(rates, n, f)
  BY <1>1, LoopEnds
<1>4. f = Loop(f)
  <2>1. ASSUME NEW i \in 0..n PROVE f[i] = Loop(f)[i]
    <3>1. CASE i = 0
      BY <3>1, <1>3 DEF Found
    <3>2. CASE i # 0
      <4>1. i \in 1..n /\ f[i] = Round(rates, i, f[i - 1]) /\ f[i - 1] \in Nat
        BY <3>2, <1>1, <1>3 DEF Found
      <4>2. QED
        BY <4>1, <1>2 DEF Round
    <3>3. QED
      BY <3>1, <3>2
  <2>2. QED
    BY <2>1, <1>3
<1> DEFINE g == CHOOSE last : last = Loop(last)
<1>5. g = Loop(g)
  BY <1>4, Zenon
<1>6. LargestRate(rates) = g[n]
  BY Zenon DEF LargestRate
<1>7. Found(rates, n, g)
  <2> HIDE DEF g
  <2> DEFINE Bad == {i \in 0..n : g[i] \notin Nat}
  <2>1. g[0] = 0
    BY <1>1, <1>5
  <2>2. ASSUME NEW i \in 1..n
        PROVE  g[i] = IF (\E j \in 1..i : rates[j] = 0) \/ LinkRate(rates[i]) <= g[i - 1]
                      THEN g[i - 1] ELSE LinkRate(rates[i])
    <3>1. i \in 0..n /\ i # 0
      BY <1>1
    <3>2. g[i] = Loop(g)[i]
      BY <1>5, Zenon
    <3>3. QED
      BY <3>1, <3>2
  <2>3. Bad = {}
    <3>1. SUFFICES ASSUME Bad # {} PROVE FALSE
      OBVIOUS
    <3>2. PICK m \in Bad : \A k \in Bad : m <= k
      <4>1. Bad \in SUBSET Nat
        BY <1>1
      <4>2. QED
        BY <3>1, <4>1, LeastElement, Zenon
    <3>3. m \in 1..n /\ g[m] \notin Nat
      BY <2>1, <1>1
    <3>4. g[m - 1] \in Nat
      BY <3>2, <3>3, <1>1
    <3>5. LinkRate(rates[m]) \in Nat
      BY <3>3, <1>2
    <3>6. QED
      BY <2>2, <3>3, <3>4, <3>5
  <2>4. g \in [0..n -> Nat]
    BY <2>3, <1>5
  <2>5. ASSUME NEW i \in 1..n PROVE g[i] = Round(rates, i, g[i - 1])
    <3>0. i - 1 \in 0..n
      BY <1>1
    <3>1. g[i - 1] \in Nat /\ LinkRate(rates[i]) \in Nat
      BY <2>4, <3>0, <1>2
    <3>2. QED
      BY <2>2, <3>1 DEF Round
  <2>6. QED
    BY <2>1, <2>4, <2>5 DEF Found
<1> HIDE DEF g, Loop
<1>8. S \in SUBSET (0..LargestEntry) /\ S # {}
  BY <1>1
<1>9. Max(S) \in S /\ \A x \in S : x <= Max(S)
  <2> HIDE DEF S
  <2>1. LargestEntry \in Nat
    BY DEF LargestEntry
  <2>2. QED
    BY <1>8, <2>1, LargestElement
<1>10. Max(S) \in Nat
  BY <1>8, <1>9
<1>11. /\ g[n] = 0 \/ \E i \in 1..n : ListedEntry(rates, i) /\ g[n] = LinkRate(rates[i])
       /\ \A i \in 1..n : ListedEntry(rates, i) => LinkRate(rates[i]) <= g[n]
       /\ g[n] \in Nat
  <2> HIDE DEF S
  <2>1. n \in 0..Len(rates)
    BY <1>1
  <2>2. g[n] \in Nat
    BY <1>7, <2>1 DEF Found
  <2>3. QED
    BY <1>7, <2>1, <2>2, LoopFindsLargest
<1>12. g[n] <= LinkRate(Max(S))
  <2>1. CASE g[n] = 0
    BY <2>1, <1>10, LinkRateFacts
  <2>2. CASE \E i \in 1..n : ListedEntry(rates, i) /\ g[n] = LinkRate(rates[i])
    <3>1. PICK i \in 1..n : ListedEntry(rates, i) /\ g[n] = LinkRate(rates[i])
      BY <2>2
    <3>2. rates[i] <= Max(S) /\ rates[i] \in Nat
      BY <3>1, <1>1, <1>2, <1>9
    <3>3. LinkRate(rates[i]) <= LinkRate(Max(S))
      <4> HIDE DEF S
      <4>1. QED
        BY <3>2, <1>10, LinkRateGrows
    <3>4. QED
      BY <3>1, <3>3
  <2>3. QED
    BY <2>1, <2>2, <1>11
<1>13. LinkRate(Max(S)) <= g[n]
  <2>1. CASE Max(S) = 0
    BY <2>1, <1>11, LinkRateOfZero
  <2>2. CASE Max(S) # 0
    <3>1. PICK i \in 1..n : ListedEntry(rates, i) /\ Max(S) = rates[i]
      BY <2>2, <1>1, <1>9
    <3>2. QED
      BY <3>1, <1>11
  <2>3. QED
    BY <2>1, <2>2
<1>14. g[n] = LinkRate(Max(S)) /\ LinkRate(Max(S)) = Max(S) \div 1350
  <2> HIDE DEF S
  <2>1. LinkRate(Max(S)) \in Nat /\ LinkRate(Max(S)) = Max(S) \div 1350
    BY <1>10, LinkRateFacts
  <2>2. g[n] \in Nat
    BY <1>11
  <2>3. QED
    BY <1>12, <1>13, <2>1, <2>2
<1>15. QED
  BY <1>6, <1>14

\* Reads do not overlap, so that the members of the submodule hold the arguments of
\* the call under way.
OneRead ==
  /\ \A t, u \in Threads : ratePc[t] # "idle" /\ ratePc[u] # "idle" => t = u
  /\ \A t \in Threads : ratePc[t] # "idle" => display = args[t].display

\* How far the call under way has got: its buffer is not written before the original
\* function has run, only capabilities are looked at, and only those of the panel
\* lead to a probe, while no rate is known.
ReadUnderWay ==
  \A t \in Threads :
    /\ ratePc[t] = "read" => rate[t] = None
    /\ ratePc[t] \in {"index", "version", "rates"} =>
         args[t].address = "caps" /\ rate[t] \in {None, Reported[display]}
    /\ ratePc[t] \in {"version", "rates"} => display = 0 /\ maxLinkRate = 0
    /\ ratePc[t] = "rates" => panel.version >= 3

\* A rate of the user's that the driver can use is never given up.
UserRateKept == user \in Supported => maxLinkRate = user

RateInv == RateTypeOK /\ OneRead /\ ReadUnderWay /\ UserRateKept /\ RateIsOwn

\* What verifyLinkRateValue passes on are the rates that the driver can use.
LEMMA VerifiedRates ==
  ASSUME NEW r
  PROVE  verifyLinkRateValue(r) = IF r \in Supported THEN r ELSE 0
BY DEF verifyLinkRateValue, Supported

\* A probe of the panel's table finds the rate that the table asks for.
LEMMA ProbeFindsPanelRate ==
  ASSUME panel \in Panels, panel.version >= 3
  PROVE  verifyLinkRateValue(LargestRate(panel.rates)) = PanelRate
<1>1. panel.rates \in Seq(0..LargestEntry)
  BY PanelsAssumption
<1>2. {i \in DOMAIN panel.rates : \A j \in 1..i : panel.rates[j] # 0}
        = {k \in DOMAIN panel.rates : ListedEntry(panel.rates, k)}
  BY DEF ListedEntry
<1> DEFINE largest == Max({panel.rates[i] :
                             i \in {k \in DOMAIN panel.rates : ListedEntry(panel.rates, k)}}
                          \cup {0}) \div 1350
<1>3. LargestRate(panel.rates) = largest
  BY <1>1, LargestRateIsMax
<1>4. PanelRate = IF largest \in Supported THEN largest ELSE 0
  BY <1>2 DEF PanelRate
<1>5. QED
  <2> HIDE DEF largest
  <2>1. QED
    BY <1>3, <1>4, VerifiedRates

\* Rates of users and tables are naturals.
LEMMA BuiltinRateIsNatural == BuiltinRate \in Nat
BY DEF BuiltinRate, PanelRate, Supported

\* A user's rate is known from the beginning, another one is not.
LEMMA RateInitInv == RateInit => RateInv
<1> SUFFICES ASSUME RateInit PROVE RateInv
  OBVIOUS
<1>1. maxLinkRate \in Nat /\ maxLinkRate \in {0, BuiltinRate} /\ UserRateKept
  <2>1. CASE user = None
    <3>1. user \notin Supported /\ maxLinkRate = 0
      BY <2>1, UsersAssumption DEF RateInit, Supported
    <3>2. QED
      BY <3>1 DEF UserRateKept
  <2>2. CASE user # None
    <3>1. maxLinkRate = IF user \in Supported THEN user ELSE 0
      BY <2>2, VerifiedRates DEF RateInit
    <3>2. QED
      BY <3>1, BuiltinRateIsNatural DEF BuiltinRate, UserRateKept
  <2>3. QED
    BY <2>1, <2>2
<1>2. RateTypeOK
  BY <1>1, DisplaysAssumption DEF RateInit, RateTypeOK, Addresses
<1>3. OneRead /\ ReadUnderWay
  BY DEF RateInit, OneRead, ReadUnderWay
<1>4. RateIsOwn
  BY <1>1 DEF RateInit, RateIsOwn
<1>5. QED
  BY <1>1, <1>2, <1>3, <1>4 DEF RateInv

\* A probe has returned: what it found is the panel's rate, or nothing, and no user's
\* rate is lost because there is none.
LEMMA ProbedInv ==
  ASSUME RateInv, NEW t \in Threads, ratePc[t] \in {"version", "rates"},
         NEW r \in {0, BuiltinRate}, Probed(t, r), UNCHANGED <<user, panel, display, args>>
  PROVE  RateInv'
<1>1. /\ ratePc \in [Threads -> {"idle", "read", "index", "version", "rates", "done"}]
      /\ args \in [Threads -> [display : Displays, address : Addresses]]
      /\ rate \in [Threads -> Nat \cup {None}]
      /\ user \in Users /\ panel \in Panels /\ display \in Displays \cup {None}
  BY DEF RateInv, RateTypeOK
<1>2. r \in Nat
  BY BuiltinRateIsNatural
<1>3. /\ rate' = [rate EXCEPT ![t] = r] /\ maxLinkRate' = r
      /\ ratePc' = [ratePc EXCEPT ![t] = "done"]
  BY DEF Probed, Proceed
<1>4. BuiltinRate' = BuiltinRate
  BY DEF BuiltinRate, PanelRate
<1>5. RateTypeOK'
  BY <1>1, <1>2, <1>3 DEF RateTypeOK
<1>6. ratePc[t] # "idle"
  OBVIOUS
<1>7. \A u \in Threads : u # t => ratePc[u] = "idle"
  BY <1>6 DEF RateInv, OneRead
<1>8. \A u \in Threads : ratePc'[u] # "idle" => u = t /\ ratePc'[u] = "done"
  BY <1>1, <1>3, <1>7
<1>9. args[t] = [display |-> 0, address |-> "caps"]
  <2>1. args[t].display = 0 /\ args[t].address = "caps"
    BY <1>6 DEF RateInv, OneRead, ReadUnderWay
  <2>2. args[t] \in [display : Displays, address : Addresses]
    BY <1>1
  <2>3. QED
    BY <2>1, <2>2
<1>10. OneRead' /\ ReadUnderWay'
  <2>1. display' = args'[t].display
    BY <1>6 DEF RateInv, OneRead
  <2>2. QED
    BY <1>8, <2>1 DEF OneRead, ReadUnderWay
<1>11. UserRateKept'
  <2>1. maxLinkRate = 0
    BY DEF RateInv, ReadUnderWay
  <2>2. user \notin Supported
    BY <2>1 DEF RateInv, UserRateKept, Supported
  <2>3. QED
    BY <2>2 DEF UserRateKept
<1>12. RateIsOwn'
  <2>1. rate'[t] = r
    BY <1>1, <1>3
  <2>2. QED
    BY <1>3, <1>4, <1>8, <1>9, <2>1 DEF RateIsOwn
<1>13. QED
  BY <1>5, <1>10, <1>11, <1>12 DEF RateInv

\* Each step of a call, when calls do not overlap.
LEMMA RateThreadInv ==
  ASSUME Serial, RateInv, NEW t \in Threads,
         \/ ReadAUX(t) \/ OriginalRead(t) \/ FramebufferIndex(t)
         \/ ReadVersion(t) \/ ReadRates(t) \/ ReadAUXReturns(t)
  PROVE  RateInv'
<1>1. /\ ratePc \in [Threads -> {"idle", "read", "index", "version", "rates", "done"}]
      /\ args \in [Threads -> [display : Displays, address : Addresses]]
      /\ rate \in [Threads -> Nat \cup {None}]
      /\ user \in Users /\ panel \in Panels /\ display \in Displays \cup {None}
      /\ maxLinkRate \in Nat
  BY DEF RateInv, RateTypeOK
<1>2. user' = user /\ panel' = panel
  BY DEF ReadAUX, OriginalRead, FramebufferIndex, ReadVersion, ReadRates, ReadAUXReturns
<1>3. BuiltinRate' = BuiltinRate
  BY <1>2 DEF BuiltinRate, PanelRate
<1>4. ASSUME ratePc[t] # "idle" PROVE \A u \in Threads : u # t => ratePc[u] = "idle"
  BY <1>4 DEF RateInv, OneRead
<1>5. ASSUME UNCHANGED maxLinkRate PROVE UserRateKept' /\ maxLinkRate' \in {0, BuiltinRate'}
  BY <1>2, <1>3, <1>5 DEF RateInv, UserRateKept, RateIsOwn
<1>6. CASE ReadAUX(t)
  <2>1. PICK d \in Displays, a \in Addresses :
          /\ args' = [args EXCEPT ![t] = [display |-> d, address |-> a]]
          /\ display' = d
    BY <1>6 DEF ReadAUX
  <2>2. /\ ratePc' = [ratePc EXCEPT ![t] = "read"] /\ rate' = [rate EXCEPT ![t] = None]
        /\ maxLinkRate' = maxLinkRate /\ \A u \in Threads : ratePc[u] = "idle"
    BY <1>6 DEF ReadAUX, Proceed
  <2>3. \A u \in Threads : ratePc'[u] # "idle" => u = t /\ ratePc'[u] = "read"
    BY <1>1, <2>2
  <2>4. rate'[t] = None /\ args'[t].display = display'
    BY <1>1, <2>1, <2>2
  <2>5. RateTypeOK'
    BY <1>1, <1>2, <2>1, <2>2 DEF RateTypeOK
  <2>6. OneRead' /\ ReadUnderWay'
    BY <2>3, <2>4 DEF OneRead, ReadUnderWay
  <2>7. RateIsOwn'
    BY <1>5, <2>2, <2>3 DEF RateIsOwn
  <2>8. QED
    BY <1>5, <2>2, <2>5, <2>6, <2>7 DEF RateInv
<1>7. CASE OriginalRead(t)
  <2>1. /\ ratePc[t] = "read"
        /\ rate' = rate \/ rate' = [rate EXCEPT ![t] = Reported[display]]
        /\ ratePc' = [ratePc EXCEPT ![t] = IF args[t].address = "caps" THEN "index" ELSE "done"]
        /\ UNCHANGED <<maxLinkRate, display, args>>
    BY <1>7 DEF OriginalRead, Proceed
  <2>2. display = args[t].display /\ rate[t] = None
    BY <2>1 DEF RateInv, OneRead, ReadUnderWay
  <2>3. Reported[display] \in Nat
    BY <1>1, <2>2, DisplaysAssumption
  <2>4. /\ \A u \in Threads : ratePc'[u] # "idle" => u = t
        /\ ratePc'[t] \in {"index", "done"}
        /\ ratePc'[t] = "index" => args[t].address = "caps"
        /\ rate'[t] \in {None, Reported[display]}
    BY <1>1, <1>4, <2>1, <2>2
  <2>5. RateTypeOK'
    BY <1>1, <1>2, <2>1, <2>3 DEF RateTypeOK
  <2>6. OneRead' /\ ReadUnderWay'
    BY <2>1, <2>2, <2>4 DEF OneRead, ReadUnderWay
  <2>7. RateIsOwn'
    BY <1>5, <2>1, <2>2, <2>4 DEF RateIsOwn
  <2>8. QED
    BY <1>5, <2>1, <2>5, <2>6, <2>7 DEF RateInv
<1>8. CASE FramebufferIndex(t)
  <2>1. /\ ratePc[t] = "index" /\ UNCHANGED <<maxLinkRate, display, args>>
        /\ \/ ratePc' = [ratePc EXCEPT ![t] = "done"] /\ rate' = rate
           \/ /\ display = 0 /\ maxLinkRate # 0
              /\ rate' = [rate EXCEPT ![t] = maxLinkRate]
              /\ ratePc' = [ratePc EXCEPT ![t] = "done"]
           \/ /\ display = 0 /\ maxLinkRate = 0 /\ rate' = rate
              /\ ratePc' = [ratePc EXCEPT ![t] = "version"]
    BY <1>8 DEF FramebufferIndex, IsBuiltin, Proceed
  <2>2. /\ display = args[t].display /\ args[t].address = "caps"
        /\ rate[t] \in {None, Reported[display]}
    BY <2>1 DEF RateInv, OneRead, ReadUnderWay
  <2>3. display = 0 => args[t] = [display |-> 0, address |-> "caps"]
    <3>1. args[t] \in [display : Displays, address : Addresses]
      BY <1>1
    <3>2. QED
      BY <2>2, <3>1
  <2>4. \A u \in Threads : ratePc'[u] # "idle" => u = t
    BY <1>1, <1>4, <2>1
  <2>5. RateTypeOK'
    BY <1>1, <1>2, <2>1 DEF RateTypeOK
  <2>6. OneRead' /\ ReadUnderWay'
    BY <1>1, <2>1, <2>2, <2>4 DEF OneRead, ReadUnderWay
  <2>7. ratePc'[t] = "done" =>
          \/ rate'[t] \in {None, Reported[args'[t].display]}
          \/ /\ args'[t] = [display |-> 0, address |-> "caps"]
             /\ rate'[t] \in {0, BuiltinRate'} /\ (rate'[t] = 0 => maxLinkRate' = 0)
    <3>1. CASE rate' = rate
      BY <3>1, <2>1, <2>2
    <3>2. CASE /\ display = 0 /\ maxLinkRate # 0
               /\ rate' = [rate EXCEPT ![t] = maxLinkRate]
      <4>1. rate'[t] = maxLinkRate
        BY <1>1, <3>2
      <4>2. QED
        BY <1>5, <2>1, <2>3, <3>2, <4>1
    <3>3. QED
      BY <2>1, <3>1, <3>2
  <2>8. RateIsOwn'
    BY <1>5, <2>1, <2>4, <2>7 DEF RateIsOwn
  <2>9. QED
    BY <1>5, <2>1, <2>5, <2>6, <2>8 DEF RateInv
<1>9. CASE ReadVersion(t)
  <2>1. ratePc[t] = "version" /\ UNCHANGED <<user, panel, display, args>>
    BY <1>9 DEF ReadVersion
  <2>2. CASE Probed(t, 0)
    BY <2>1, <2>2, ProbedInv
  <2>3. CASE panel.version >= 3 /\ Proceed(t, "rates") /\ UNCHANGED <<rate, maxLinkRate>>
    <3>1. \A u \in Threads : ratePc'[u] # "idle" => u = t /\ ratePc'[u] = "rates"
      BY <1>1, <1>4, <2>1, <2>3 DEF Proceed
    <3>2. /\ display = args[t].display /\ args[t].address = "caps"
          /\ rate[t] \in {None, Reported[display]} /\ display = 0 /\ maxLinkRate = 0
      BY <2>1 DEF RateInv, OneRead, ReadUnderWay
    <3>3. RateTypeOK'
      BY <1>1, <2>1, <2>3 DEF RateTypeOK, Proceed
    <3>4. OneRead' /\ ReadUnderWay'
      BY <2>1, <2>3, <3>1, <3>2 DEF OneRead, ReadUnderWay
    <3>5. RateIsOwn'
      BY <1>5, <2>3, <3>1 DEF RateIsOwn
    <3>6. QED
      BY <1>5, <2>3, <3>3, <3>4, <3>5 DEF RateInv
  <2>4. QED
    BY <1>9, <2>2, <2>3 DEF ReadVersion
<1>10. CASE ReadRates(t)
  <2>1. ratePc[t] = "rates" /\ UNCHANGED <<user, panel, display, args>>
    BY <1>10 DEF ReadRates
  <2>2. panel.version >= 3 /\ maxLinkRate = 0
    BY <2>1 DEF RateInv, ReadUnderWay
  <2>3. verifyLinkRateValue(LargestRate(panel.rates)) = BuiltinRate
    <3>1. user \notin Supported
      BY <2>2 DEF RateInv, UserRateKept, Supported
    <3>2. QED
      BY <1>1, <2>2, <3>1, ProbeFindsPanelRate DEF BuiltinRate
  <2>4. Probed(t, 0) \/ Probed(t, BuiltinRate)
    BY <1>10, <2>3 DEF ReadRates
  <2>5. QED
    BY <2>1, <2>4, ProbedInv
<1>11. CASE ReadAUXReturns(t)
  <2>1. /\ ratePc[t] = "done" /\ ratePc' = [ratePc EXCEPT ![t] = "idle"]
        /\ UNCHANGED <<maxLinkRate, display, args, rate>>
    BY <1>11 DEF ReadAUXReturns, Proceed
  <2>2. \A u \in Threads : ratePc'[u] = "idle"
    BY <1>1, <1>4, <2>1
  <2>3. RateTypeOK'
    BY <1>1, <1>2, <2>1 DEF RateTypeOK
  <2>4. OneRead' /\ ReadUnderWay' /\ RateIsOwn'
    BY <1>5, <2>1, <2>2 DEF OneRead, ReadUnderWay, RateIsOwn
  <2>5. QED
    BY <1>5, <2>1, <2>3, <2>4 DEF RateInv
<1>12. QED
  BY <1>6, <1>7, <1>8, <1>9, <1>10, <1>11

\* No step of a call leaves the invariant when calls do not overlap.
LEMMA RateStepInv == Serial /\ RateInv /\ [RateNext]_rateVars => RateInv'
<1>1. ASSUME RateInv, UNCHANGED rateVars PROVE RateInv'
  <2>1. BuiltinRate' = BuiltinRate
    BY <1>1 DEF rateVars, BuiltinRate, PanelRate
  <2>2. QED
    BY <1>1, <2>1 DEF rateVars, RateInv, RateTypeOK, OneRead, ReadUnderWay, UserRateKept,
                      RateIsOwn
<1>2. QED
  BY <1>1, RateThreadInv, Zenon DEF RateNext

\* Reads that do not overlap never see a rate of another display, and the panel gets the
\* rate that its user or its table asks for, for any displays, tables and threads.
THEOREM RatesAreOwn ==
  ASSUME Serial
  PROVE  RateSpec => []RateIsOwn
<1>1. RateInv => RateIsOwn
  BY DEF RateInv
<1>2. RateInv /\ [RateNext]_rateVars => RateInv'
  BY RateStepInv
<1>3. QED
  BY <1>1, <1>2, RateInitInv, PTL DEF RateSpec
=============================================================================
