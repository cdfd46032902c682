----------------------------- MODULE I2COverAUX -----------------------------
(***************************************************************************)
(* Access to the registers of a DisplayPort adapter at a given offset,     *)
(* built by advSeek-, advRead- and advWriteI2COverAUX from Apple's         *)
(* ReadI2COverAUX and WriteI2COverAUX.  One access is a sequence of AUX    *)
(* transactions: an empty write that starts it, a write of the offset,     *)
(* the data in chunks of at most 16 bytes, and an empty one that ends it.  *)
(* Each of them may fail; a failed one may still have reached the adapter. *)
(*                                                                         *)
(* The adapter is modelled from how this code uses it: it keeps a position *)
(* that each byte advances, and is inside a transaction until it sees one  *)
(* without the middle-of-transaction bit.                                  *)
(***************************************************************************)
EXTENDS Integers

CONSTANTS Size,         \* registers of the adapter (256)
          Chunk,        \* bytes one AUX transaction carries (16)
          Bytes,        \* values of a register
          MaxLength,    \* longest access that is asked for
          Garbage       \* content of a buffer byte that was not read yet

ASSUME SizeAssumption == Size \in Nat \ {0}
ASSUME ChunkAssumption == Chunk \in Nat \ {0}
ASSUME MaxLengthAssumption == MaxLength \in Nat /\ MaxLength <= Size
ASSUME BytesAssumption == Bytes # {} /\ Garbage \notin Bytes

Offsets == 0..(Size - 1)

VARIABLES regs,         \* the adapter's registers
          position,     \* the adapter's position
          open,         \* is the adapter inside a transaction?
          pc,           \* where the access is
          op,           \* "read" or "write"
          offset,       \* offset of the access
          total,        \* its length as given by the caller
          left,         \* length: bytes still to transfer
          buffer,       \* the caller's buffer
          before,       \* the registers when the access began
          result        \* what the access returned

request == <<op, offset, total, before>>
vars == <<regs, position, open, pc, op, offset, total, left, buffer, before,
          result>>

Buffers == [0..(MaxLength - 1) -> Bytes \cup {Garbage}]

Init == /\ regs \in [Offsets -> Bytes]
        /\ position \in 0..Size
        /\ open = FALSE
        /\ pc = "idle"
        /\ op = "read" /\ offset = 0 /\ total = 0 /\ left = 0
        /\ buffer = [k \in 0..(MaxLength - 1) |-> Garbage]
        /\ before = regs
        /\ result = "none"

Goto(l) == pc' = l
Return(r) == pc' = "idle" /\ result' = r

\* advRead- or advWriteI2COverAUX is called with a buffer of n bytes.
Call(o, f, n) ==
  /\ pc = "idle"
  /\ f + n <= Size
  /\ op' = o /\ offset' = f /\ total' = n /\ left' = n
  /\ buffer' \in IF o = "read"
                 THEN {[k \in 0..(MaxLength - 1) |-> Garbage]}
                 ELSE {b \in Buffers : \A k \in 0..(MaxLength - 1) :
                                         b[k] \in Bytes <=> k < n}
  /\ before' = regs
  /\ result' = "none"
  /\ Goto("guard")
  /\ UNCHANGED <<regs, position, open>>

\* The guards: an empty length or buffer is refused without a transaction.
Guard ==
  /\ pc = "guard"
  /\ \/ Return("invalid")           \* buffer == nullptr
     \/ total = 0 /\ Return("invalid")
     \/ total > 0 /\ Goto("start") /\ UNCHANGED result
  /\ UNCHANGED <<regs, position, open, request, left, buffer>>

\* advSeek: the empty write that starts the transaction ...
Start ==
  /\ pc = "start"
  /\ \/ open' = TRUE /\ Goto("seek") /\ UNCHANGED result
     \/ open' \in {open, TRUE} /\ Return("error")
  /\ UNCHANGED <<regs, position, request, left, buffer>>

\* ... and the write of the offset.  When it fails, the access returns without
\* ending the transaction.
Seek ==
  /\ pc = "seek"
  /\ \/ position' = offset /\ Goto("data") /\ UNCHANGED result
     \/ position' \in {position, offset} /\ Return("error")
  /\ UNCHANGED <<regs, open, request, left, buffer>>

ChunkLength == IF left >= Chunk THEN Chunk ELSE left

\* Is byte k of the buffer carried by the next chunk?
Carried(k) == k \in (total - left)..(total - left + ChunkLength - 1)

\* Mutated form of ReadInto: the buffer's position is not advanced.
ReadIntoStart ==
  [k \in 0..(MaxLength - 1) |->
     IF k < ChunkLength THEN regs[position + k] ELSE buffer[k]]

\* The adapter gives and takes bytes from its position on.
ReadInto ==
  [k \in 0..(MaxLength - 1) |->
     IF Carried(k) THEN regs[position + (k - (total - left))] ELSE buffer[k]]

WrittenFrom ==
  [r \in Offsets |->
     IF Carried(r - position + (total - left))
     THEN buffer[r - position + (total - left)]
     ELSE regs[r]]

\* One chunk.  After a failed one the access ends the transaction and fails; a
\* failed write may have changed the registers of the chunk.
Transfer ==
  /\ pc = "data" /\ left > 0
  /\ \/ /\ IF op = "read"
           THEN buffer' = ReadInto /\ UNCHANGED regs
           ELSE regs' = WrittenFrom /\ UNCHANGED buffer
        /\ position' = position + ChunkLength
        /\ left' = left - ChunkLength
        /\ UNCHANGED pc
     \/ /\ regs' \in IF op = "read" THEN {regs} ELSE {regs, WrittenFrom}
        /\ position' \in {position, position + ChunkLength}
        /\ Goto("abort")
        /\ UNCHANGED <<left, buffer>>
  /\ UNCHANGED <<open, request, result>>

\* The empty transaction that ends the access after a failed chunk: its own
\* result is ignored.
Abort ==
  /\ pc = "abort"
  /\ open' \in {FALSE, TRUE}
  /\ Return("error")
  /\ UNCHANGED <<regs, position, request, left, buffer>>

\* The empty transaction that ends a complete access.
Terminate ==
  /\ pc = "data" /\ left = 0
  /\ \/ open' = FALSE /\ Return("success")
     \/ open' \in {FALSE, TRUE} /\ Return("error")
  /\ UNCHANGED <<regs, position, request, left, buffer>>

Access == Guard \/ Start \/ Seek \/ Transfer \/ Abort \/ Terminate

Next == \/ \E o \in {"read", "write"}, f \in Offsets, n \in 0..MaxLength :
             Call(o, f, n)
        \/ Access

Spec == Init /\ [][Next]_vars

-----------------------------------------------------------------------------
\* Properties

\* Positions, lengths and the buffer stay inside the adapter and the access.
TypeOK ==
  /\ regs \in [Offsets -> Bytes] /\ before \in [Offsets -> Bytes]
  /\ position \in 0..Size
  /\ open \in BOOLEAN
  /\ pc \in {"idle", "guard", "start", "seek", "data", "abort"}
  /\ op \in {"read", "write"}
  /\ offset \in Offsets /\ total \in 0..MaxLength /\ left \in 0..total
  /\ offset + total <= Size
  /\ buffer \in Buffers
  /\ result \in {"none", "success", "error", "invalid"}

\* A read that reports success has filled the whole buffer with the registers
\* at the offset, across all of its chunks (advReadI2COverAUX).
ReadIsExact ==
  result = "success" /\ op = "read" =>
    \A k \in 0..(total - 1) : buffer[k] = regs[offset + k]

\* A write changes no register outside of the ones it was asked to write, and
\* a failed one leaves each of them old or as requested (advWriteI2COverAUX).
WriteStaysInside ==
  \A r \in Offsets :
    \/ regs[r] = before[r]
    \/ /\ op = "write" /\ r - offset \in 0..(total - 1)
       /\ regs[r] = buffer[r - offset]

\* A write that reports success has written the whole buffer.
WriteIsExact ==
  result = "success" /\ op = "write" =>
    \A k \in 0..(total - 1) : regs[offset + k] = buffer[k]

\* Accesses do what advReadI2COverAUX and advWriteI2COverAUX promise, whichever
\* of their transactions fail: what is read is the whole range, what is written
\* is the whole range when success is reported, and nothing else is touched.
AccessIsExact == ReadIsExact /\ WriteStaysInside /\ WriteIsExact
=============================================================================
