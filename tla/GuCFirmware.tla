----------------------------- MODULE GuCFirmware -----------------------------
(***************************************************************************)
(* Loading of a generic GuC firmware instead of Apple's.  IGFX wraps the   *)
(* driver's loadGuCBinary and the allocation of shared buffers inside of   *)
(* it: the driver copies Apple's binary into a dummy buffer, while the     *)
(* generic one is written into the buffer that the GPU sees, next to its   *)
(* signature and size.  When the driver asks for the GPU's address of the  *)
(* buffer, the pointer is put back.  The firmware is loaded again after    *)
(* each sleep.  The driver's functions (original ...) are external.        *)
(***************************************************************************)
EXTENDS Integers, FiniteSets

CONSTANTS Buffers,        \* IGSharedMappedBuffers, each with its own memory
          Dummies,        \* blocks that Buffer::create may return
          Null,
          FirmwareSize,   \* [image -> size], images "apple" and "generic"
          Requests,       \* sizes the driver may ask for (room for Apple's binary)
          Alignment,      \* 0x10000
          MaxSleeps,      \* bound on sleep cycles
          Serial          \* do other clients keep off while firmware is loaded?

Blocks == Buffers \cup Dummies

NullAssumption == Null \notin Blocks \cup BOOLEAN /\ Buffers \cap Dummies = {}
SizesAssumption ==
  /\ FirmwareSize \in [{"apple", "generic"} -> Nat]
  /\ Alignment \in Nat \ {0}
  /\ \A r \in Requests : r \in Nat /\ FirmwareSize["apple"] <= r
BoundAssumption == MaxSleeps \in Nat /\ Serial \in BOOLEAN

NoFirmware == [image |-> "none", signature |-> "none", size |-> "none",
               room |-> 0, replaced |-> FALSE]

VARIABLES pc,          \* what boot, or the thread that loads, does next
          mojave,      \* is the kernel version at most Mojave?
          mode,        \* fwLoadMode
          scheduler,   \* GraphicsSchedulerSelect, 1 if untouched
          hooks,       \* "none", "load" (loadGuCBinary alone) or "all"
          performing,  \* performingFirmwareLoad
          saved,       \* perfLoad of a wrapInitSchedControl under way, or Null
          dummy,       \* dummyFirmwareBuffer
          real,        \* realFirmwareBuffer
          heap,        \* blocks from Buffer::create that have not been freed
          live,        \* allocated buffers
          data,        \* data[b]: block that member 7 of buffer b points to
          room,        \* room[b]: size of b's own memory
          content,     \* content[m]: image in block m
          mine,        \* buffers that belong to the IGHardwareGuC object
          firmware,    \* buffer for the firmware in the load under way
          signature,   \* image whose signature follows the binary
          size,        \* image whose size *firmwareSizePointer holds
          replaced,    \* was the firmware replaced in the latest load?
          spoiled,     \* was it not, although it had been in an earlier one?
          unwritable,  \* loads in which kernel memory could not be made writable
          gpu,         \* what the GPU runs
          sleeps
boot == <<mojave, mode, scheduler, hooks>>
memory == <<heap, live, data, room, content, mine>>
pointers == <<dummy, real>>
images == <<signature, size>>
history == <<replaced, spoiled, unwritable>>
vars == <<pc, boot, performing, saved, pointers, memory, firmware, images,
          history, gpu, sleeps>>

TypeOK ==
  /\ pc \in {"kernel", "kext", "start", "started",
             "awake", "asleep", "allocate", "copy", "address",
             "upload", "return"}
  /\ mojave \in BOOLEAN
  /\ mode \in {"unknown", "disable", "generic", "apple"}
  /\ scheduler \in {1, 2, 4, 5}
  /\ hooks \in {"none", "load", "all"}
  /\ performing \in BOOLEAN /\ saved \in BOOLEAN \cup {Null}
  /\ dummy \in Dummies \cup {Null} /\ real \in Blocks \cup {Null}
  /\ heap \subseteq Dummies /\ live \subseteq Buffers /\ mine \subseteq live
  /\ data \in [Buffers -> Blocks] /\ room \in [Buffers -> Nat]
  /\ content \in [Blocks -> {"none", "apple", "generic"}]
  /\ firmware \in Buffers \cup {Null}
  /\ signature \in {"apple", "generic"} /\ size \in {"apple", "generic"}
  /\ replaced \in BOOLEAN /\ spoiled \in BOOLEAN /\ unwritable \in Nat
  /\ sleeps \in 0..MaxSleeps

Init == /\ pc = "kernel"
        /\ mojave \in BOOLEAN
        /\ mode = "unknown" /\ scheduler = 1 /\ hooks = "none"
        /\ performing = FALSE /\ saved = Null
        /\ dummy = Null /\ real = Null
        /\ heap = {} /\ live = {} /\ mine = {}
        /\ data = [b \in Buffers |-> b]
        /\ room = [b \in Buffers |-> 0]
        /\ content = [m \in Blocks |-> "none"]
        /\ firmware = Null
        /\ signature = "apple" /\ size = "apple"
        /\ replaced = FALSE /\ spoiled = FALSE /\ unwritable = 0
        /\ gpu = NoFirmware
        /\ sleeps = 0

-----------------------------------------------------------------------------
\* Start-up

\* fwLoadMode from igfxfw, or automatic, on a system that supports GuC at all.
ProcessKernel ==
  /\ pc = "kernel"
  /\ mode' \in {"disable", "generic", "apple"}
  /\ pc' = "kext"
  /\ UNCHANGED <<mojave, scheduler, hooks, performing, saved, pointers, memory,
                 firmware, images, history, gpu, sleeps>>

\* The hooks are put in only if the binary, the function and a plausible size
\* are found; the wrapper of loadGuCBinary comes first, the other four follow.
loadIGScheduler4Patches ==
  /\ pc = "kext"
  /\ hooks' \in IF mode = "generic" /\ mojave THEN {"none", "load", "all"}
                ELSE {"none"}
  /\ pc' = "start"
  /\ UNCHANGED <<mojave, mode, scheduler, performing, saved, pointers, memory,
                 firmware, images, history, gpu, sleeps>>

\* The dictionary of the accelerator may be missing.
applyDevelopmentPatches ==
  /\ pc = "start"
  /\ scheduler' \in {1, CASE mode = "apple" -> 1
                          [] mode = "generic" -> 4
                          [] mode = "disable" -> IF mojave THEN 2 ELSE 5}
  /\ pc' = "started"
  /\ UNCHANGED <<mojave, mode, hooks, performing, saved, pointers, memory,
                 firmware, images, history, gpu, sleeps>>

-----------------------------------------------------------------------------
\* Buffers

RoundUp(n) == ((n + Alignment - 1) \div Alignment) * Alignment

\* Mutated form of NewSize: the size that the driver asked for.
NewSizeAsAsked(s) == s

\* The new firmware may need more room than the driver asks for.
NewSize(s) == IF FirmwareSize["generic"] > s THEN RoundUp(FirmwareSize["generic"])
              ELSE s

\* The original withOptions returns buffer b with room for s.
Allocate(b, s) ==
  /\ b \in Buffers \ live
  /\ live' = live \cup {b}
  /\ room' = [room EXCEPT ![b] = s]

Fresh(b) == /\ data' = [data EXCEPT ![b] = b]
            /\ content' = [content EXCEPT ![b] = "none"]

\* An allocation or a look-up is taken for that of the firmware.
Filtering == performing /\ hooks = "all"

\* wrapIgBufferWithOptions, for a request of s bytes, returning b (Null when the
\* original failed); the dummy d is Null when there is no memory, and writable
\* says whether kernel memory could be made writable.
wrapIgBufferWithOptions(s, b, d, writable) ==
  LET replaces == b # Null /\ d # Null /\ writable IN
  IF Filtering
  THEN /\ d \in (Dummies \ heap) \cup {Null}
       /\ b # Null => Allocate(b, NewSize(s))
       /\ b = Null => UNCHANGED <<live, room, data, content>>
       /\ IF replaces
          THEN /\ real' = b
               /\ data' = [data EXCEPT ![b] = d]
               /\ content' = [content EXCEPT ![b] = "generic", ![d] = "none"]
               /\ signature' = "generic" /\ size' = "generic"
               /\ UNCHANGED unwritable
          ELSE /\ b # Null => Fresh(b)
               /\ unwritable' = IF b # Null /\ d # Null THEN unwritable + 1
                                ELSE unwritable
               /\ UNCHANGED <<real, images>>
       /\ heap' = IF b # Null THEN heap \cup ({d} \ {Null}) ELSE heap
       /\ dummy' = IF b # Null THEN d ELSE Null
       /\ replaced' = replaces
       /\ spoiled' = (~replaces /\ signature = "generic")
  ELSE /\ d = Null /\ ~writable
       /\ IF b # Null THEN Allocate(b, s) /\ Fresh(b)
          ELSE UNCHANGED <<live, room, data, content>>
       /\ UNCHANGED <<pointers, heap, images, history>>

\* The pointer is put back, of whatever buffer is asked for, and the dummy freed.
wrapIgBufferGetGpuVirtualAddress(b) ==
  IF Filtering /\ real # Null
  THEN /\ data' = [data EXCEPT ![b] = real]
       /\ heap' = heap \ {dummy}
       /\ real' = Null /\ dummy' = Null
  ELSE UNCHANGED <<data, pointers, heap>>

-----------------------------------------------------------------------------
\* The driver's load of the firmware, with the wrappers where it calls them

\* wrapLoadGuCBinary, up to the call of the original
wrapLoadGuCBinary == /\ performing' = (hooks # "none")
                     /\ pc' = "allocate"

\* wrapLoadFirmware at start: it is called if a scheduler with GuC is selected,
\* and puts the two power handlers below into the scheduler's virtual table.
wrapLoadFirmware ==
  /\ pc = "started"
  /\ scheduler \in {1, 4}
  /\ wrapLoadGuCBinary
  /\ UNCHANGED <<boot, saved, pointers, memory, firmware, images, history, gpu,
                 sleeps>>

\* The original asks for a buffer, and gives up when it gets none.  Its block of
\* memory b is the one that the GPU will read.
AllocateFirmware ==
  /\ pc = "allocate" /\ saved = Null
  /\ \E s \in Requests, b \in Buffers \cup {Null}, d \in Dummies \cup {Null},
        writable \in BOOLEAN :
       /\ wrapIgBufferWithOptions(s, b, d, writable)
       /\ firmware' = b
       /\ mine' = IF b = Null THEN mine ELSE mine \cup {b}
       /\ pc' = IF b = Null THEN "return" ELSE "copy"
  /\ UNCHANGED <<boot, performing, saved, gpu, sleeps>>

\* The original copies Apple's binary to where the buffer points.
CopyBinary ==
  /\ pc = "copy" /\ saved = Null
  /\ content' = [content EXCEPT ![data[firmware]] = "apple"]
  /\ pc' = "address"
  /\ UNCHANGED <<boot, performing, saved, pointers, heap, live, data, room, mine,
                 firmware, images, history, gpu, sleeps>>

\* It asks for the address that the GPU knows.
GetAddress ==
  /\ pc = "address" /\ saved = Null
  /\ wrapIgBufferGetGpuVirtualAddress(firmware)
  /\ pc' = "upload"
  /\ UNCHANGED <<boot, performing, saved, live, room, content, mine, firmware,
                 images, history, gpu, sleeps>>

\* It starts the transfer.
Upload ==
  /\ pc = "upload" /\ saved = Null
  /\ gpu' = [image |-> content[firmware], signature |-> signature,
             size |-> size, room |-> room[firmware], replaced |-> replaced]
  /\ pc' = "return"
  /\ UNCHANGED <<boot, performing, saved, pointers, memory, firmware, images,
                 history, sleeps>>

\* Mutated form of InitSchedControl: the flag is left alone.
InitSchedControlFiltering ==
  /\ pc \in {"allocate", "copy", "address", "upload"} /\ saved = Null
  /\ saved' = performing
  /\ UNCHANGED <<pc, boot, performing, pointers, memory, firmware, images,
                 history, gpu, sleeps>>

\* wrapInitSchedControl: somewhere in the load.
InitSchedControl ==
  /\ pc \in {"allocate", "copy", "address", "upload"} /\ saved = Null
  /\ saved' = performing
  /\ performing' = FALSE
  /\ UNCHANGED <<pc, boot, pointers, memory, firmware, images, history, gpu,
                 sleeps>>

\* The original initSchedControl takes a shared buffer and asks for its address.
SchedAllocate ==
  /\ saved # Null
  /\ \E b \in Buffers \ live, s \in Requests, d \in Dummies \cup {Null},
        writable \in BOOLEAN :
       /\ wrapIgBufferWithOptions(s, b, d, writable)
       /\ mine' = mine \cup {b}
  /\ UNCHANGED <<pc, boot, performing, saved, firmware, gpu, sleeps>>

SchedAddress ==
  /\ saved # Null
  /\ \E b \in mine \ {firmware} : wrapIgBufferGetGpuVirtualAddress(b)
  /\ UNCHANGED <<pc, boot, performing, saved, live, room, content, mine, firmware,
                 images, history, gpu, sleeps>>

InitSchedControlDone ==
  /\ saved # Null
  /\ performing' = saved
  /\ saved' = Null
  /\ UNCHANGED <<pc, boot, pointers, memory, firmware, images, history, gpu,
                 sleeps>>

\* loadGuCBinary returns, and the wrapper clears the flag.
LoadDone ==
  /\ pc = "return"
  /\ performing' = FALSE
  /\ pc' = "awake"
  /\ UNCHANGED <<boot, saved, pointers, memory, firmware, images, history, gpu,
                 sleeps>>

-----------------------------------------------------------------------------
\* Power, and other clients of the accelerator

\* wrapSystemWillSleep does nothing; the GPU forgets its firmware.
Sleep ==
  /\ pc = "awake" /\ hooks = "all" /\ sleeps < MaxSleeps
  /\ pc' = "asleep"
  /\ gpu' = NoFirmware
  /\ sleeps' = sleeps + 1
  /\ UNCHANGED <<boot, performing, saved, pointers, memory, firmware, images,
                 history>>

\* Member 76 is released, with its buffers, when it is an IGHardwareGuC.  The
\* original loadFirmware is called in any case.
wrapSystemDidWake ==
  /\ pc = "asleep"
  /\ \/ /\ live' = live \ mine
        /\ mine' = {}
     \/ UNCHANGED <<live, mine>>
  /\ firmware' = Null
  /\ wrapLoadGuCBinary
  /\ UNCHANGED <<boot, saved, pointers, heap, data, room, content, images,
                 history, gpu, sleeps>>

Quiet == pc \in {"started", "awake", "asleep"}

\* Other tasks take, look up and release shared buffers; there is one at a time.
ClientAllocate ==
  /\ Serial => Quiet
  /\ hooks = "all" /\ live = mine
  /\ \E b \in Buffers \ live, s \in Requests, d \in Dummies \cup {Null},
        writable \in BOOLEAN : wrapIgBufferWithOptions(s, b, d, writable)
  /\ UNCHANGED <<pc, boot, performing, saved, mine, firmware, gpu, sleeps>>

ClientAddress ==
  /\ Serial => Quiet
  /\ \E b \in live \ mine : wrapIgBufferGetGpuVirtualAddress(b)
  /\ UNCHANGED <<pc, boot, performing, saved, live, room, content, mine, firmware,
                 images, history, gpu, sleeps>>

ClientRelease ==
  /\ Serial => Quiet
  /\ \E b \in live \ mine : live' = live \ {b}
  /\ UNCHANGED <<pc, boot, performing, saved, pointers, heap, data, room, content,
                 mine, firmware, images, history, gpu, sleeps>>

Next == \/ ProcessKernel \/ loadIGScheduler4Patches \/ applyDevelopmentPatches
        \/ wrapLoadFirmware \/ AllocateFirmware \/ CopyBinary \/ GetAddress
        \/ Upload \/ LoadDone
        \/ InitSchedControl \/ SchedAllocate \/ SchedAddress
        \/ InitSchedControlDone
        \/ Sleep \/ wrapSystemDidWake
        \/ ClientAllocate \/ ClientAddress \/ ClientRelease

Spec == Init /\ [][Next]_vars

-----------------------------------------------------------------------------
\* Properties

\* What the GPU is given is one firmware: binary, signature and size are of the
\* same image, which fits into its buffer; in a load in which the replacement
\* worked it is the generic one.  Up to one case: when the replacement worked in
\* an earlier load and fails in this one (spoiled), the driver's own binary
\* meets the generic signature, which is never put back.
RunsWholeImage ==
  gpu # NoFirmware /\ ~spoiled =>
    /\ gpu.image = gpu.signature /\ gpu.image = gpu.size
    /\ FirmwareSize[gpu.image] <= gpu.room
    /\ gpu.replaced => gpu.image = "generic"

\* When no load is under way, every buffer points to its own memory again, those
\* that initSchedControl took during the load and those of other clients
\* included, and no dummy is left, but for one per load in which kernel memory
\* could not be made writable (line 1481).  At no time does a buffer point to
\* a block that has been freed.
BuffersRestored ==
  /\ \A b \in live : data[b] \in {b} \cup heap
  /\ Quiet => /\ \A b \in live : data[b] = b
              /\ real = Null
              /\ Cardinality(heap) <= unwritable
==============================================================================
