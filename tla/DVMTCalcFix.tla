------------------------------ MODULE DVMTCalcFix ------------------------------
(***************************************************************************)
(* The DVMT calculation fix of IGFX, which is meant for Ice Lake but can   *)
(* be asked for on any platform.  The framebuffer driver computes how much *)
(* memory the firmware has pre-allocated, with a formula that is right for *)
(* multiples of 32 MB only.  The fix decodes the GMS field itself, looks   *)
(* for the two instructions of the formula, and replaces them by a         *)
(* constant.  Sizes are in MB.                                             *)
(***************************************************************************)
EXTENDS Integers, Sequences, FiniteSetsExt

CONSTANTS GMSFields,   \* values of GMS the firmware may have set
          Codes,       \* beginnings of FBMemMgr_Init, see HasFormula
          Registers,
          Lookup       \* instructions that are looked at (64)

VARIABLES gms, code,
          dvmtPc,
          available,   \* is the machine an Ice Lake?
          asked,       \* -igfxdvmt or enable-dvmt-calc-fix
          enabled, dvmt,
          memory       \* what the driver computes
dvmtVars == <<gms, code, dvmtPc, available, asked, enabled, dvmt, memory>>

\* shll is a shift by 17, andl a mask of 0xFE000000; error is one that the
\* disassembler does not know.
Operations == {"read", "shll", "andl", "store", "other", "error"}
Writes(instruction, x) == instruction.op \in {"read", "shll", "andl"} /\ instruction.reg = x

\* Apple's formula, (GGCRegValue << 0x11) & 0xFE000000, in some register: only s and
\* a change it between the read r and the store t.  A mask of another form may stand
\* for a, if there is none of this form; else a is the first mask of the code, and
\* s the last shift before it.
HasFormula(c) ==
  \E x \in Registers, r, s, a, t \in 1..Len(c) :
    /\ r < s /\ s < a /\ a < t
    /\ c[r] = [op |-> "read", reg |-> x] /\ c[s] = [op |-> "shll", reg |-> x]
    /\ c[t] = [op |-> "store", reg |-> x] /\ \A n \in 1..(t - 1) : c[n].op # "store"
    /\ \A n \in (r + 1)..t : n \in {s, a} \/ ~Writes(c[n], x)
    /\ \/ \A n \in 1..Len(c) : c[n].op # "andl" /\ (n = a => ~Writes(c[n], x))
       \/ /\ c[a] = [op |-> "andl", reg |-> x] /\ \A n \in 1..(a - 1) : c[n].op # "andl"
          /\ \A n \in (s + 1)..a : c[n].op # "shll"

ASSUME CodesAssumption ==
  \A c \in Codes : c \in Seq([op : Operations, reg : Registers]) /\ HasFormula(c)

\* GMS has 8 bits.
ASSUME FieldsAssumption == GMSFields \subseteq 0..255

ASSUME LookupAssumption == Lookup \in Nat

DvmtInit == /\ gms \in GMSFields /\ code \in Codes
            /\ dvmtPc = "kernel"
            /\ available \in BOOLEAN /\ asked \in BOOLEAN
            /\ enabled = FALSE /\ dvmt = 0
            /\ memory = 0

\* Mutated form of SmallSize: the sizes begin with 0.
SmallSizeFromZero(g) == (g % 16) * 4

\* 4 MB to 60 MB
SmallSize(g) == ((g % 16) + 1) * 4

\* processKernel.  On another platform the log says that the fix has been disabled,
\* but it stays enabled with a size of 0.  The graphics device may not be published
\* in time.  A reserved value leaves the fix enabled with a size of 0, too.
DvmtProcessKernel ==
  /\ dvmtPc = "kernel"
  /\ \/ /\ ~asked
        /\ UNCHANGED <<enabled, dvmt>>
     \/ /\ asked /\ ~available
        /\ enabled' = TRUE
        /\ UNCHANGED dvmt
     \/ /\ asked /\ available
        /\ enabled' = FALSE
        /\ UNCHANGED dvmt
     \/ /\ asked /\ available
        /\ enabled' = (gms >= 16)
        /\ dvmt' = IF gms < 16 \/ gms \in {32, 48, 64} THEN gms * 32
                   ELSE IF gms \in 240..254 THEN SmallSize(gms)
                   ELSE 0
  /\ dvmtPc' = "kext"
  /\ UNCHANGED <<gms, code, available, asked, memory>>

\* The instructions that are replaced.  The search ends with the first one before
\* which both have been seen; of each it takes the last one.
Seen(n, op) == {i \in 1..n : code[i].op = op}
Searched == {n \in 1..Len(code) : n <= Lookup /\ Seen(n, "error") = {}}
BothSeen == {n \in Searched : Seen(n, "shll") # {} /\ Seen(n, "andl") # {}}
ShllAt == Max(Seen(Min(BothSeen), "shll"))
AndlAt == Max(Seen(Min(BothSeen), "andl"))

\* processFramebufferKext.  FBMemMgr_Init may not be found, or the kernel may not
\* be writable.  The register is the one of andl.
Patched == [code EXCEPT ![ShllAt] = [op |-> "nop"],
                        ![AndlAt] = [op |-> "movl", reg |-> @.reg, value |-> dvmt]]

DvmtProcessFramebufferKext ==
  /\ dvmtPc = "kext"
  /\ dvmtPc' = "driver"
  /\ \/ UNCHANGED code
     \/ enabled /\ BothSeen # {} /\ code' = Patched
  /\ UNCHANGED <<gms, available, asked, enabled, dvmt, memory>>

\* One instruction of the driver.  Shifted by 17, bit 8 of the field that GMS begins
\* at is 32 MB, and 32 bits hold 4096 MB.
Step(r, instruction) ==
  CASE instruction.op = "read" -> [r EXCEPT ![instruction.reg] = gms]
    [] instruction.op = "shll" -> [r EXCEPT ![instruction.reg] = (@ * 32) % 4096]
    [] instruction.op = "andl" -> [r EXCEPT ![instruction.reg] = @ - (@ % 32)]
    [] instruction.op = "movl" -> [r EXCEPT ![instruction.reg] = instruction.value]
    [] OTHER -> r

RegistersAfter[n \in 0..Len(code)] ==
  IF n = 0 THEN [r \in Registers |-> 0] ELSE Step(RegistersAfter[n - 1], code[n])

\* The driver runs to the instruction that stores the result.
FBMemMgr_Init ==
  /\ dvmtPc = "driver"
  /\ dvmtPc' = "done"
  /\ LET store == Min({n \in 1..Len(code) : code[n].op = "store"})
     IN memory' = RegistersAfter[store][code[store].reg]
  /\ UNCHANGED <<gms, code, available, asked, enabled, dvmt>>

DvmtNext == DvmtProcessKernel \/ DvmtProcessFramebufferKext \/ FBMemMgr_Init

DvmtSpec == DvmtInit /\ [][DvmtNext]_dvmtVars

-----------------------------------------------------------------------------
\* The sizes that GMS stands for: multiples of 32 MB up to 512 MB (values 0x00 to
\* 0x10, kern_igfx_memory.cpp:102), 1 GB, 1.5 GB and 2 GB, and multiples of 4 MB
\* up to 60 MB.
SizeOf(g) == IF g \in 0..16 \cup {32, 48, 64} THEN g * 32 ELSE 4 * (g - 239)

\* Once the driver's code is patched, it works with the size that the firmware has
\* pre-allocated, whichever registers it uses; and a driver that is not patched
\* does so for all multiples of 32 MB.  This is a property of Ice Lake and of
\* machines on which the fix is not asked for: on another platform, a driver with
\* the formula is patched to work with 0 (kern_igfx_memory.cpp:37-40).
SizeIsRight ==
  /\ dvmtPc = "done"
  /\ available \/ ~asked
  /\ gms \in 0..16 \cup {32, 48, 64} \/ \E n \in DOMAIN code : code[n].op = "movl"
  /\ gms \in 0..16 \cup {32, 48, 64} \cup 240..254
  => memory = SizeOf(gms)
================================================================================
