----------------------- MODULE FramebufferPatchesProofs -----------------------
(***************************************************************************)
(* Proofs about what is changed in Intel's framebuffer driver: its list of *)
(* frames, for any machines whose properties follow the documentation and  *)
(* any number of calls; and its DVMT formula, for any codes and registers. *)
(***************************************************************************)
EXTENDS FramebufferPatches, DVMTCalcFix, WellFoundedInduction, TLAPS

-----------------------------------------------------------------------------
\* Loops over an interval

Less == {ss \in Nat \X Nat : ss[1] < ss[2]}

\* A set of naturals that is not empty has a least element.
LEMMA LeastElement ==
  ASSUME NEW T \in SUBSET Nat, T # {}
  PROVE  \E m \in T : \A n \in T : m <= n
<1>1. Less = OpToRel(<, Nat)
  BY Zenon DEF Less, OpToRel
<1>2. IsWellFoundedOn(Less, Nat)
  BY <1>1, NatLessThanWellFounded, Zenon
<1>3. PICK m \in T : \A n \in T : ~(<<n, m>> \in Less)
  BY <1>2, WFMin, Zenon
<1>4. ASSUME NEW n \in T PROVE m <= n
  <2>1. n \in Nat /\ m \in Nat
    OBVIOUS
  <2>2. CASE n < m
    <3>1. <<n, m>> \in Less
      BY <2>1, <2>2 DEF Less
    <3>2. QED
      BY <1>3, <3>1, Zenon
  <2>3. QED
    BY <2>1, <2>2
<1>5. QED
  BY <1>4

\* What holds at 0, and at n when it holds at n - 1, holds up to N.
LEMMA IntervalInduction ==
  ASSUME NEW N \in Nat, NEW G, 0 \in G, \A n \in 1..N : n - 1 \in G => n \in G
  PROVE  \A n \in 0..N : n \in G
<1> DEFINE Bad == {m \in 0..N : m \notin G}
<1> SUFFICES ASSUME Bad # {} PROVE FALSE
  OBVIOUS
<1>1. PICK m \in Bad : \A k \in Bad : m <= k
  <2>1. Bad \in SUBSET Nat
    OBVIOUS
  <2>2. QED
    BY <2>1, LeastElement, Zenon
<1>2. m \in 1..N /\ m \notin G
  OBVIOUS
<1>3. m - 1 \in 0..N /\ m - 1 \notin Bad
  <2>1. m - 1 \in 0..N /\ ~(m <= m - 1)
    BY <1>2
  <2>2. QED
    BY <1>1, <2>1, Zenon
<1>4. QED
  BY <1>2, <1>3

\* f begins with c, and step[n] makes f[n] of f[n - 1].
Recurs(f, c, N, step) == f[0] = c /\ \A n \in 1..N : f[n] = step[n][f[n - 1]]
Closed(S, N, step) == \A n \in 1..N : \A x \in S : step[n][x] \in S

\* A function that is defined by recursion over an interval exists, when each step
\* stays in a set.
LEMMA RecursionDefined ==
  ASSUME NEW S, NEW c \in S, NEW N \in Nat, NEW step, Closed(S, N, step)
  PROVE  \E f \in [0..N -> S] : Recurs(f, c, N, step)
<1> USE DEF Recurs, Closed
<1> DEFINE Follows(f, m) == f[0] = c /\ \A n \in 1..m : f[n] = step[n][f[n - 1]]
           G == {m \in 0..N : \E f \in [0..m -> S] : Follows(f, m)}
<1>1. 0 \in G
  <2>1. [i \in 0..0 |-> c] \in [0..0 -> S] /\ Follows([i \in 0..0 |-> c], 0)
    OBVIOUS
  <2>2. \E f \in [0..0 -> S] : Follows(f, 0)
    <3> HIDE DEF Follows
    <3>1. QED
      BY <2>1
  <2>3. QED
    BY <2>2
<1>2. ASSUME NEW m \in 1..N, m - 1 \in G PROVE m \in G
  <2>1. PICK f \in [0..(m - 1) -> S] : Follows(f, m - 1)
    BY <1>2
  <2> DEFINE last == step[m][f[m - 1]]
             g == [i \in 0..m |-> IF i = m THEN last ELSE f[i]]
  <2>2. last \in S
    BY <2>1
  <2> HIDE DEF last
  <2>3. g \in [0..m -> S] /\ g[0] = c
    BY <2>1, <2>2
  <2>4. ASSUME NEW n \in 1..m PROVE g[n] = step[n][g[n - 1]]
    <3>1. g[n - 1] = f[n - 1]
      OBVIOUS
    <3>2. CASE n = m
      BY <3>1, <3>2 DEF last
    <3>3. CASE n # m
      <4>1. n \in 1..(m - 1) /\ g[n] = f[n]
        BY <3>3
      <4>2. QED
        BY <2>1, <3>1, <4>1
    <3>4. QED
      BY <3>2, <3>3
  <2>5. QED
    BY <2>3, <2>4
<1>3. \A m \in 0..N : m \in G
  <2> HIDE DEF G
  <2>1. QED
    BY <1>1, <1>2, IntervalInduction
<1>4. N \in G
  BY <1>3
<1>5. QED
  BY <1>4

-----------------------------------------------------------------------------
\* The DVMT size

\* A least element of a set is its minimum, a largest one its maximum.
LEMMA MinIs ==
  ASSUME NEW S \in SUBSET Nat, NEW m \in S, \A n \in S : m <= n
  PROVE  Min(S) = m
<1>1. Min(S) \in S /\ \A n \in S : Min(S) <= n
  <2>1. \E x \in S : \A n \in S : x <= n
    OBVIOUS
  <2>2. QED
    BY <2>1, Zenon DEF Min
<1>2. Min(S) <= m /\ m <= Min(S) /\ Min(S) \in Nat /\ m \in Nat
  BY <1>1
<1>3. QED
  BY <1>2

LEMMA MaxIs ==
  ASSUME NEW S \in SUBSET Nat, NEW m \in S, \A n \in S : n <= m
  PROVE  Max(S) = m
<1>1. Max(S) \in S /\ \A n \in S : Max(S) >= n
  <2>1. \A n \in S : m >= n
    OBVIOUS
  <2>2. \E x \in S : \A n \in S : x >= n
    BY <2>1
  <2>3. QED
    BY <2>2, Zenon DEF Max
<1>2. Max(S) <= m /\ m <= Max(S) /\ Max(S) \in Nat /\ m \in Nat
  BY <1>1
<1>3. QED
  BY <1>2

\* What the driver executes: its own instructions, and those of the fix.
Constant(x, value) == [op |-> "movl", reg |-> x, value |-> value]
Instructions == [op : Operations, reg : Registers]
                  \cup {[op |-> "nop"]} \cup {Constant(x, v) : x \in Registers, v \in Nat}

RegisterFiles == [Registers -> Nat]

\* An instruction leaves naturals in the registers.
LEMMA StepType ==
  ASSUME gms \in Nat, NEW r \in RegisterFiles, NEW i \in Instructions
  PROVE  Step(r, i) \in RegisterFiles
<1>1. CASE i \in [op : Operations, reg : Registers]
  <2>1. i.reg \in Registers /\ i.op \in Operations
    BY <1>1
  <2>2. r[i.reg] \in Nat
    BY <2>1 DEF RegisterFiles
  <2>3. (r[i.reg] * 32) % 4096 \in Nat /\ r[i.reg] - (r[i.reg] % 32) \in Nat
    BY <2>2
  <2>4. QED
    BY <2>1, <2>2, <2>3 DEF Step, RegisterFiles, Operations
<1>2. CASE i = [op |-> "nop"]
  BY <1>2 DEF Step
<1>3. ASSUME NEW x \in Registers, NEW v \in Nat, i = Constant(x, v)
      PROVE  Step(r, i) \in RegisterFiles
  BY <1>3 DEF Step, RegisterFiles, Constant
<1>4. QED
  BY <1>1, <1>2, <1>3 DEF Instructions

\* An instruction that does not write a register leaves it alone.
LEMMA StepElsewhere ==
  ASSUME NEW r \in RegisterFiles, NEW i \in Instructions, NEW x \in Registers,
         ~Writes(i, x), i.op # "movl"
  PROVE  Step(r, i)[x] = r[x]
BY DEF Step, Writes, RegisterFiles

\* The code can be run to its end.
LEMMA RunFacts ==
  ASSUME gms \in Nat, code \in Seq(Instructions)
  PROVE  /\ RegistersAfter \in [0..Len(code) -> RegisterFiles]
         /\ \A n \in 1..Len(code) : RegistersAfter[n] = Step(RegistersAfter[n - 1], code[n])
<1> DEFINE N == Len(code)
           start == [x \in Registers |-> 0]
           step == [n \in 1..N |-> [r \in RegisterFiles |-> Step(r, code[n])]]
           Loop(g) == [n \in 0..N |-> IF n = 0 THEN start ELSE Step(g[n - 1], code[n])]
<1>1. N \in Nat /\ start \in RegisterFiles /\ \A n \in 1..N : code[n] \in Instructions
  BY DEF RegisterFiles
<1>2. Closed(RegisterFiles, N, step)
  BY <1>1, StepType DEF Closed
<1>3. PICK f \in [0..N -> RegisterFiles] : Recurs(f, start, N, step)
  <2> HIDE DEF step, start, N
  <2>1. N \in Nat /\ start \in RegisterFiles
    BY <1>1
  <2>2. QED
    BY <2>1, <1>2, RecursionDefined, Zenon
<1>4. /\ f[0] = start
      /\ \A n \in 1..N : f[n - 1] \in RegisterFiles /\ f[n] = Step(f[n - 1], code[n])
  <2>1. \A n \in 1..N : f[n - 1] \in RegisterFiles /\ f[n] = step[n][f[n - 1]]
    <3> HIDE DEF step, start
    <3>1. QED
      BY <1>1, <1>3 DEF Recurs
  <2>2. QED
    BY <2>1, <1>3 DEF Recurs
<1>5. f = Loop(f)
  BY <1>1, <1>3, <1>4
<1>6. RegistersAfter = CHOOSE g : g = Loop(g)
  BY Zenon DEF RegistersAfter
<1>7. RegistersAfter = Loop(RegistersAfter)
  BY <1>5, <1>6, Zenon
<1> HIDE DEF start, step
<1> DEFINE G == {n \in 0..N : RegistersAfter[n] = f[n]}
<1>8. \A n \in 0..N :
        RegistersAfter[n] = IF n = 0 THEN start ELSE Step(RegistersAfter[n - 1], code[n])
  <2>1. \A n \in 0..N : Loop(RegistersAfter)[n]
                         = IF n = 0 THEN start ELSE Step(RegistersAfter[n - 1], code[n])
    BY Zenon
  <2>2. QED
    BY <1>7, <2>1, Zenon
<1>9. 0 \in G
  BY <1>1, <1>4, <1>8
<1>10. ASSUME NEW n \in 1..N, n - 1 \in G PROVE n \in G
  BY <1>1, <1>4, <1>8, <1>10
<1>11. \A n \in 0..N : n \in G
  <2> HIDE DEF G, N
  <2>1. QED
    BY <1>1, <1>9, <1>10, IntervalInduction
<1>12. \A n \in 0..N : RegistersAfter[n] = f[n]
  BY <1>11
<1>13. RegistersAfter = [n \in 0..N |-> RegistersAfter[n]]
  BY <1>7, Zenon
<1>14. RegistersAfter \in [0..N -> RegisterFiles]
  BY <1>3, <1>12, <1>13
<1>15. \A n \in 1..N : RegistersAfter[n] = Step(RegistersAfter[n - 1], code[n])
  BY <1>1, <1>8
<1>16. QED
  BY <1>14, <1>15

\* A sequence over a set is one over each larger set, and so are its entries.
LEMMA LargerSeq ==
  ASSUME NEW T, NEW U, T \subseteq U, NEW c \in Seq(T)
  PROVE  /\ c \in Seq(U) /\ Len(c) \in Nat /\ DOMAIN c = 1..Len(c)
         /\ \A n \in 1..Len(c) : c[n] \in T /\ c[n] \in U
OBVIOUS

OwnInstructions == [op : Operations, reg : Registers]

\* The driver's code consists of instructions, none of which is a constant.
LEMMA DriverCode ==
  ASSUME NEW c \in Codes
  PROVE  /\ c \in Seq(Instructions) /\ Len(c) \in Nat /\ DOMAIN c = 1..Len(c)
         /\ \A n \in 1..Len(c) : c[n] \in OwnInstructions /\ c[n] \in Instructions
         /\ \A n \in 1..Len(c) : c[n].op \in Operations /\ c[n].op # "movl"
<1>1. c \in Seq(OwnInstructions) /\ OwnInstructions \subseteq Instructions
  <2>1. c \in Seq(OwnInstructions)
    BY CodesAssumption, Zenon DEF OwnInstructions
  <2>2. QED
    BY <2>1 DEF OwnInstructions, Instructions
<1>2. /\ c \in Seq(Instructions) /\ Len(c) \in Nat /\ DOMAIN c = 1..Len(c)
      /\ \A n \in 1..Len(c) : c[n] \in OwnInstructions /\ c[n] \in Instructions
  BY <1>1, LargerSeq
<1>3. \A n \in 1..Len(c) : c[n].op \in Operations /\ c[n].op # "movl"
  BY <1>2 DEF OwnInstructions, Operations
<1>4. QED
  BY <1>2, <1>3

\* The first store is where the driver stops.
LEMMA StoreIs ==
  ASSUME NEW c, NEW t \in 1..Len(c), Len(c) \in Nat, c[t].op = "store",
         \A n \in 1..(t - 1) : c[n].op # "store"
  PROVE  Min({n \in 1..Len(c) : c[n].op = "store"}) = t
<1> DEFINE S == {n \in 1..Len(c) : c[n].op = "store"}
<1>1. S \in SUBSET Nat /\ t \in S
  OBVIOUS
<1>2. \A n \in S : t <= n
  OBVIOUS
<1> HIDE DEF S
<1>3. Min(S) = t
  BY <1>1, <1>2, MinIs
<1>4. QED
  BY <1>3 DEF S

\* The driver's formula shifts the field, and masks nothing away.
LEMMA FormulaResult ==
  ASSUME gms \in 0..255, code \in Codes
  PROVE  LET store == Min({n \in 1..Len(code) : code[n].op = "store"})
         IN  RegistersAfter[store][code[store].reg] = (gms * 32) % 4096
<1>1. HasFormula(code)
  BY CodesAssumption
<1>2. code \in Seq(Instructions) /\ Len(code) \in Nat
  BY DriverCode
<1>3. \A n \in 1..Len(code) : code[n].op # "movl" /\ code[n] \in Instructions
  BY DriverCode
<1>4. PICK x \in Registers, r, s, a, t \in 1..Len(code) :
        /\ r < s /\ s < a /\ a < t
        /\ code[r] = [op |-> "read", reg |-> x] /\ code[s] = [op |-> "shll", reg |-> x]
        /\ code[t] = [op |-> "store", reg |-> x] /\ \A n \in 1..(t - 1) : code[n].op # "store"
        /\ \A n \in (r + 1)..t : n \in {s, a} \/ ~Writes(code[n], x)
        /\ \/ \A n \in 1..Len(code) : code[n].op # "andl" /\ (n = a => ~Writes(code[n], x))
           \/ /\ code[a] = [op |-> "andl", reg |-> x] /\ \A n \in 1..(a - 1) : code[n].op # "andl"
              /\ \A n \in (s + 1)..a : code[n].op # "shll"
  BY <1>1 DEF HasFormula
<1>5. ~Writes(code[a], x) \/ code[a] = [op |-> "andl", reg |-> x]
  BY <1>4
<1> DEFINE shifted == (gms * 32) % 4096
           value(n) == IF n < s THEN gms ELSE shifted
           G == {n \in 0..t : n >= r => RegistersAfter[n][x] = value(n)}
<1>6. gms \in Nat /\ shifted \in Nat /\ shifted % 32 = 0
  OBVIOUS
<1>7. /\ \A n \in 0..Len(code) : RegistersAfter[n] \in RegisterFiles
      /\ \A n \in 1..Len(code) : RegistersAfter[n] = Step(RegistersAfter[n - 1], code[n])
  <2>1. RegistersAfter \in [0..Len(code) -> RegisterFiles]
    BY <1>2, <1>6, RunFacts
  <2>2. \A n \in 1..Len(code) : RegistersAfter[n] = Step(RegistersAfter[n - 1], code[n])
    BY <1>2, <1>6, RunFacts
  <2>3. QED
    BY <2>1, <2>2
<1>8. 0 \in G
  OBVIOUS
<1>9. ASSUME NEW n \in 1..t, n - 1 \in G PROVE n \in G
  <2>1. SUFFICES ASSUME n >= r PROVE RegistersAfter[n][x] = value(n)
    OBVIOUS
  <2>2. /\ n \in 1..Len(code) /\ n - 1 \in 0..Len(code)
        /\ code[n] \in Instructions /\ RegistersAfter[n - 1] \in RegisterFiles
        /\ RegistersAfter[n] = Step(RegistersAfter[n - 1], code[n])
    BY <1>2, <1>3, <1>7
  <2>3. CASE n = r
    <3>1. RegistersAfter[n][x] = gms
      BY <2>2, <2>3, <1>4 DEF Step, RegisterFiles
    <3>2. QED
      BY <3>1, <2>3, <1>4
  <2>4. CASE n # r
    <3>1. RegistersAfter[n - 1][x] = value(n - 1) /\ n \in (r + 1)..t
      BY <1>9, <2>1, <2>4
    <3>2. CASE n = s
      <4>1. RegistersAfter[n - 1][x] = gms
        BY <3>1, <3>2
      <4>2. RegistersAfter[n][x] = (RegistersAfter[n - 1][x] * 32) % 4096
        BY <2>2, <3>2, <1>4 DEF Step, RegisterFiles
      <4>3. QED
        BY <4>1, <4>2, <3>2
    <3>3. CASE n = a /\ code[a] = [op |-> "andl", reg |-> x]
      <4>1. RegistersAfter[n - 1][x] = shifted
        BY <3>1, <3>3, <1>4
      <4>2. RegistersAfter[n][x] = RegistersAfter[n - 1][x] - (RegistersAfter[n - 1][x] % 32)
        BY <2>2, <3>3 DEF Step, RegisterFiles
      <4> HIDE DEF shifted
      <4>3. QED
        BY <4>1, <4>2, <3>3, <1>4, <1>6
    <3>4. CASE n # s /\ ~(n = a /\ code[a] = [op |-> "andl", reg |-> x])
      <4>1. ~Writes(code[n], x)
        BY <3>1, <3>4, <1>4, <1>5
      <4>2. code[n].op # "movl"
        BY <1>3, <2>2
      <4>3. RegistersAfter[n][x] = RegistersAfter[n - 1][x]
        BY <2>2, <4>1, <4>2, StepElsewhere
      <4>4. value(n) = value(n - 1)
        BY <3>4
      <4>5. QED
        BY <4>3, <4>4, <3>1
    <3>5. QED
      BY <3>2, <3>3, <3>4
  <2>5. QED
    BY <2>3, <2>4
<1>10. t \in Nat /\ \A n \in 0..t : n \in G
  <2> HIDE DEF G
  <2>1. t \in Nat
    BY <1>2
  <2>2. QED
    BY <2>1, <1>8, <1>9, IntervalInduction
<1>11. RegistersAfter[t][x] = shifted
  BY <1>4, <1>10
<1>12. Min({n \in 1..Len(code) : code[n].op = "store"}) = t
  BY <1>2, <1>4, StoreIs
<1>13. QED
  BY <1>4, <1>11, <1>12

\* The code after the fix: the constant goes into the register that is stored.
IsPatched(c) ==
  /\ c \in Seq(Instructions)
  /\ \E x \in Registers, a, t \in 1..Len(c) :
       /\ a < t /\ c[a] = Constant(x, dvmt)
       /\ c[t] = [op |-> "store", reg |-> x] /\ \A n \in 1..(t - 1) : c[n].op # "store"
       /\ \A n \in (a + 1)..t : ~Writes(c[n], x) /\ c[n].op # "movl"

\* The patched code stores the constant.
LEMMA ConstantResult ==
  ASSUME gms \in Nat, dvmt \in Nat, IsPatched(code)
  PROVE  LET store == Min({n \in 1..Len(code) : code[n].op = "store"})
         IN  RegistersAfter[store][code[store].reg] = dvmt
<1>1. code \in Seq(Instructions) /\ Len(code) \in Nat
      /\ \A n \in 1..Len(code) : code[n] \in Instructions
  BY DEF IsPatched
<1>2. PICK x \in Registers, a, t \in 1..Len(code) :
       /\ a < t /\ code[a] = Constant(x, dvmt)
       /\ code[t] = [op |-> "store", reg |-> x] /\ \A n \in 1..(t - 1) : code[n].op # "store"
       /\ \A n \in (a + 1)..t : ~Writes(code[n], x) /\ code[n].op # "movl"
  BY DEF IsPatched
<1>3. /\ \A n \in 0..Len(code) : RegistersAfter[n] \in RegisterFiles
      /\ \A n \in 1..Len(code) : RegistersAfter[n] = Step(RegistersAfter[n - 1], code[n])
  BY <1>1, RunFacts
<1> DEFINE G == {n \in 0..t : n >= a => RegistersAfter[n][x] = dvmt}
<1>4. 0 \in G
  OBVIOUS
<1>5. ASSUME NEW n \in 1..t, n - 1 \in G PROVE n \in G
  <2>1. SUFFICES ASSUME n >= a PROVE RegistersAfter[n][x] = dvmt
    OBVIOUS
  <2>2. /\ n \in 1..Len(code) /\ n - 1 \in 0..Len(code)
        /\ code[n] \in Instructions /\ RegistersAfter[n - 1] \in RegisterFiles
        /\ RegistersAfter[n] = Step(RegistersAfter[n - 1], code[n])
    BY <1>1, <1>3
  <2>3. CASE n = a
    BY <2>2, <2>3, <1>2 DEF Step, RegisterFiles, Constant
  <2>4. CASE n # a
    <3>1. RegistersAfter[n - 1][x] = dvmt /\ ~Writes(code[n], x) /\ code[n].op # "movl"
      BY <1>2, <1>5, <2>1, <2>4
    <3>2. QED
      BY <2>2, <3>1, StepElsewhere
  <2>5. QED
    BY <2>3, <2>4
<1>6. t \in Nat /\ \A n \in 0..t : n \in G
  <2> HIDE DEF G
  <2>1. t \in Nat
    BY <1>1
  <2>2. QED
    BY <2>1, <1>4, <1>5, IntervalInduction
<1>7. RegistersAfter[t][x] = dvmt
  BY <1>2, <1>6
<1>8. Min({n \in 1..Len(code) : code[n].op = "store"}) = t
  BY <1>1, <1>2, StoreIs
<1>9. QED
  BY <1>2, <1>7, <1>8

\* The fix finds the formula's two instructions.
LEMMA FixPatchesFormula ==
  ASSUME code \in Codes, BothSeen # {}, dvmt \in Nat
  PROVE  IsPatched(Patched)
<1>1. HasFormula(code)
  BY CodesAssumption
<1>2. /\ code \in Seq(Instructions) /\ Len(code) \in Nat /\ DOMAIN code = 1..Len(code)
      /\ \A n \in 1..Len(code) : code[n] \in Instructions /\ code[n].op # "movl"
  BY DriverCode
<1>3. PICK x \in Registers, r, s, a, t \in 1..Len(code) :
        /\ r < s /\ s < a /\ a < t
        /\ code[r] = [op |-> "read", reg |-> x] /\ code[s] = [op |-> "shll", reg |-> x]
        /\ code[t] = [op |-> "store", reg |-> x] /\ \A n \in 1..(t - 1) : code[n].op # "store"
        /\ \A n \in (r + 1)..t : n \in {s, a} \/ ~Writes(code[n], x)
        /\ \/ \A n \in 1..Len(code) : code[n].op # "andl" /\ (n = a => ~Writes(code[n], x))
           \/ /\ code[a] = [op |-> "andl", reg |-> x] /\ \A n \in 1..(a - 1) : code[n].op # "andl"
              /\ \A n \in (s + 1)..a : code[n].op # "shll"
  BY <1>1 DEF HasFormula
<1>4. PICK m \in BothSeen : TRUE
  OBVIOUS
<1>5. /\ m \in 1..Len(code) /\ m <= Lookup /\ Seen(m, "error") = {}
      /\ \E i \in 1..m : code[i].op = "andl"
  BY <1>4 DEF BothSeen, Searched, Seen
<1>6. /\ code[a] = [op |-> "andl", reg |-> x] /\ \A n \in 1..(a - 1) : code[n].op # "andl"
      /\ \A n \in (s + 1)..a : code[n].op # "shll"
  BY <1>2, <1>3, <1>5
<1>7. \A n \in BothSeen : n \in 1..Len(code) /\ a <= n
  BY <1>2, <1>6 DEF BothSeen, Searched, Seen
<1>8. a \in BothSeen
  <2>1. a <= m
    BY <1>4, <1>7
  <2>2. a <= Lookup /\ Seen(a, "error") = {}
    BY <2>1, <1>5, LookupAssumption DEF Seen
  <2>3. s \in Seen(a, "shll") /\ a \in Seen(a, "andl")
    BY <1>3, <1>6 DEF Seen
  <2>4. QED
    BY <2>2, <2>3 DEF BothSeen, Searched
<1>9. Min(BothSeen) = a
  BY <1>7, <1>8, MinIs
<1>10. ShllAt = s
  <2>1. Seen(a, "shll") \in SUBSET Nat /\ s \in Seen(a, "shll")
    BY <1>3 DEF Seen
  <2>2. \A n \in Seen(a, "shll") : n <= s
    BY <1>6 DEF Seen
  <2>3. QED
    BY <1>9, <2>1, <2>2, MaxIs DEF ShllAt
<1>11. AndlAt = a
  <2>1. Seen(a, "andl") \in SUBSET Nat /\ a \in Seen(a, "andl")
    BY <1>6 DEF Seen
  <2>2. \A n \in Seen(a, "andl") : n <= a
    BY DEF Seen
  <2>3. QED
    BY <1>9, <2>1, <2>2, MaxIs DEF AndlAt
<1>12. /\ Len(Patched) = Len(code)
       /\ Patched \in [1..Len(code) -> Instructions]
       /\ Patched[s] = [op |-> "nop"] /\ Patched[a] = Constant(x, dvmt)
       /\ \A n \in 1..Len(code) : n \notin {s, a} => Patched[n] = code[n]
  <2>1. Patched = [code EXCEPT ![s] = [op |-> "nop"], ![a] = Constant(code[a].reg, dvmt)]
    BY <1>3, <1>10, <1>11 DEF Patched, Constant
  <2>2. code \in [1..Len(code) -> Instructions]
    BY <1>2
  <2>3. code[a].reg = x /\ Constant(x, dvmt) \in Instructions /\ [op |-> "nop"] \in Instructions
    BY <1>6 DEF Instructions
  <2> DEFINE nop == [op |-> "nop"]
             movl == Constant(x, dvmt)
  <2>4. /\ Patched = [code EXCEPT ![s] = nop, ![a] = movl]
        /\ nop \in Instructions /\ movl \in Instructions
    BY <2>1, <2>3
  <2> HIDE DEF nop, movl
  <2>5. /\ Len(code) \in Nat /\ s \in 1..Len(code) /\ a \in 1..Len(code) /\ s # a
    BY <1>2, <1>3
  <2>6. /\ Patched \in [1..Len(code) -> Instructions]
        /\ Patched[s] = nop /\ Patched[a] = movl
        /\ \A n \in 1..Len(code) : n \notin {s, a} => Patched[n] = code[n]
    BY <2>2, <2>4, <2>5
  <2>7. Len(Patched) = Len(code)
    BY <2>5, <2>6
  <2>8. QED
    BY <2>6, <2>7 DEF nop, movl
<1>13. Patched \in Seq(Instructions)
  BY <1>2, <1>12
<1>14. \A n \in 1..Len(code) : code[n].op # "movl"
  BY <1>2
<1>15. \A n \in 1..(t - 1) : Patched[n].op # "store"
  BY <1>2, <1>3, <1>12 DEF Constant
<1>16. \A n \in (a + 1)..t : ~Writes(Patched[n], x) /\ Patched[n].op # "movl"
  <2>1. SUFFICES ASSUME NEW n \in (a + 1)..t
                 PROVE  ~Writes(Patched[n], x) /\ Patched[n].op # "movl"
    OBVIOUS
  <2>2. n \in 1..Len(code) /\ n \notin {s, a} /\ n \in (r + 1)..t
    BY <1>2, <1>3
  <2>3. Patched[n] = code[n] /\ ~Writes(code[n], x)
    BY <1>3, <1>12, <2>2
  <2>4. QED
    BY <1>14, <2>2, <2>3
<1>17. Patched[t] = [op |-> "store", reg |-> x]
  BY <1>3, <1>12
<1>18. QED
  BY <1>3, <1>12, <1>13, <1>15, <1>16, <1>17 DEF IsPatched

\* On Ice Lake, the fix is enabled with the size that the field stands for.
SizeIsDecoded ==
  /\ dvmt \in Nat
  /\ enabled => asked
  /\ enabled /\ available =>
       /\ gms >= 16
       /\ gms \in {32, 48, 64} \cup 240..254 => dvmt = SizeOf(gms)

\* The code is the driver's own or patched with the size.

DvmtInv ==
  /\ gms \in GMSFields /\ dvmtPc \in {"kernel", "kext", "driver", "done"}
  /\ SizeIsDecoded
  /\ dvmtPc \in {"kernel", "kext"} => code \in Codes
  /\ dvmtPc = "driver" => code \in Codes \/ (enabled /\ IsPatched(code))
  /\ SizeIsRight

\* The invariant holds in the beginning.
LEMMA DvmtInitInv == DvmtInit => DvmtInv
BY DEF DvmtInit, DvmtInv, SizeIsDecoded, SizeIsRight

\* No instruction of the driver's own is a constant.
LEMMA NoConstant ==
  ASSUME code \in Codes
  PROVE  ~\E n \in DOMAIN code : code[n].op = "movl"
BY DriverCode

\* Every step keeps it, when the firmware does not set the largest size that the
\* driver's formula is right for.
LEMMA DvmtStepInv ==
  ASSUME 16 \notin GMSFields, DvmtInv, [DvmtNext]_dvmtVars
  PROVE  DvmtInv'
<1>1. gms \in 0..255 /\ gms # 16
  BY FieldsAssumption DEF DvmtInv
<1>2. CASE DvmtProcessKernel
  <2>1. /\ gms' = gms /\ code' = code /\ code \in Codes /\ dvmtPc' = "kext"
        /\ available' = available /\ asked' = asked
        /\ SizeIsDecoded
    BY <1>2 DEF DvmtProcessKernel, DvmtInv
  <2>2. SizeIsDecoded'
    <3>1. CASE UNCHANGED <<enabled, dvmt>>
      BY <2>1, <3>1 DEF SizeIsDecoded
    <3>2. CASE asked /\ ~available /\ enabled' = TRUE /\ UNCHANGED dvmt
      BY <2>1, <3>2 DEF SizeIsDecoded
    <3>3. CASE enabled' = FALSE /\ UNCHANGED dvmt
      BY <2>1, <3>3 DEF SizeIsDecoded
    <3>4. CASE /\ asked /\ enabled' = (gms >= 16)
               /\ dvmt' = IF gms < 16 \/ gms \in {32, 48, 64} THEN gms * 32
                          ELSE IF gms \in 240..254 THEN SmallSize(gms)
                          ELSE 0
      <4>1. CASE gms \in {32, 48, 64}
        <5>1. dvmt' = gms * 32 /\ dvmt' \in Nat /\ gms >= 16 /\ SizeOf(gms) = gms * 32
          BY <1>1, <3>4, <4>1 DEF SizeOf
        <5>2. QED
          BY <2>1, <3>4, <5>1 DEF SizeIsDecoded, SizeOf
      <4>2. CASE gms \in 240..254
        <5>1. gms % 16 = gms - 240
          BY <4>2
        <5>2. dvmt' = 4 * (gms - 239) /\ dvmt' \in Nat /\ gms >= 16
          BY <1>1, <3>4, <4>2, <5>1 DEF SmallSize
        <5>3. SizeOf(gms) = 4 * (gms - 239)
          BY <4>2 DEF SizeOf
        <5>4. QED
          BY <2>1, <3>4, <5>2, <5>3 DEF SizeIsDecoded, SizeOf
      <4>3. CASE gms \notin {32, 48, 64} \cup 240..254
        <5>1. dvmt' \in Nat
          BY <1>1, <3>4, <4>3
        <5>2. enabled' => gms >= 16
          BY <3>4
        <5>3. QED
          BY <2>1, <3>4, <4>3, <5>1, <5>2 DEF SizeIsDecoded
      <4>4. QED
        BY <4>1, <4>2, <4>3
    <3>5. QED
      BY <1>2, <3>1, <3>2, <3>3, <3>4 DEF DvmtProcessKernel
  <2>3. QED
    BY <2>1, <2>2 DEF DvmtInv, SizeIsRight
<1>3. CASE DvmtProcessFramebufferKext
  <2>1. /\ gms' = gms /\ enabled' = enabled /\ dvmt' = dvmt /\ dvmtPc' = "driver"
        /\ available' = available /\ asked' = asked
        /\ code \in Codes /\ gms \in GMSFields /\ SizeIsDecoded
    BY <1>3 DEF DvmtProcessFramebufferKext, DvmtInv
  <2>2. SizeIsDecoded'
    BY <2>1 DEF SizeIsDecoded
  <2>3. CASE code' = code
    BY <2>1, <2>2, <2>3 DEF DvmtInv, SizeIsRight
  <2>4. CASE enabled /\ BothSeen # {} /\ code' = Patched
    <3>1. IsPatched(Patched)
      BY <2>1, <2>4, FixPatchesFormula DEF SizeIsDecoded
    <3>2. IsPatched(code)'
      BY <2>1, <2>4, <3>1 DEF IsPatched
    <3>3. QED
      BY <2>1, <2>2, <2>4, <3>2 DEF DvmtInv, SizeIsRight
  <2>5. QED
    BY <1>3, <2>3, <2>4 DEF DvmtProcessFramebufferKext
<1>4. CASE FBMemMgr_Init
  <2>1. /\ gms' = gms /\ enabled' = enabled /\ dvmt' = dvmt /\ dvmtPc' = "done"
        /\ available' = available /\ asked' = asked
        /\ code' = code /\ gms \in GMSFields /\ SizeIsDecoded
        /\ code \in Codes \/ (enabled /\ IsPatched(code))
    BY <1>4 DEF FBMemMgr_Init, DvmtInv
  <2>2. SizeIsDecoded'
    BY <2>1 DEF SizeIsDecoded
  <2>3. CASE code \in Codes
    <3>1. memory' = (gms * 32) % 4096
      BY <1>1, <1>4, <2>3, FormulaResult DEF FBMemMgr_Init
    <3>2. gms \in 0..16 \cup {32, 48, 64} => (gms * 32) % 4096 = SizeOf(gms)
      BY <1>1 DEF SizeOf
    <3>3. SizeIsRight'
      BY <2>1, <2>3, <3>1, <3>2, NoConstant DEF SizeIsRight
    <3>4. QED
      BY <2>1, <2>2, <3>3 DEF DvmtInv
  <2>4. CASE enabled /\ IsPatched(code)
    <3>1. memory' = dvmt
      BY <1>1, <1>4, <2>1, <2>4, ConstantResult DEF FBMemMgr_Init, SizeIsDecoded
    <3>2. /\ available /\ gms \in 0..16 \cup {32, 48, 64} \cup 240..254
               => dvmt = SizeOf(gms)
          /\ asked
      BY <1>1, <2>1, <2>4 DEF SizeIsDecoded
    <3>3. SizeIsRight'
      BY <2>1, <3>1, <3>2 DEF SizeIsRight
    <3>4. QED
      BY <2>1, <2>2, <3>3 DEF DvmtInv
  <2>5. QED
    BY <2>1, <2>3, <2>4
<1>5. CASE UNCHANGED dvmtVars
  <2>1. SizeIsDecoded' /\ SizeIsRight'
    BY <1>5 DEF dvmtVars, DvmtInv, SizeIsDecoded, SizeIsRight
  <2>2. IsPatched(code) => IsPatched(code)'
    BY <1>5 DEF dvmtVars, IsPatched
  <2>3. QED
    BY <1>5, <2>1, <2>2 DEF dvmtVars, DvmtInv
<1>6. QED
  BY <1>2, <1>3, <1>4, <1>5 DEF DvmtNext

\* The driver works with the size that the firmware has pre-allocated: for code of
\* any length with the formula in any register and the two instructions in pieces,
\* and any 8-bit field but the one that the fix takes for a reserved value.  On
\* platforms other than Ice Lake it says this only if the fix is not asked for.
THEOREM SizesAreRight ==
  16 \notin GMSFields => (DvmtSpec => []SizeIsRight)
<1> SUFFICES ASSUME 16 \notin GMSFields PROVE DvmtSpec => []SizeIsRight
  OBVIOUS
<1>1. DvmtInv /\ [DvmtNext]_dvmtVars => DvmtInv'
  BY DvmtStepInv
<1>2. DvmtInv => SizeIsRight
  BY DEF DvmtInv
<1>3. QED
  BY <1>1, <1>2, DvmtInitInv, PTL DEF DvmtSpec

-----------------------------------------------------------------------------
\* Properties of connectors

Values == Nat \cup {Missing}
ConnectorRecords == [ConnectorFields -> Values]
ConnectorSets == [Indices -> ConnectorRecords]

\* Data of a connector are missing or a sequence of words.
LEMMA AllDataFacts ==
  ASSUME setup \in Machines, NEW i \in Indices
  PROVE  /\ AllData(i) = Missing \/ AllData(i) \in Seq(Nat)
         /\ setup.con[i].own \in ConnectorRecords
         /\ setup.con[i].enable \in BOOLEAN
BY MachinesAssumption, Zenon DEF MachineOK, AllData, ConnectorRecords, Values

LEMMA DivisionInNat ==
  ASSUME NEW a \in Nat, NEW b \in Nat \ {0}
  PROVE  a % b \in Nat /\ a \div b \in Nat
<1>0. b > 0
  OBVIOUS
<1>1. a % b \in 0..(b - 1)
  OBVIOUS
<1>2. a \div b \in Int
  OBVIOUS
<1>3. a \div b >= 0
  BY <1>0
<1>4. QED
  BY <1>1, <1>2, <1>3

\* A connector that is read from a string has all of its fields.
LEMMA ReadConnectorFacts ==
  ASSUME NEW w \in Seq(Nat), NEW j \in Nat, 3 * j + 3 <= Len(w)
  PROVE  ReadConnector(w, j) \in [ConnectorFields -> Nat]
<1>1. /\ w[3 * j + 1] \in Nat /\ w[3 * j + 2] \in Nat /\ w[3 * j + 3] \in Nat
  OBVIOUS
<1>2. ByteMod \in Nat \ {0}
  BY SizesAssumption
<1>3. w[3 * j + 1] % ByteMod \in Nat /\ w[3 * j + 1] \div ByteMod \in Nat
  BY <1>1, <1>2, DivisionInNat
<1>4. QED
  BY <1>1, <1>3 DEF ReadConnector, ConnectorFields

\* Machines whose connectors are described as the code reads them: it takes strings
\* of Ice Lake for shorter ones.
ReadAsWritten ==
  \A s \in Machines : s.generation = "IceLake" =>
    \A i \in Indices : s.con[i].enable => s.con[i].named = Missing /\ s.con[i].plain = Missing

\* What an enabled string describes, in the code's units.
LEMMA DescribedFacts ==
  ASSUME ReadAsWritten, setup \in Machines, NEW i \in Indices, setup.con[i].enable
  PROVE  /\ Len(Described(i)) \in Nat
         /\ AllData(i) = Missing => Len(Described(i)) = 0
         /\ AllData(i) # Missing =>
              /\ AllData(i) \in Seq(Nat) /\ Len(AllData(i)) \in Nat
              /\ Len(AllData(i)) % 3 # 0 => Len(Described(i)) = 0
              /\ Len(AllData(i)) % 3 = 0 =>
                   /\ Len(Described(i)) = Len(AllData(i)) \div 3
                   /\ \A n \in 1..Len(Described(i)) :
                        /\ Described(i)[n] = ReadConnector(AllData(i), n - 1)
                        /\ Described(i)[n] \in [ConnectorFields -> Nat]
<1>1. CASE AllData(i) = Missing
  BY <1>1 DEF Described
<1>2. CASE AllData(i) # Missing
  <2>1. setup.generation # "IceLake"
    BY <1>2 DEF ReadAsWritten, AllData
  <2>2. Words = 3
    BY <2>1 DEF Words
  <2> DEFINE w == AllData(i)
             d == Len(w) \div 3
  <2>3. w \in Seq(Nat) /\ Len(w) \in Nat /\ d \in Nat
    BY <1>2, AllDataFacts
  <2>4. CASE Len(w) % 3 # 0
    <3>1. Described(i) = <<>>
      BY <1>2, <2>2, <2>4 DEF Described
    <3>2. QED
      BY <1>2, <2>3, <2>4, <3>1
  <2>5. CASE Len(w) % 3 = 0
    <3>1. Described(i) = [n \in 1..d |-> ReadConnector(w, n - 1)]
      BY <1>2, <2>1, <2>2, <2>5 DEF Described
    <3>2. 3 * d = Len(w)
      BY <2>3, <2>5
    <3> HIDE DEF w, d
    <3>3. \A n \in 1..d : ReadConnector(w, n - 1) \in [ConnectorFields -> Nat]
      BY <2>3, <3>2, ReadConnectorFacts
    <3>4. Len(Described(i)) = d
      BY <2>3, <3>1
    <3>5. QED
      BY <1>2, <2>3, <2>5, <3>1, <3>3, <3>4 DEF w, d
  <2>6. QED
    BY <2>4, <2>5
<1>3. QED
  BY <1>1, <1>2

\* A string covers the connectors from its own one on, if it is complete and does
\* not reach beyond the array.
Covers(i, j) == i \in Describing(j)

LEMMA CoversFacts ==
  ASSUME NEW j \in Indices, NEW i, Covers(i, j)
  PROVE  /\ i \in 0..j /\ i \in Indices /\ setup.con[i].enable /\ j < i + Len(Described(i))
         /\ i + Len(Described(i)) <= MaxConnectors
BY SizesAssumption DEF Covers, Describing, Indices

LEMMA CoveredFields ==
  ASSUME ReadAsWritten, setup \in Machines, NEW j \in Indices, NEW i, Covers(i, j)
  PROVE  /\ AllData(i) # Missing /\ Len(AllData(i)) % 3 = 0
         /\ j - i + 1 \in 1..Len(Described(i))
         /\ Described(i)[j - i + 1] \in [ConnectorFields -> Nat]
<1>1. /\ i \in 0..j /\ i \in Indices /\ setup.con[i].enable /\ j < i + Len(Described(i))
      /\ i \in Nat /\ j \in Nat
  BY CoversFacts DEF Indices
<1>2. Len(Described(i)) \in Nat /\ Len(Described(i)) # 0
  <2>1. Len(Described(i)) \in Nat
    BY <1>1, DescribedFacts
  <2>2. QED
    BY <1>1, <2>1
<1>3. AllData(i) # Missing /\ Len(AllData(i)) % 3 = 0
  BY <1>1, <1>2, DescribedFacts
<1>4. j - i + 1 \in 1..Len(Described(i))
  BY <1>1, <1>2
<1>5. Described(i)[j - i + 1] \in [ConnectorFields -> Nat]
  BY <1>1, <1>3, <1>4, DescribedFacts
<1>6. QED
  BY <1>3, <1>4, <1>5

\* One round of the loop: the connector's own properties come after its string,
\* which covers it and the following ones.
LEMMA AllDataRound ==
  ASSUME ReadAsWritten, setup \in Machines, NEW p \in ConnectorSets, NEW i \in Indices,
         setup.con[i].enable, NEW j \in Indices
  PROVE  WithAllData(p, i)[j] = IF Covers(i, j) THEN Described(i)[j - i + 1] ELSE p[j]
<1> DEFINE w == AllData(i)
           count == Len(w) \div 3
<1>0. i \in Nat /\ j \in Nat /\ MaxConnectors \in Nat
  BY SizesAssumption DEF Indices
<1>1. CASE w = Missing
  <2>1. Len(Described(i)) = 0 /\ WithAllData(p, i)[j] = p[j]
    BY <1>1, DescribedFacts DEF WithAllData
  <2>2. ~Covers(i, j)
    BY <1>0, <2>1 DEF Covers, Describing
  <2>3. QED
    BY <2>1, <2>2
<1>2. CASE w # Missing /\ Len(w) % 3 # 0
  <2>1. Len(Described(i)) = 0 /\ WithAllData(p, i)[j] = p[j]
    BY <1>2, DescribedFacts DEF WithAllData
  <2>2. ~Covers(i, j)
    BY <1>0, <2>1 DEF Covers, Describing
  <2>3. QED
    BY <2>1, <2>2
<1>3. CASE w # Missing /\ Len(w) % 3 = 0
  <2>1. /\ Len(Described(i)) = count /\ count \in Nat
        /\ \A n \in 1..count : Described(i)[n] = ReadConnector(w, n - 1)
    BY <1>3, DescribedFacts
  <2>2. CASE i + count > MaxConnectors
    <3>1. WithAllData(p, i)[j] = p[j]
      BY <1>3, <2>2 DEF WithAllData
    <3>2. ~Covers(i, j)
      BY <1>0, <2>1, <2>2 DEF Covers, Describing
    <3>3. QED
      BY <3>1, <3>2
  <2>3. CASE ~(i + count > MaxConnectors)
    <3>1. WithAllData(p, i)[j] = IF j \in i..(i + count - 1) THEN ReadConnector(w, j - i)
                                 ELSE p[j]
      BY <1>3, <2>3 DEF WithAllData
    <3> HIDE DEF w, count
    <3>2. Covers(i, j) <=> j \in i..(i + count - 1)
      BY <1>0, <2>1, <2>3 DEF Covers, Describing
    <3>3. CASE j \in i..(i + count - 1)
      <4>1. j - i + 1 \in 1..count /\ (j - i + 1) - 1 = j - i
        BY <1>0, <2>1, <3>3
      <4>2. QED
        BY <2>1, <3>1, <3>2, <3>3, <4>1
    <3>4. QED
      BY <3>1, <3>2, <3>3
  <2>4. QED
    BY <2>2, <2>3
<1>4. QED
  BY <1>1, <1>2, <1>3

LEMMA AllDataTyped ==
  ASSUME setup \in Machines, NEW p \in ConnectorSets, NEW i \in Indices
  PROVE  WithAllData(p, i) \in ConnectorSets
<1> DEFINE w == AllData(i)
           count == Len(w) \div 3
<1>0. i \in Nat /\ MaxConnectors \in Nat
  BY SizesAssumption DEF Indices
<1>1. CASE w = Missing \/ Len(w) % 3 # 0 \/ i + count > MaxConnectors
  BY <1>1 DEF WithAllData
<1>2. CASE ~(w = Missing \/ Len(w) % 3 # 0 \/ i + count > MaxConnectors)
  <2>1. w \in Seq(Nat) /\ Len(w) \in Nat /\ count \in Nat /\ 3 * count = Len(w)
    BY <1>2, AllDataFacts
  <2>2. WithAllData(p, i) = [j \in Indices |-> IF j \in i..(i + count - 1)
                                              THEN ReadConnector(w, j - i) ELSE p[j]]
    BY <1>2 DEF WithAllData
  <2> HIDE DEF w, count
  <2>3. ASSUME NEW j \in Indices
        PROVE  (IF j \in i..(i + count - 1) THEN ReadConnector(w, j - i) ELSE p[j])
                 \in ConnectorRecords
    <3>1. p[j] \in ConnectorRecords
      BY DEF ConnectorSets
    <3>2. CASE j \in i..(i + count - 1)
      <4>1. j - i \in Nat /\ 3 * (j - i) + 3 <= Len(w)
        BY <1>0, <2>1, <3>2
      <4>2. ReadConnector(w, j - i) \in [ConnectorFields -> Nat]
        BY <2>1, <4>1, ReadConnectorFacts
      <4>3. QED
        BY <3>2, <4>2 DEF ConnectorRecords, Values
    <3>3. QED
      BY <3>1, <3>2
  <2>4. QED
    BY <2>2, <2>3 DEF ConnectorSets
<1>3. QED
  BY <1>1, <1>2

Own(i) == setup.con[i].own

LEMMA ConnectorRoundTyped ==
  ASSUME setup \in Machines, NEW p \in ConnectorSets, NEW i \in Indices
  PROVE  /\ WithConnector(p, i) \in ConnectorSets
         /\ setup.con[i].enable =>
              \A j \in Indices, f \in ConnectorFields :
                WithConnector(p, i)[j][f] =
                  IF j = i /\ Own(i)[f] # Missing THEN Own(i)[f]
                  ELSE WithAllData(p, i)[j][f]
<1>1. CASE ~setup.con[i].enable
  BY <1>1 DEF WithConnector
<1>2. CASE setup.con[i].enable
  <2> DEFINE q == WithAllData(p, i)
  <2>1. q \in ConnectorSets
    BY AllDataTyped
  <2>2. WithConnector(p, i) = [q EXCEPT ![i] = Override(q[i], Own(i))]
    BY <1>2 DEF WithConnector, Own
  <2>3. \A j \in Indices, f \in ConnectorFields : q[j][f] = WithAllData(p, i)[j][f]
    OBVIOUS
  <2> HIDE DEF q
  <2>4. Own(i) \in ConnectorRecords /\ q[i] \in ConnectorRecords
    BY <2>1, AllDataFacts DEF Own, ConnectorSets
  <2>5. Override(q[i], Own(i)) \in ConnectorRecords
    BY <2>4 DEF Override, ConnectorRecords
  <2>6. \A f \in ConnectorFields :
          Override(q[i], Own(i))[f] = IF Own(i)[f] = Missing THEN q[i][f] ELSE Own(i)[f]
    BY <2>4 DEF Override, ConnectorRecords
  <2>7. WithConnector(p, i) \in ConnectorSets
    BY <2>1, <2>2, <2>5 DEF ConnectorSets
  <2>8. ASSUME NEW j \in Indices, NEW f \in ConnectorFields
        PROVE  WithConnector(p, i)[j][f] =
                 IF j = i /\ Own(i)[f] # Missing THEN Own(i)[f] ELSE q[j][f]
    <3>1. WithConnector(p, i)[j] = IF j = i THEN Override(q[i], Own(i)) ELSE q[j]
      BY <2>1, <2>2 DEF ConnectorSets
    <3>2. QED
      BY <2>6, <3>1
  <2>9. QED
    BY <2>3, <2>7, <2>8
<1>3. QED
  BY <1>1, <1>2

LEMMA ConnectorRound ==
  ASSUME ReadAsWritten, setup \in Machines, NEW p \in ConnectorSets, NEW i \in Indices
  PROVE  \A j \in Indices, f \in ConnectorFields :
           WithConnector(p, i)[j][f] =
             IF j = i /\ setup.con[i].enable /\ Own(i)[f] # Missing THEN Own(i)[f]
             ELSE IF Covers(i, j) THEN Described(i)[j - i + 1][f]
             ELSE p[j][f]
<1>1. CASE ~setup.con[i].enable
  <2>1. \A j \in Indices : ~Covers(i, j)
    BY <1>1, CoversFacts
  <2>2. WithConnector(p, i) = p
    BY <1>1 DEF WithConnector
  <2>3. QED
    BY <1>1, <2>1, <2>2
<1>2. CASE setup.con[i].enable
  <2>1. \A j \in Indices :
          WithAllData(p, i)[j] = IF Covers(i, j) THEN Described(i)[j - i + 1] ELSE p[j]
    BY <1>2, AllDataRound
  <2>2. QED
    BY <1>2, <2>1, ConnectorRoundTyped
<1>3. QED
  BY <1>1, <1>2

NoConnectors == [i \in Indices |-> NoConnector]
ConnectorSteps == [n \in 1..MaxConnectors |-> [p \in ConnectorSets |-> WithConnector(p, n - 1)]]

\* The rounds of the loop, one after the other.
LEMMA ConnectorsAfterFacts ==
  ASSUME setup \in Machines
  PROVE  /\ ConnectorsAfter \in [0..MaxConnectors -> ConnectorSets]
         /\ ConnectorsAfter[0] = NoConnectors
         /\ \A n \in 1..MaxConnectors :
              ConnectorsAfter[n] = WithConnector(ConnectorsAfter[n - 1], n - 1)
<1> DEFINE Meant(f) == f = [n \in 0..MaxConnectors |->
                              IF n = 0 THEN NoConnectors ELSE WithConnector(f[n - 1], n - 1)]
<1>0. MaxConnectors \in Nat
  BY SizesAssumption
<1>1. NoConnectors \in ConnectorSets
  BY DEF NoConnectors, NoConnector, ConnectorSets, ConnectorRecords, Values
<1>2. \A n \in 1..MaxConnectors : n - 1 \in Indices
  BY <1>0 DEF Indices
<1>3. Closed(ConnectorSets, MaxConnectors, ConnectorSteps)
  <2>1. ASSUME NEW n \in 1..MaxConnectors, NEW p \in ConnectorSets
        PROVE  ConnectorSteps[n][p] \in ConnectorSets
    <3>1. WithConnector(p, n - 1) \in ConnectorSets
      BY <1>2, ConnectorRoundTyped
    <3>2. QED
      BY <3>1 DEF ConnectorSteps
  <2>2. QED
    BY <2>1 DEF Closed
<1>4. PICK g \in [0..MaxConnectors -> ConnectorSets] :
        Recurs(g, NoConnectors, MaxConnectors, ConnectorSteps)
  <2>1. \E f \in [0..MaxConnectors -> ConnectorSets] :
          Recurs(f, NoConnectors, MaxConnectors, ConnectorSteps)
    BY <1>0, <1>1, <1>3, RecursionDefined
  <2>2. QED
    BY <2>1
<1>5. ASSUME NEW n \in 1..MaxConnectors
      PROVE  g[n] = WithConnector(g[n - 1], n - 1)
  <2>1. g[n - 1] \in ConnectorSets
    BY <1>0
  <2>2. QED
    BY <1>4, <2>1 DEF Recurs, ConnectorSteps
<1>6. Meant(g)
  BY <1>4, <1>5 DEF Recurs
<1>7. Meant(CHOOSE f : Meant(f))
  <2> HIDE DEF Meant
  <2>1. QED
    BY <1>6
<1>8. Meant(ConnectorsAfter)
  BY <1>7 DEF ConnectorsAfter, NoConnectors
<1>9. ConnectorsAfter[0] = NoConnectors
  BY <1>0, <1>8
<1>10. \A n \in 1..MaxConnectors :
         ConnectorsAfter[n] = WithConnector(ConnectorsAfter[n - 1], n - 1)
  BY <1>0, <1>8
<1>11. ASSUME NEW n \in 0..MaxConnectors PROVE ConnectorsAfter[n] \in ConnectorSets
  <2> DEFINE G == {n0 \in 0..MaxConnectors : ConnectorsAfter[n0] \in ConnectorSets}
  <2>1. 0 \in G
    BY <1>0, <1>1, <1>9
  <2>2. ASSUME NEW m \in 1..MaxConnectors, m - 1 \in G PROVE m \in G
    <3>1. WithConnector(ConnectorsAfter[m - 1], m - 1) \in ConnectorSets
      BY <1>2, <2>2, ConnectorRoundTyped
    <3>2. QED
      BY <1>0, <1>10, <3>1
  <2>3. \A m \in 0..MaxConnectors : m \in G
    <3> HIDE DEF G
    <3>1. QED
      BY <1>0, <2>1, <2>2, IntervalInduction
  <2>4. QED
    BY <2>3
<1>12. DOMAIN ConnectorsAfter = 0..MaxConnectors
  BY <1>8
<1>13. ConnectorsAfter = [n \in 0..MaxConnectors |-> ConnectorsAfter[n]]
  <2> DEFINE body(f) == [n \in 0..MaxConnectors |->
                          IF n = 0 THEN NoConnectors ELSE WithConnector(f[n - 1], n - 1)]
  <2>1. ConnectorsAfter = body(ConnectorsAfter)
    BY <1>8
  <2>2. \A f : body(f) = [n \in 0..MaxConnectors |-> body(f)[n]]
    OBVIOUS
  <2> HIDE DEF body
  <2>3. QED
    BY <2>1, <2>2
<1>14. QED
  BY <1>9, <1>10, <1>11, <1>13

\* What is wanted of field f of connector j by the properties of connectors below n.
DescribingBelow(j, n) == {i \in Describing(j) : i < n}
WantedBelow(j, f, n) ==
  IF j < n /\ setup.con[j].enable /\ Own(j)[f] # Missing THEN Own(j)[f]
  ELSE IF DescribingBelow(j, n) = {} THEN Missing
  ELSE LET i == CHOOSE i \in DescribingBelow(j, n) : \A k \in DescribingBelow(j, n) : k <= i
       IN Described(i)[j - i + 1][f]

\* The loop takes the properties of connectors in order.
LEMMA WantedRound ==
  ASSUME NEW j \in Indices, NEW f \in ConnectorFields, NEW n \in 1..MaxConnectors
  PROVE  WantedBelow(j, f, n) =
           IF j = n - 1 /\ setup.con[n - 1].enable /\ Own(n - 1)[f] # Missing
           THEN Own(n - 1)[f]
           ELSE IF Covers(n - 1, j) THEN Described(n - 1)[j - (n - 1) + 1][f]
           ELSE WantedBelow(j, f, n - 1)
<1>0. j \in Nat /\ n \in Nat /\ MaxConnectors \in Nat
  BY SizesAssumption DEF Indices
<1>1. \A k \in Describing(j) : k \in 0..j
  BY DEF Describing
<1>2. CASE j = n - 1 /\ setup.con[n - 1].enable /\ Own(n - 1)[f] # Missing
  BY <1>0, <1>2 DEF WantedBelow
<1>3. CASE /\ ~(j = n - 1 /\ setup.con[n - 1].enable /\ Own(n - 1)[f] # Missing)
           /\ Covers(n - 1, j)
  <2>1. n - 1 \in DescribingBelow(j, n) /\ n - 1 <= j
    BY <1>0, <1>1, <1>3 DEF DescribingBelow, Covers
  <2>2. \A k \in DescribingBelow(j, n) : k <= n - 1
    BY <1>0, <1>1 DEF DescribingBelow
  <2>3. (CHOOSE i \in DescribingBelow(j, n) : \A k \in DescribingBelow(j, n) : k <= i) = n - 1
    <3>1. ASSUME NEW i \in DescribingBelow(j, n), \A k \in DescribingBelow(j, n) : k <= i
          PROVE  i = n - 1
      <4>1. i \in 0..j /\ i <= n - 1 /\ n - 1 <= i
        BY <1>1, <2>1, <2>2, <3>1 DEF DescribingBelow
      <4>2. QED
        BY <1>0, <4>1
    <3>2. QED
      BY <2>1, <2>2, <3>1
  <2>4. ~(j < n /\ setup.con[j].enable /\ Own(j)[f] # Missing)
    BY <1>0, <1>3, <2>1
  <2> DEFINE last == CHOOSE i \in DescribingBelow(j, n) :
                       \A k \in DescribingBelow(j, n) : k <= i
  <2>5. WantedBelow(j, f, n) = Described(last)[j - last + 1][f]
    BY <2>1, <2>4 DEF WantedBelow
  <2>6. last = n - 1
    BY <2>3
  <2> HIDE DEF last
  <2>7. QED
    BY <1>3, <2>5, <2>6
<1>4. CASE /\ ~(j = n - 1 /\ setup.con[n - 1].enable /\ Own(n - 1)[f] # Missing)
           /\ ~Covers(n - 1, j)
  <2>1. DescribingBelow(j, n) = DescribingBelow(j, n - 1)
    <3>1. ASSUME NEW k \in Describing(j) PROVE k < n <=> k < n - 1
      <4>1. k \in 0..j /\ k # n - 1
        BY <1>1, <1>4, <3>1 DEF Covers
      <4>2. QED
        BY <1>0, <4>1
    <3>2. QED
      BY <3>1 DEF DescribingBelow
  <2>2. (j < n /\ setup.con[j].enable /\ Own(j)[f] # Missing)
          <=> (j < n - 1 /\ setup.con[j].enable /\ Own(j)[f] # Missing)
    BY <1>0, <1>4
  <2>3. QED
    BY <1>4, <2>1, <2>2 DEF WantedBelow
<1>5. QED
  BY <1>2, <1>3, <1>4

\* The patches of the connectors are what the most specific properties ask for.
LEMMA ConnectorsAreAsAsked ==
  ASSUME ReadAsWritten, setup \in Machines, NEW j \in Indices, NEW f \in ConnectorFields
  PROVE  ConnectorPatches[j][f] = WantedOf(j, f)
<1> DEFINE G == {n \in 0..MaxConnectors : ConnectorsAfter[n][j][f] = WantedBelow(j, f, n)}
<1>0. j \in Nat /\ MaxConnectors \in Nat /\ j < MaxConnectors
  BY SizesAssumption DEF Indices
<1>1. 0 \in G
  <2>1. DescribingBelow(j, 0) = {}
    BY <1>0 DEF DescribingBelow, Describing
  <2>2. WantedBelow(j, f, 0) = Missing
    BY <1>0, <2>1 DEF WantedBelow
  <2>3. ConnectorsAfter[0] = NoConnectors
    BY ConnectorsAfterFacts
  <2>4. ConnectorsAfter[0][j][f] = Missing
    BY <2>3 DEF NoConnectors, NoConnector
  <2>5. QED
    BY <1>0, <2>2, <2>4
<1>2. ASSUME NEW n \in 1..MaxConnectors, n - 1 \in G PROVE n \in G
  <2>1. n - 1 \in 0..MaxConnectors /\ n - 1 \in Indices
    BY <1>0 DEF Indices
  <2>2. /\ ConnectorsAfter[n - 1] \in ConnectorSets
        /\ ConnectorsAfter[n] = WithConnector(ConnectorsAfter[n - 1], n - 1)
    BY <2>1, ConnectorsAfterFacts
  <2>3. ConnectorsAfter[n - 1][j][f] = WantedBelow(j, f, n - 1)
    BY <1>2
  <2>4. ConnectorsAfter[n][j][f] = WantedBelow(j, f, n)
    <3> DEFINE p == ConnectorsAfter[n - 1]
               i == n - 1
    <3>1. ConnectorsAfter[n][j][f] =
                IF j = i /\ setup.con[i].enable /\ Own(i)[f] # Missing THEN Own(i)[f]
                ELSE IF Covers(i, j) THEN Described(i)[j - i + 1][f]
                ELSE p[j][f]
      <4>1. p \in ConnectorSets /\ i \in Indices /\ ConnectorsAfter[n] = WithConnector(p, i)
        BY <2>1, <2>2
      <4> HIDE DEF p, i
      <4>2. QED
        BY <4>1, ConnectorRound
    <3>2. WantedBelow(j, f, n) =
           IF j = n - 1 /\ setup.con[n - 1].enable /\ Own(n - 1)[f] # Missing
           THEN Own(n - 1)[f]
           ELSE IF Covers(n - 1, j) THEN Described(n - 1)[j - (n - 1) + 1][f]
           ELSE WantedBelow(j, f, n - 1)
      BY WantedRound
    <3>3. QED
      BY <2>3, <3>1, <3>2
  <2>5. QED
    BY <1>0, <2>4
<1>3. \A n \in 0..MaxConnectors : n \in G
  <2> HIDE DEF G
  <2>1. QED
    BY <1>0, <1>1, <1>2, IntervalInduction
<1>4. ConnectorPatches[j][f] = WantedBelow(j, f, MaxConnectors)
  BY <1>0, <1>3 DEF ConnectorPatches
<1>5. DescribingBelow(j, MaxConnectors) = Describing(j)
  BY <1>0 DEF DescribingBelow, Describing
<1>6. WantedBelow(j, f, MaxConnectors) = WantedOf(j, f)
  BY <1>0, <1>5 DEF WantedBelow, WantedOf, Own
<1>7. QED
  BY <1>4, <1>6

LEMMA ConnectorsTyped ==
  ASSUME setup \in Machines
  PROVE  ConnectorPatches \in ConnectorSets
<1>1. MaxConnectors \in 0..MaxConnectors
  BY SizesAssumption
<1>2. QED
  BY <1>1, ConnectorsAfterFacts DEF ConnectorPatches

\* Some connector is asked to be changed just if an enabled one is.
LEMMA SomeConnector ==
  ASSUME ReadAsWritten, setup \in Machines
  PROVE  (\E i \in Indices : setup.con[i].enable /\ ConnectorPatches[i] # NoConnector)
           <=> (\E j \in Indices, f \in ConnectorFields : WantedOf(j, f) # Missing)
<1>1. ASSUME NEW i \in Indices, ConnectorPatches[i] # NoConnector
      PROVE  \E j \in Indices, f \in ConnectorFields : WantedOf(j, f) # Missing
  <2>1. ConnectorPatches[i] \in ConnectorRecords
    BY ConnectorsTyped DEF ConnectorSets
  <2>2. PICK f \in ConnectorFields : ConnectorPatches[i][f] # Missing
    BY <1>1, <2>1 DEF NoConnector, ConnectorRecords
  <2>3. WantedOf(i, f) # Missing
    BY <2>2, ConnectorsAreAsAsked
  <2>4. QED
    BY <2>3
<1>2. ASSUME NEW j \in Indices, NEW f \in ConnectorFields, WantedOf(j, f) # Missing
      PROVE  \E i \in Indices : setup.con[i].enable /\ ConnectorPatches[i] # NoConnector
  <2>1. CASE setup.con[j].enable /\ setup.con[j].own[f] # Missing
    <3>1. ConnectorPatches[j][f] # Missing
      BY <1>2, ConnectorsAreAsAsked
    <3>2. ConnectorPatches[j] # NoConnector
      BY <3>1 DEF NoConnector
    <3>3. QED
      BY <2>1, <3>2
  <2>2. CASE ~(setup.con[j].enable /\ setup.con[j].own[f] # Missing)
    <3>1. PICK i \in Describing(j) : TRUE
      BY <1>2, <2>2 DEF WantedOf
    <3>2. /\ i \in 0..j /\ i \in Indices /\ setup.con[i].enable /\ j < i + Len(Described(i))
          /\ i + Len(Described(i)) <= MaxConnectors /\ i \in Nat /\ j \in Nat
      BY <3>1, CoversFacts DEF Covers, Indices
    <3>3. i < i + Len(Described(i))
      <4>1. Len(Described(i)) \in Nat
        BY <3>2, DescribedFacts
      <4>2. QED
        BY <3>2, <4>1
    <3>4. Covers(i, i)
      BY <3>2, <3>3 DEF Covers, Describing
    <3>5. \A k \in Describing(i) : k \in 0..i
      BY DEF Describing
    <3>6. (CHOOSE k \in Describing(i) : \A m \in Describing(i) : m <= k) = i
      <4>1. ASSUME NEW k \in Describing(i), \A m \in Describing(i) : m <= k
            PROVE  k = i
        <5>1. k \in 0..i /\ i <= k
          BY <3>4, <3>5, <4>1 DEF Covers
        <5>2. QED
          BY <3>2, <5>1
      <4>2. \A m \in Describing(i) : m <= i
        BY <3>2, <3>5
      <4>3. QED
        BY <3>4, <4>1, <4>2 DEF Covers
    <3>7. Described(i)[i - i + 1][f] \in Nat
      <4>1. Described(i)[i - i + 1] \in [ConnectorFields -> Nat]
        BY <3>2, <3>4, CoveredFields
      <4>2. QED
        BY <4>1
    <3>8. Describing(i) # {}
      BY <3>4 DEF Covers
    <3>9. WantedOf(i, f) # Missing
      <4> DEFINE last == CHOOSE k \in Describing(i) : \A m \in Describing(i) : m <= k
      <4>1. WantedOf(i, f) = IF setup.con[i].enable /\ setup.con[i].own[f] # Missing
                             THEN setup.con[i].own[f] ELSE Described(last)[i - last + 1][f]
        BY <3>8 DEF WantedOf
      <4>2. last = i
        BY <3>6
      <4> HIDE DEF last
      <4>3. QED
        BY <3>7, <4>1, <4>2, SizesAssumption
    <3>10. ConnectorPatches[i][f] # Missing
      BY <3>2, <3>9, ConnectorsAreAsAsked
    <3>11. ConnectorPatches[i] # NoConnector
      BY <3>10 DEF NoConnector
    <3>12. QED
      BY <3>2, <3>11
  <2>3. QED
    BY <2>1, <2>2
<1>3. QED
  BY <1>1, <1>2

-----------------------------------------------------------------------------
\* Properties of binary patches

SomeWords == Seq(Nat) \cup {Missing}
BinaryRecords == {r \in [number : Nat, id : Nat, find : SomeWords, replace : SomeWords, count : Nat] :
                    r.find = Missing <=> r.replace = Missing}

\* A list with one more entry.
LEMMA LongerList ==
  ASSUME NEW S, NEW s \in Seq(S), NEW x \in S
  PROVE  /\ Append(s, x) \in Seq(S) /\ Append(s, x) # <<>>
         /\ Len(Append(s, x)) = Len(s) + 1
         /\ \A i \in 1..Len(s) : Append(s, x)[i] = s[i]
         /\ Append(s, x)[Len(s) + 1] = x
OBVIOUS

LEMMA BinaryPatchTyped ==
  ASSUME setup \in Machines, NEW n \in 1..Len(setup.patch), Complete(n)
  PROVE  /\ BinaryPatch(n) \in BinaryRecords
         /\ BinaryPatch(n).find # Missing /\ BinaryPatch(n).replace # Missing
<1>1. /\ n \in DOMAIN setup.patch /\ n \in Nat
      /\ setup.reported \in Nat
      /\ setup.patch[n].id \in Nat \cup {Missing}
      /\ setup.patch[n].find \in Seq(Nat) /\ setup.patch[n].find # Missing
      /\ setup.patch[n].replace \in Seq(Nat) /\ setup.patch[n].replace # Missing
      /\ setup.patch[n].count \in Nat
  <2>1. MachineOK(setup)
    BY MachinesAssumption
  <2>2. n \in Nat
    BY <2>1 DEF MachineOK
  <2>3. QED
    BY <2>1, <2>2 DEF MachineOK, Complete
<1>2. BinaryPatch(n) \in [number : Nat, id : Nat, find : SomeWords, replace : SomeWords, count : Nat]
  BY <1>1 DEF BinaryPatch, SomeWords
<1>3. QED
  BY <1>1, <1>2 DEF BinaryPatch, BinaryRecords

PatchSteps == [n \in 1..Len(setup.patch) |->
                 [kept \in Seq(BinaryRecords) |-> WithListed(kept, n)]]

LEMMA PatchRound ==
  ASSUME setup \in Machines, NEW kept \in Seq(BinaryRecords), NEW n \in 1..Len(setup.patch)
  PROVE  /\ WithListed(kept, n) \in Seq(BinaryRecords)
         /\ WithListed(kept, n) = <<>> <=> kept = <<>> /\ ~(n \in Listed /\ Complete(n))
<1>1. CASE n \in Listed /\ Complete(n)
  <2>1. BinaryPatch(n) \in BinaryRecords
    BY <1>1, BinaryPatchTyped
  <2>2. WithListed(kept, n) = Append(kept, BinaryPatch(n))
    BY <1>1 DEF WithListed
  <2>3. QED
    BY <1>1, <2>1, <2>2, LongerList
<1>2. CASE ~(n \in Listed /\ Complete(n))
  BY <1>2 DEF WithListed
<1>3. QED
  BY <1>1, <1>2

LEMMA PatchesAfterFacts ==
  ASSUME setup \in Machines
  PROVE  /\ \A n \in 0..Len(setup.patch) : PatchesAfter[n] \in Seq(BinaryRecords)
         /\ PatchesAfter[0] = <<>>
         /\ \A n \in 1..Len(setup.patch) : PatchesAfter[n] = WithListed(PatchesAfter[n - 1], n)
<1> DEFINE N == Len(setup.patch)
           Meant(f) == f = [n \in 0..N |-> IF n = 0 THEN <<>> ELSE WithListed(f[n - 1], n)]
<1>0. N \in Nat
  BY MachinesAssumption DEF MachineOK
<1>1. <<>> \in Seq(BinaryRecords)
  OBVIOUS
<1>2. Closed(Seq(BinaryRecords), N, PatchSteps)
  <2>1. ASSUME NEW n \in 1..N, NEW kept \in Seq(BinaryRecords)
        PROVE  PatchSteps[n][kept] \in Seq(BinaryRecords)
    BY PatchRound DEF PatchSteps
  <2> HIDE DEF N
  <2>2. QED
    BY <2>1 DEF Closed
<1>3. PICK g \in [0..N -> Seq(BinaryRecords)] : Recurs(g, <<>>, N, PatchSteps)
  <2> HIDE DEF N
  <2>1. \E f \in [0..N -> Seq(BinaryRecords)] : Recurs(f, <<>>, N, PatchSteps)
    BY <1>0, <1>1, <1>2, RecursionDefined
  <2>2. QED
    BY <2>1
<1>4. ASSUME NEW n \in 1..N PROVE g[n] = WithListed(g[n - 1], n)
  <2>1. g[n - 1] \in Seq(BinaryRecords)
    <3> HIDE DEF N
    <3>1. QED
      BY <1>0
  <2>2. QED
    BY <1>3, <2>1 DEF Recurs, PatchSteps
<1>5. Meant(g)
  BY <1>3, <1>4 DEF Recurs
<1>6. Meant(CHOOSE f : Meant(f))
  <2> HIDE DEF Meant
  <2>1. QED
    BY <1>5
<1>7. Meant(PatchesAfter)
  BY <1>6 DEF PatchesAfter
<1>8. PatchesAfter[0] = <<>> /\ \A n \in 1..N : PatchesAfter[n] = WithListed(PatchesAfter[n - 1], n)
  <2> HIDE DEF N
  <2>1. PatchesAfter[0] = <<>>
    BY <1>0, <1>7
  <2>2. ASSUME NEW n \in 1..N PROVE PatchesAfter[n] = WithListed(PatchesAfter[n - 1], n)
    BY <1>0, <1>7
  <2>3. QED
    BY <2>1, <2>2
<1>9. \A n \in 0..N : PatchesAfter[n] \in Seq(BinaryRecords)
  <2> DEFINE G == {n \in 0..N : PatchesAfter[n] \in Seq(BinaryRecords)}
  <2>1. 0 \in G
    <3>1. PatchesAfter[0] \in Seq(BinaryRecords)
      BY <1>1, <1>8
    <3> HIDE DEF N
    <3>2. QED
      BY <1>0, <3>1
  <2>2. ASSUME NEW n \in 1..N, n - 1 \in G PROVE n \in G
    <3>1. WithListed(PatchesAfter[n - 1], n) \in Seq(BinaryRecords)
      BY <2>2, PatchRound
    <3>2. QED
      BY <1>0, <1>8, <3>1
  <2>3. \A n \in 0..N : n \in G
    <3> HIDE DEF G, N
    <3>1. QED
      BY <1>0, <2>1, <2>2, IntervalInduction
  <2>4. QED
    BY <2>3
<1>10. QED
  BY <1>8, <1>9

\* Binary patches remain just if one of those in the list is complete.
LEMMA SomePatch ==
  ASSUME setup \in Machines
  PROVE  /\ BinaryPatches \in Seq(BinaryRecords)
         /\ BinaryPatches # <<>> <=> \E n \in Listed : Complete(n)
<1> DEFINE N == Len(setup.patch)
           Some(n) == \E m \in 1..n : m \in Listed /\ Complete(m)
           G == {n \in 0..N : PatchesAfter[n] # <<>> <=> Some(n)}
<1>0. N \in Nat /\ DOMAIN setup.patch = 1..N
  BY MachinesAssumption DEF MachineOK
<1>1. 0 \in G
  BY <1>0, PatchesAfterFacts
<1>2. ASSUME NEW n \in 1..N, n - 1 \in G PROVE n \in G
  <2>1. n - 1 \in 0..N
    BY <1>0
  <2>2. PatchesAfter[n - 1] \in Seq(BinaryRecords)
    BY <2>1, PatchesAfterFacts
  <2>3. PatchesAfter[n] # <<>> <=> PatchesAfter[n - 1] # <<>> \/ (n \in Listed /\ Complete(n))
    BY <2>2, PatchesAfterFacts, PatchRound
  <2>4. 1..n = 1..(n - 1) \cup {n}
    BY <1>0
  <2>5. Some(n) <=> Some(n - 1) \/ (n \in Listed /\ Complete(n))
    BY <2>4
  <2>6. QED
    BY <1>0, <1>2, <2>3, <2>5
<1>3. \A n \in 0..N : n \in G
  <2> HIDE DEF G, N
  <2>1. QED
    BY <1>0, <1>1, <1>2, IntervalInduction
<1>4. BinaryPatches # <<>> <=> Some(N)
  BY <1>0, <1>3 DEF BinaryPatches
<1>5. Some(N) <=> \E n \in Listed : Complete(n)
  BY <1>0 DEF Listed
<1>6. BinaryPatches \in Seq(BinaryRecords)
  BY <1>0, PatchesAfterFacts DEF BinaryPatches
<1>7. QED
  BY <1>4, <1>5, <1>6

-----------------------------------------------------------------------------
\* Properties of frames

Lists == [1..Len(setup.table) -> Nat]

LEMMA ListFacts ==
  ASSUME setup \in Machines
  PROVE  /\ Len(setup.table) \in Nat /\ setup.table \in Lists
         /\ \A t \in Lists : DOMAIN t = 1..Len(setup.table) /\ Len(t) = Len(setup.table)
<1>1. setup.table \in Seq(Nat)
  BY MachinesAssumption DEF MachineOK
<1>2. Len(setup.table) \in Nat /\ setup.table \in Lists
  BY <1>1 DEF Lists
<1>3. ASSUME NEW t \in Lists PROVE DOMAIN t = 1..Len(setup.table) /\ Len(t) = Len(setup.table)
  BY <1>2 DEF Lists
<1>4. QED
  BY <1>2, <1>3

\* The word found is the first one.
FirstPlace(t, id, p) ==
  /\ p \in 1..Len(setup.table) /\ p <= Page /\ t[p] = id
  /\ \A q \in 1..Len(setup.table) : q <= Page /\ t[q] = id => p <= q

LEMMA FindFacts ==
  ASSUME setup \in Machines, NEW t \in Lists, NEW id
  PROVE  \/ /\ FindFramebufferId(t, id) = 0
            /\ \A q \in 1..Len(setup.table) : q <= Page => t[q] # id
         \/ FirstPlace(t, id, FindFramebufferId(t, id))
<1> DEFINE found == {p \in DOMAIN t : p <= Page /\ t[p] = id}
<1>0. Len(setup.table) \in Nat /\ DOMAIN t = 1..Len(setup.table)
  BY ListFacts
<1>1. CASE found = {}
  BY <1>0, <1>1 DEF FindFramebufferId
<1>2. CASE found # {}
  <2>1. found \in SUBSET Nat
    BY <1>0
  <2>2. \E p \in found : \A q \in found : p <= q
    <3> HIDE DEF found
    <3>1. QED
      BY <1>2, <2>1, LeastElement
  <2>3. FindFramebufferId(t, id) = CHOOSE p \in found : \A q \in found : p <= q
    BY <1>2 DEF FindFramebufferId
  <2>4. /\ FindFramebufferId(t, id) \in found
        /\ \A q \in found : FindFramebufferId(t, id) <= q
    <3> HIDE DEF found
    <3>1. QED
      BY <2>2, <2>3
  <2>5. QED
    BY <1>0, <2>4 DEF FirstPlace
<1>3. QED
  BY <1>1, <1>2

LEMMA FirstPlaceUnique ==
  ASSUME setup \in Machines, NEW t \in Lists, NEW id, NEW p, FirstPlace(t, id, p)
  PROVE  FindFramebufferId(t, id) = p
<1>0. Len(setup.table) \in Nat
  BY ListFacts
<1>1. p \in 1..Len(setup.table) /\ p <= Page /\ t[p] = id
  BY DEF FirstPlace
<1>2. FirstPlace(t, id, FindFramebufferId(t, id))
  BY <1>1, FindFacts
<1>3. p <= FindFramebufferId(t, id) /\ FindFramebufferId(t, id) <= p
  BY <1>1, <1>2 DEF FirstPlace
<1>4. QED
  BY <1>0, <1>1, <1>2, <1>3 DEF FirstPlace

\* Lists that have an id at the same places
SamePlaces(t, u, ids) ==
  \A q \in 1..Len(setup.table), id \in ids : t[q] = id <=> u[q] = id

LEMMA SameFound ==
  ASSUME setup \in Machines, NEW t \in Lists, NEW u \in Lists, NEW ids, SamePlaces(t, u, ids),
         NEW id \in ids
  PROVE  /\ FindFramebufferId(t, id) = FindFramebufferId(u, id)
         /\ Frames(t, id) = Frames(u, id)
<1>1. DOMAIN t = 1..Len(setup.table) /\ DOMAIN u = 1..Len(setup.table)
  BY ListFacts
<1> DEFINE places(l) == {p \in DOMAIN l : p <= Page /\ l[p] = id}
           first(found) == IF found = {} THEN 0 ELSE CHOOSE p \in found : \A q \in found : p <= q
<1>2. places(t) = places(u)
  BY <1>1 DEF SamePlaces
<1>3. FindFramebufferId(t, id) = FindFramebufferId(u, id)
  <2>1. /\ FindFramebufferId(t, id) = first(places(t))
        /\ FindFramebufferId(u, id) = first(places(u))
    BY DEF FindFramebufferId
  <2> HIDE DEF first, places
  <2>2. QED
    BY <1>2, <2>1
<1>4. QED
  BY <1>3 DEF Frames

LEMMA FrameSizeFacts ==
  FrameSize \in Nat /\ 0 < FrameSize /\ FrameConnectors \in Nat /\ MaxConnectors \in Nat
BY SizesAssumption DEF FrameSize

LEMMA Multiples ==
  ASSUME NEW s \in Nat, NEW a \in Nat, NEW b \in Nat, a < b
  PROVE  s * a + s <= s * b
<1>1. PICK d \in Nat : b = a + 1 + d
  <2>1. b - a - 1 \in Nat /\ b = a + 1 + (b - a - 1)
    OBVIOUS
  <2>2. QED
    BY <2>1
<1>2. s * b = s * a + s + s * d
  BY <1>1
<1>3. s * d >= 0
  OBVIOUS
<1>4. s * a \in Nat /\ s * d \in Nat
  OBVIOUS
<1>5. QED
  BY <1>2, <1>3, <1>4

SandyPlaces(id) == {n \in DOMAIN setup.sandy : setup.sandy[n] = id}
SandyStart(n) == 1 + FrameSize * (n - 1)

LEMMA SandyFacts ==
  ASSUME setup \in Machines, NEW id
  PROVE  \A n \in SandyPlaces(id) : n \in Nat \ {0} /\ n <= Len(setup.sandy)
BY MachinesAssumption DEF MachineOK, SandyPlaces

LEMMA FramesShape ==
  ASSUME setup \in Machines, NEW t \in Lists, NEW id
  PROVE  /\ setup.generation = "SandyBridge" =>
              Frames(t, id) = {SandyStart(n) : n \in SandyPlaces(id)}
         /\ setup.generation # "SandyBridge" =>
              Frames(t, id) = {FindFramebufferId(t, id)} \ {0}
BY DEF Frames, SandyStart, SandyPlaces

\* Frames begin somewhere, and do not overlap.
LEMMA FramesApart ==
  ASSUME setup \in Machines, NEW t \in Lists, NEW id
  PROVE  /\ Frames(t, id) \in SUBSET (Nat \ {0})
         /\ \A r \in Frames(t, id), s \in Frames(t, id),
               n \in 0..(FrameSize - 1), o \in 0..(FrameSize - 1) :
              r + n = s + o => r = s /\ n = o
<1>1. CASE setup.generation = "SandyBridge"
  <2>1. Frames(t, id) = {SandyStart(n) : n \in SandyPlaces(id)}
    BY <1>1, FramesShape
  <2>2. \A n \in SandyPlaces(id) : SandyStart(n) \in Nat \ {0}
    BY SandyFacts, FrameSizeFacts DEF SandyStart
  <2>3. ASSUME NEW a \in SandyPlaces(id), NEW b \in SandyPlaces(id),
               NEW n \in 0..(FrameSize - 1), NEW o \in 0..(FrameSize - 1),
               SandyStart(a) + n = SandyStart(b) + o
        PROVE  a = b
    <3>0. a \in Nat \ {0} /\ b \in Nat \ {0} /\ FrameSize \in Nat
      BY SandyFacts, FrameSizeFacts
    <3> DEFINE fa == FrameSize * (a - 1)
               fb == FrameSize * (b - 1)
    <3>1. fa \in Nat /\ fb \in Nat
      BY <3>0
    <3>2. 1 + fa + n = 1 + fb + o
      BY <2>3 DEF SandyStart
    <3>3. CASE a < b
      <4>1. fa + FrameSize <= fb
        BY <3>0, <3>3, Multiples
      <4> HIDE DEF fa, fb
      <4>2. QED
        BY <3>0, <3>1, <3>2, <4>1
    <3>4. CASE b < a
      <4>1. fb + FrameSize <= fa
        BY <3>0, <3>4, Multiples
      <4> HIDE DEF fa, fb
      <4>2. QED
        BY <3>0, <3>1, <3>2, <4>1
    <3>5. QED
      BY <3>0, <3>3, <3>4
  <2>4. ASSUME NEW r \in Frames(t, id), NEW s \in Frames(t, id),
               NEW n \in 0..(FrameSize - 1), NEW o \in 0..(FrameSize - 1), r + n = s + o
        PROVE  r = s /\ n = o
    <3>1. PICK a \in SandyPlaces(id) : r = SandyStart(a)
      BY <2>1
    <3>2. PICK b \in SandyPlaces(id) : s = SandyStart(b)
      BY <2>1
    <3>3. r = s
      BY <2>3, <2>4, <3>1, <3>2
    <3>4. r \in Nat
      BY <2>2, <3>1
    <3>5. QED
      BY <2>4, <3>3, <3>4, FrameSizeFacts
  <2>5. QED
    BY <2>1, <2>2, <2>4
<1>2. CASE setup.generation # "SandyBridge"
  <2>1. Frames(t, id) = {FindFramebufferId(t, id)} \ {0}
    BY <1>2, FramesShape
  <2>2. FindFramebufferId(t, id) \in Nat
    BY FindFacts, ListFacts DEF FirstPlace
  <2>3. QED
    BY <2>1, <2>2, FrameSizeFacts
<1>3. QED
  BY <1>1, <1>2

\* Those of the driver's own list lie wholly in it.
LEMMA FramesLieInside ==
  ASSUME setup \in Machines, NEW s \in Frames(setup.table, Target), NEW o \in 0..(FrameSize - 1)
  PROVE  s + o \in 1..Len(setup.table)
<1>0. /\ MachineOK(setup) /\ setup.table \in Lists /\ Len(setup.table) \in Nat
      /\ FrameSize \in Nat
  BY MachinesAssumption, ListFacts, FrameSizeFacts
<1>1. CASE setup.generation = "SandyBridge"
  <2>1. PICK n \in SandyPlaces(Target) : s = SandyStart(n)
    BY <1>0, <1>1, FramesShape
  <2>2. n \in Nat \ {0} /\ n <= Len(setup.sandy) /\ Len(setup.sandy) \in Nat
    BY <1>0, SandyFacts DEF MachineOK
  <2>3. FrameSize * Len(setup.sandy) <= Len(setup.table)
    BY <1>0, <1>1 DEF MachineOK, FramesInside
  <2> DEFINE all == FrameSize * Len(setup.sandy)
             before == FrameSize * (n - 1)
  <2>4. before + FrameSize <= all
    BY <1>0, <2>2, Multiples
  <2>5. before \in Nat /\ all \in Nat /\ s = 1 + before
    BY <1>0, <2>1, <2>2 DEF SandyStart
  <2> HIDE DEF before, all
  <2>6. all <= Len(setup.table)
    BY <2>3 DEF all
  <2>7. QED
    BY <1>0, <2>4, <2>5, <2>6
<1>2. CASE setup.generation # "SandyBridge"
  <2>1. s = FindFramebufferId(setup.table, Target) /\ s # 0
    BY <1>0, <1>2, FramesShape
  <2>2. s \in 1..Len(setup.table) /\ s <= Page /\ setup.table[s] = TargetOf(setup)
    BY <1>0, <2>1, FindFacts DEF FirstPlace, Target
  <2>3. s + FrameSize - 1 <= Len(setup.table)
    BY <1>0, <1>2, <2>2 DEF MachineOK, FramesInside
  <2>4. QED
    BY <1>0, <2>2, <2>3
<1>3. QED
  BY <1>1, <1>2

\* Words of frames, and where they are in theirs
LEMMA FrameWordsFacts ==
  ASSUME setup \in Machines, NEW t \in Lists, NEW id
  PROVE  /\ \A s \in Frames(t, id), o \in 0..(FrameSize - 1) :
              /\ s + o \in FrameWords(Frames(t, id))
              /\ OffsetIn(Frames(t, id), s + o) = o
         /\ \A p \in FrameWords(Frames(t, id)) :
              \E s \in Frames(t, id), o \in 0..(FrameSize - 1) : p = s + o
<1> DEFINE starts == Frames(t, id)
<1>0. /\ FrameSize \in Nat /\ starts \in SUBSET (Nat \ {0})
      /\ \A r \in starts, s \in starts, n \in 0..(FrameSize - 1), o \in 0..(FrameSize - 1) :
              r + n = s + o => r = s /\ n = o
  BY FramesApart, FrameSizeFacts
<1> HIDE DEF starts
<1>1. ASSUME NEW s \in starts, NEW o \in 0..(FrameSize - 1)
      PROVE  s + o \in FrameWords(starts) /\ OffsetIn(starts, s + o) = o
  <2>1. s + o \in s..(s + FrameSize - 1)
    BY <1>0
  <2>2. s + o \in FrameWords(starts)
    BY <2>1 DEF FrameWords
  <2>3. ASSUME NEW r \in starts, s + o \in r..(r + FrameSize - 1)
        PROVE  r = s
    <3>1. s + o - r \in 0..(FrameSize - 1) /\ r + (s + o - r) = s + o
      BY <1>0, <2>3
    <3>2. QED
      BY <1>0, <3>1
  <2>4. (CHOOSE r \in starts : s + o \in r..(r + FrameSize - 1)) = s
    BY <2>1, <2>3
  <2>5. OffsetIn(starts, s + o) = (s + o) - s
    BY <2>4 DEF OffsetIn
  <2>6. QED
    BY <1>0, <2>2, <2>5
<1>2. ASSUME NEW p \in FrameWords(starts)
      PROVE  \E s \in starts, o \in 0..(FrameSize - 1) : p = s + o
  <2>1. PICK s \in starts : p \in s..(s + FrameSize - 1)
    BY <1>2 DEF FrameWords
  <2>2. p - s \in 0..(FrameSize - 1) /\ p = s + (p - s)
    BY <1>0, <2>1
  <2>3. QED
    BY <2>2
<1>3. QED
  BY <1>1, <1>2 DEF starts

-----------------------------------------------------------------------------
\* Properties of the semantic patches

\* The fields and connectors that are to be patched, as types go
DecidedTyped == fields \in [Fields -> Values] /\ connectors \in ConnectorSets

FieldKnown(f) == f \in FieldsOf(setup.generation)
ConnectorKnown(j, f) == j \in 0..(FrameConnectors - 1) /\ f \in ConnectorFields

LEMMA FieldFacts ==
  /\ \A f \in Fields : FieldOffset[f] \in 1..4
  /\ \A f \in Fields, g \in Fields : FieldOffset[f] = FieldOffset[g] => f = g
  /\ FieldsOf(setup.generation) \subseteq Fields
BY DEF Fields, FieldsOf, FieldOffset

LEMMA OffsetFacts ==
  ASSUME NEW j \in Nat, NEW f \in ConnectorFields, NEW k \in Nat, NEW g \in ConnectorFields
  PROVE  /\ ConnectorOffset(j, f) \in Nat /\ ConnectorOffset(j, f) >= 5
         /\ ConnectorOffset(j, f) <= 5 + 4 * j + 3
         /\ ConnectorOffset(j, f) = ConnectorOffset(k, g) => j = k /\ f = g
<1> DEFINE place == [index |-> 0, busid |-> 1, type |-> 2, flags |-> 3]
<1>1. place[f] \in 0..3 /\ place[g] \in 0..3 /\ (place[f] = place[g] => f = g)
  BY DEF ConnectorFields
<1>2. /\ ConnectorOffset(j, f) = 5 + 4 * j + place[f]
      /\ ConnectorOffset(k, g) = 5 + 4 * k + place[g]
  BY DEF ConnectorOffset
<1> HIDE DEF place
<1>3. QED
  BY <1>1, <1>2

FieldValues(o) == {fields[f] : f \in {f \in FieldsOf(setup.generation) : FieldOffset[f] = o}}
ConnectorValues(o) ==
  UNION {{connectors[j][f] : f \in {f \in ConnectorFields : ConnectorOffset(j, f) = o}}
         : j \in 0..(FrameConnectors - 1)}

LEMMA PatchedWordIs ==
  ASSUME NEW o
  PROVE  PatchedWord(o) = LET values == FieldValues(o) \cup ConnectorValues(o)
                          IN IF values = {} THEN Missing ELSE CHOOSE v \in values : TRUE
BY DEF PatchedWord, FieldValues, ConnectorValues

LEMMA OneValue ==
  ASSUME NEW o, NEW v, FieldValues(o) \cup ConnectorValues(o) = {v}
  PROVE  PatchedWord(o) = v
<1> DEFINE values == FieldValues(o) \cup ConnectorValues(o)
<1>1. PatchedWord(o) = IF values = {} THEN Missing ELSE CHOOSE w \in values : TRUE
  BY PatchedWordIs
<1>2. values = {v}
  OBVIOUS
<1> HIDE DEF values
<1>3. QED
  BY <1>1, <1>2

\* The word of a field is what the field is to be,
LEMMA FieldWord ==
  ASSUME NEW f, FieldKnown(f)
  PROVE  PatchedWord(FieldOffset[f]) = fields[f]
<1>1. f \in Fields /\ FieldOffset[f] \in 1..4
  BY FieldFacts DEF FieldKnown
<1>2. {g \in FieldsOf(setup.generation) : FieldOffset[g] = FieldOffset[f]} = {f}
  BY <1>1, FieldFacts DEF FieldKnown
<1>3. FieldValues(FieldOffset[f]) = {fields[f]}
  BY <1>2 DEF FieldValues
<1>4. ConnectorValues(FieldOffset[f]) = {}
  <2>1. ASSUME NEW j \in 0..(FrameConnectors - 1), NEW g \in ConnectorFields
        PROVE  ConnectorOffset(j, g) # FieldOffset[f]
    <3>1. j \in Nat
      BY FrameSizeFacts
    <3>2. ConnectorOffset(j, g) \in Nat /\ ConnectorOffset(j, g) >= 5
      BY <3>1, OffsetFacts
    <3>3. QED
      BY <1>1, <3>2
  <2>2. QED
    BY <2>1 DEF ConnectorValues
<1>5. QED
  BY <1>3, <1>4, OneValue

\* that of a connector is what it is to be,
LEMMA ConnectorWord ==
  ASSUME NEW j, NEW f, ConnectorKnown(j, f)
  PROVE  /\ PatchedWord(ConnectorOffset(j, f)) = connectors[j][f]
         /\ \A g \in Fields : FieldOffset[g] # ConnectorOffset(j, f)
         /\ ConnectorOffset(j, f) \in 5..(FrameSize - 1)
<1> DEFINE o == ConnectorOffset(j, f)
<1>1. /\ j \in 0..(FrameConnectors - 1) /\ f \in ConnectorFields /\ j \in Nat
      /\ o \in Nat /\ o >= 5 /\ o <= 5 + 4 * j + 3
  BY FrameSizeFacts, OffsetFacts DEF ConnectorKnown
<1>2. o \in 5..(FrameSize - 1)
  BY <1>1, FrameSizeFacts DEF FrameSize
<1>3. \A g \in Fields : FieldOffset[g] # o
  <2> HIDE DEF o
  <2>1. QED
    BY <1>1, FieldFacts
<1>4. FieldValues(o) = {}
  BY <1>3, FieldFacts DEF FieldValues
<1>5. \A k \in 0..(FrameConnectors - 1), g \in ConnectorFields :
        ConnectorOffset(k, g) = o <=> k = j /\ g = f
  <2>1. ASSUME NEW k \in 0..(FrameConnectors - 1), NEW g \in ConnectorFields
        PROVE  ConnectorOffset(k, g) = o <=> k = j /\ g = f
    <3>1. k \in Nat
      BY FrameSizeFacts
    <3>2. QED
      BY <1>1, <3>1, OffsetFacts
  <2>2. QED
    BY <2>1
<1>6. ConnectorValues(o) = {connectors[j][f]}
  <2> HIDE DEF o
  <2>1. \A v : v \in ConnectorValues(o) <=>
                 \E k \in 0..(FrameConnectors - 1), g \in ConnectorFields :
                   ConnectorOffset(k, g) = o /\ v = connectors[k][g]
    BY DEF ConnectorValues
  <2>2. QED
    BY <1>1, <1>5, <2>1
<1>7. FieldValues(o) \cup ConnectorValues(o) = {connectors[j][f]}
  BY <1>4, <1>6
<1>8. QED
  BY <1>2, <1>3, <1>7, OneValue

\* and any other one stays.
LEMMA NoWord ==
  ASSUME NEW o,
         \A f \in FieldsOf(setup.generation) : FieldOffset[f] # o,
         \A j \in 0..(FrameConnectors - 1), f \in ConnectorFields : ConnectorOffset(j, f) # o
  PROVE  PatchedWord(o) = Missing
<1>1. FieldValues(o) \cup ConnectorValues(o) = {}
  BY DEF FieldValues, ConnectorValues
<1> DEFINE values == FieldValues(o) \cup ConnectorValues(o)
<1>2. PatchedWord(o) = IF values = {} THEN Missing ELSE CHOOSE w \in values : TRUE
  BY PatchedWordIs
<1> HIDE DEF values
<1>3. QED
  BY <1>1, <1>2 DEF values

LEMMA PatchedWordTyped ==
  ASSUME DecidedTyped, NEW o
  PROVE  PatchedWord(o) \in Values /\ PatchedWord(0) = Missing
<1>1. ASSUME \E f : FieldKnown(f) /\ FieldOffset[f] = o PROVE PatchedWord(o) \in Values
  <2>1. PICK f : FieldKnown(f) /\ FieldOffset[f] = o
    BY <1>1
  <2>2. f \in Fields
    BY <2>1, FieldFacts DEF FieldKnown
  <2>3. QED
    BY <2>1, <2>2, FieldWord DEF DecidedTyped
<1>2. ASSUME \E j, f : ConnectorKnown(j, f) /\ ConnectorOffset(j, f) = o
      PROVE  PatchedWord(o) \in Values
  <2>1. PICK j, f : ConnectorKnown(j, f) /\ ConnectorOffset(j, f) = o
    BY <1>2
  <2>2. j \in Indices /\ f \in ConnectorFields
    BY <2>1, SizesAssumption DEF ConnectorKnown, Indices
  <2>3. PatchedWord(o) = connectors[j][f]
    BY <2>1, ConnectorWord
  <2>4. QED
    BY <2>2, <2>3 DEF DecidedTyped, ConnectorSets, ConnectorRecords
<1>3. ASSUME ~(\E f : FieldKnown(f) /\ FieldOffset[f] = o),
             ~(\E j, f : ConnectorKnown(j, f) /\ ConnectorOffset(j, f) = o)
      PROVE  PatchedWord(o) \in Values
  BY <1>3, NoWord DEF FieldKnown, ConnectorKnown, Values
<1>4. PatchedWord(0) = Missing
  <2>1. \A f \in FieldsOf(setup.generation) : FieldOffset[f] # 0
    BY FieldFacts
  <2>2. ASSUME NEW j \in 0..(FrameConnectors - 1), NEW f \in ConnectorFields
        PROVE  ConnectorOffset(j, f) # 0
    BY ConnectorWord DEF ConnectorKnown
  <2>3. QED
    BY <2>1, <2>2, NoWord
<1>5. QED
  BY <1>1, <1>2, <1>3, <1>4

\* A word of the list after the patches
Inside(t, p) == p \in FrameWords(Frames(t, framebufferId))
WordFor(t, p) == PatchedWord(OffsetIn(Frames(t, framebufferId), p))

LEMMA PatchedListWords ==
  ASSUME setup \in Machines, DecidedTyped, NEW t \in Lists
  PROVE  /\ PatchedList(t) \in Lists
         /\ \A p \in 1..Len(setup.table) :
              PatchedList(t)[p] = IF Inside(t, p) /\ WordFor(t, p) # Missing THEN WordFor(t, p)
                                  ELSE t[p]
<1> DEFINE starts == Frames(t, framebufferId)
           words == [offset \in 0..(FrameSize - 1) |-> PatchedWord(offset)]
           inside == FrameWords(starts)
           word(p) == IF p \notin inside THEN t[p]
                      ELSE IF words[OffsetIn(starts, p)] = Missing THEN t[p]
                      ELSE words[OffsetIn(starts, p)]
<1>1. PatchedList(t) = [p \in DOMAIN t |-> word(p)]
  BY DEF PatchedList
<1>2. DOMAIN t = 1..Len(setup.table)
  BY ListFacts
<1>3. \A p \in inside : OffsetIn(starts, p) \in 0..(FrameSize - 1)
  <2> HIDE DEF starts
  <2>1. \A p \in FrameWords(starts) :
           \E s \in starts, o \in 0..(FrameSize - 1) : p = s + o
    BY FrameWordsFacts DEF starts
  <2>2. \A s \in starts, o \in 0..(FrameSize - 1) : OffsetIn(starts, s + o) = o
    BY FrameWordsFacts DEF starts
  <2>3. QED
    BY <2>1, <2>2
<1>4. \A p \in inside : words[OffsetIn(starts, p)] = WordFor(t, p)
  BY <1>3 DEF WordFor
<1>5. \A p : word(p) = IF Inside(t, p) /\ WordFor(t, p) # Missing THEN WordFor(t, p) ELSE t[p]
  <2> HIDE DEF words, starts
  <2>1. \A p : p \in inside <=> Inside(t, p)
    BY DEF Inside, starts
  <2> HIDE DEF inside
  <2>2. QED
    BY <1>4, <2>1
<1> HIDE DEF word
<1>6. \A p \in 1..Len(setup.table) : word(p) \in Nat
  <2>1. ASSUME NEW p \in 1..Len(setup.table) PROVE word(p) \in Nat
    <3>1. t[p] \in Nat
      BY DEF Lists
    <3>2. WordFor(t, p) \in Values
      BY PatchedWordTyped DEF WordFor
    <3>3. QED
      BY <1>5, <3>1, <3>2 DEF Values
  <2>2. QED
    BY <2>1
<1>7. PatchedList(t) \in Lists
  BY <1>1, <1>2, <1>6 DEF Lists
<1>8. QED
  BY <1>1, <1>2, <1>5, <1>7

\* A list whose frames keep their first words, as each patch leaves them, is read
\* as before.
LEMMA FramesKept ==
  ASSUME setup \in Machines, NEW t \in Lists, NEW u \in Lists, NEW id,
         \A p \in 1..Len(setup.table) :
           \/ u[p] = t[p]
           \/ \E s \in Frames(t, id), o \in 1..(FrameSize - 1) : p = s + o
  PROVE  Frames(u, id) = Frames(t, id)
<1>0. Len(setup.table) \in Nat /\ FrameSize \in Nat
  BY ListFacts, FrameSizeFacts
<1>1. CASE setup.generation = "SandyBridge"
  BY <1>1, FramesShape
<1>2. CASE setup.generation # "SandyBridge"
  <2> DEFINE p == FindFramebufferId(t, id)
  <2>1. Frames(t, id) = {p} \ {0} /\ Frames(u, id) = {FindFramebufferId(u, id)} \ {0}
    BY <1>2, FramesShape
  <2>2. FindFramebufferId(u, id) = p
    <3>1. CASE p = 0 /\ \A q \in 1..Len(setup.table) : q <= Page => t[q] # id
      <4>1. \A q \in 1..Len(setup.table) : u[q] = t[q]
        BY <2>1, <3>1
      <4>2. \A q \in 1..Len(setup.table) : q <= Page => u[q] # id
        BY <3>1, <4>1
      <4>3. ~FirstPlace(u, id, FindFramebufferId(u, id))
        BY <4>2 DEF FirstPlace
      <4>4. QED
        BY <3>1, <4>3, FindFacts
    <3>2. CASE FirstPlace(t, id, p)
      <4>1. p \in 1..Len(setup.table) /\ p <= Page
        BY <3>2 DEF FirstPlace
      <4> HIDE DEF p
      <4>2. \A q \in 1..Len(setup.table) : q <= p => u[q] = t[q]
        BY <1>0, <2>1, <4>1
      <4>3. FirstPlace(u, id, p)
        <5>1. u[p] = id
          BY <1>0, <3>2, <4>1, <4>2 DEF FirstPlace
        <5>2. ASSUME NEW q \in 1..Len(setup.table), q <= Page, u[q] = id PROVE p <= q
          <6>1. CASE q <= p
            BY <3>2, <4>2, <5>2, <6>1 DEF FirstPlace
          <6>2. CASE ~(q <= p)
            BY <1>0, <4>1, <6>2
          <6>3. QED
            BY <6>1, <6>2
        <5>3. QED
          BY <4>1, <5>1, <5>2 DEF FirstPlace
      <4>4. QED
        BY <4>3, FirstPlaceUnique
    <3>3. QED
      BY <3>1, <3>2, FindFacts
  <2>3. QED
    BY <2>1, <2>2
<1>3. QED
  BY <1>1, <1>2

LEMMA PatchedFrames ==
  ASSUME setup \in Machines, DecidedTyped, NEW t \in Lists
  PROVE  Frames(PatchedList(t), framebufferId) = Frames(t, framebufferId)
<1> DEFINE starts == Frames(t, framebufferId)
<1>1. PatchedList(t) \in Lists
  BY PatchedListWords
<1>2. ASSUME NEW p \in 1..Len(setup.table), PatchedList(t)[p] # t[p]
      PROVE  \E s \in starts, o \in 1..(FrameSize - 1) : p = s + o
  <2>1. Inside(t, p) /\ WordFor(t, p) # Missing
    BY <1>2, PatchedListWords
  <2>2. PICK s \in starts, o \in 0..(FrameSize - 1) : p = s + o
    BY <2>1, FrameWordsFacts DEF Inside
  <2>3. WordFor(t, p) = PatchedWord(o)
    BY <2>2, FrameWordsFacts DEF WordFor
  <2>4. o # 0
    BY <2>1, <2>3, PatchedWordTyped
  <2>5. QED
    BY <2>2, <2>4, FrameSizeFacts
<1>3. QED
  BY <1>1, <1>2, FramesKept

\* Patching once more changes nothing.
LEMMA PatchedTwice ==
  ASSUME setup \in Machines, DecidedTyped, NEW t \in Lists
  PROVE  SemanticList(t) \in Lists /\ SemanticList(SemanticList(t)) = SemanticList(t)
<1> DEFINE u == PatchedList(t)
<1>1. u \in Lists
  BY PatchedListWords
<1>2. \A p : (Inside(u, p) <=> Inside(t, p)) /\ WordFor(u, p) = WordFor(t, p)
  BY PatchedFrames DEF Inside, WordFor
<1>3. \A p \in 1..Len(setup.table) :
        u[p] = IF Inside(t, p) /\ WordFor(t, p) # Missing THEN WordFor(t, p) ELSE t[p]
  BY PatchedListWords
<1> HIDE DEF u
<1>4. /\ PatchedList(u) \in Lists
      /\ \A p \in 1..Len(setup.table) :
           PatchedList(u)[p] = IF Inside(u, p) /\ WordFor(u, p) # Missing THEN WordFor(u, p)
                               ELSE u[p]
  BY <1>1, PatchedListWords
<1>5. \A p \in 1..Len(setup.table) : PatchedList(u)[p] = u[p]
  BY <1>2, <1>3, <1>4
<1>6. PatchedList(u) = u
  BY <1>1, <1>4, <1>5 DEF Lists
<1>7. QED
  BY <1>1, <1>6 DEF SemanticList, u

\* The words of connector types
TypeWord(t, p) == \E s \in Frames(t, framebufferId), j \in 0..(FrameConnectors - 1) :
                    p = s + ConnectorOffset(j, "type")

LEMMA HDMIListWords ==
  ASSUME setup \in Machines, NEW t \in Lists
  PROVE  /\ HDMIList(t) \in Lists
         /\ \A p \in 1..Len(setup.table) :
              HDMIList(t)[p] = IF TypeWord(t, p) /\ t[p] = DP THEN HDMI ELSE t[p]
<1> DEFINE types == {s + ConnectorOffset(j, "type") :
                       s \in Frames(t, framebufferId), j \in 0..(FrameConnectors - 1)}
<1>1. HDMIList(t) = [p \in DOMAIN t |-> IF p \in types /\ t[p] = DP THEN HDMI ELSE t[p]]
  BY DEF HDMIList
<1>2. \A p : p \in types <=> TypeWord(t, p)
  BY DEF TypeWord
<1>3. DOMAIN t = 1..Len(setup.table)
  BY ListFacts
<1>4. HDMI \in Nat
  BY SizesAssumption
<1> HIDE DEF types
<1>5. QED
  BY <1>1, <1>2, <1>3, <1>4 DEF Lists

LEMMA HDMIFrames ==
  ASSUME setup \in Machines, NEW t \in Lists
  PROVE  Frames(HDMIList(t), framebufferId) = Frames(t, framebufferId)
<1>1. HDMIList(t) \in Lists
  BY HDMIListWords
<1>2. ASSUME NEW p \in 1..Len(setup.table), HDMIList(t)[p] # t[p]
      PROVE  \E s \in Frames(t, framebufferId), o \in 1..(FrameSize - 1) : p = s + o
  <2>1. TypeWord(t, p)
    BY <1>2, HDMIListWords
  <2>2. PICK s \in Frames(t, framebufferId), j \in 0..(FrameConnectors - 1) :
          p = s + ConnectorOffset(j, "type")
    BY <2>1 DEF TypeWord
  <2>3. ConnectorOffset(j, "type") \in 5..(FrameSize - 1)
    BY ConnectorWord DEF ConnectorKnown, ConnectorFields
  <2>4. ConnectorOffset(j, "type") \in 1..(FrameSize - 1)
    BY <2>3, FrameSizeFacts
  <2>5. QED
    BY <2>2, <2>4
<1>3. QED
  BY <1>1, <1>2, FramesKept

LEMMA HDMITwice ==
  ASSUME setup \in Machines, NEW t \in Lists
  PROVE  HDMIList(t) \in Lists /\ HDMIList(HDMIList(t)) = HDMIList(t)
<1> DEFINE u == HDMIList(t)
<1>1. u \in Lists
  BY HDMIListWords
<1>2. \A p : TypeWord(u, p) <=> TypeWord(t, p)
  BY HDMIFrames DEF TypeWord
<1>3. \A p \in 1..Len(setup.table) :
        u[p] = IF TypeWord(t, p) /\ t[p] = DP THEN HDMI ELSE t[p]
  BY HDMIListWords
<1> HIDE DEF u
<1>4. /\ HDMIList(u) \in Lists
      /\ \A p \in 1..Len(setup.table) :
           HDMIList(u)[p] = IF TypeWord(u, p) /\ u[p] = DP THEN HDMI ELSE u[p]
  BY <1>1, HDMIListWords
<1>5. \A p \in 1..Len(setup.table) : HDMIList(u)[p] = u[p]
  BY <1>2, <1>3, <1>4
<1>6. HDMIList(u) = u
  BY <1>1, <1>4, <1>5 DEF Lists
<1>7. QED
  BY <1>1, <1>6 DEF u

-----------------------------------------------------------------------------
\* Properties of the binary patches' application

WordAccs == [t : Lists, next : Nat, left : Int]

\* A patch whose words can be replaced
Replaceable(patch) ==
  /\ patch.find \in Seq(Nat) /\ patch.replace \in Seq(Nat)
  /\ Len(patch.find) = Len(patch.replace) /\ patch.count \in Nat

\* An id that is found or written stays where it is.
KeepsIds(patch, ids) ==
  \A i \in 1..Len(patch.find) : patch.find[i] \in ids \/ patch.replace[i] \in ids
                                 => patch.replace[i] = patch.find[i]

LEMMA WordRound ==
  ASSUME setup \in Machines, NEW t \in Lists, NEW patch, Replaceable(patch),
         NEW start \in Nat \ {0}, NEW n \in 1..Page, NEW acc \in WordAccs
  PROVE  /\ WithWord(acc, t, patch, start, n) \in WordAccs
         /\ \A ids : KeepsIds(patch, ids) /\ SamePlaces(acc.t, t, ids)
                       => SamePlaces(WithWord(acc, t, patch, start, n).t, t, ids)
<1> DEFINE size == Len(patch.find)
           p == start + n - 1
           fits == /\ n <= Page - size /\ p + size - 1 <= Len(t)
                   /\ \A i \in 1..size : t[p + i - 1] = patch.find[i]
           new == [q \in DOMAIN t |-> IF q \in p..(p + size - 1)
                                      THEN patch.replace[q - p + 1] ELSE acc.t[q]]
<1>0. /\ size \in Nat /\ p \in Nat \ {0} /\ DOMAIN t = 1..Len(setup.table)
      /\ Len(setup.table) \in Nat /\ acc.t \in Lists /\ acc.left \in Int
  BY ListFacts DEF Replaceable, WordAccs
<1>1. CASE ~fits \/ p < acc.next \/ acc.left = 0
  <2>1. WithWord(acc, t, patch, start, n) = acc
    BY <1>1 DEF WithWord
  <2>2. QED
    BY <2>1
<1>2. CASE ~(~fits \/ p < acc.next \/ acc.left = 0)
  <2>1. WithWord(acc, t, patch, start, n)
          = [t |-> new, next |-> p + size, left |-> acc.left - 1]
    BY <1>2 DEF WithWord
  <2>2. \A i \in 1..size : t[p + i - 1] = patch.find[i] /\ patch.replace[i] \in Nat
    <3>1. \A i \in 1..size : t[p + i - 1] = patch.find[i]
      BY <1>2
    <3>2. \A i \in 1..size : patch.replace[i] \in Nat
      BY DEF Replaceable
    <3>3. QED
      BY <3>1, <3>2
  <2> HIDE DEF fits, size, p
  <2>3. \A q \in p..(p + size - 1) : q - p + 1 \in 1..size /\ p + (q - p + 1) - 1 = q
    BY <1>0
  <2>4. new \in Lists
    <3>1. ASSUME NEW q \in 1..Len(setup.table)
          PROVE  (IF q \in p..(p + size - 1) THEN patch.replace[q - p + 1] ELSE acc.t[q]) \in Nat
      <4>1. acc.t[q] \in Nat
        BY <1>0 DEF Lists
      <4>2. QED
        BY <2>2, <2>3, <4>1
    <3>2. QED
      BY <1>0, <3>1 DEF Lists
  <2>5. ASSUME NEW ids, KeepsIds(patch, ids), SamePlaces(acc.t, t, ids)
        PROVE  SamePlaces(new, t, ids)
    <3>1. ASSUME NEW q \in 1..Len(setup.table), NEW id \in ids
          PROVE  new[q] = id <=> t[q] = id
      <4>1. CASE q \in p..(p + size - 1)
        <5>1. new[q] = patch.replace[q - p + 1]
          BY <1>0, <4>1
        <5>2. t[q] = patch.find[q - p + 1]
          <6>1. t[p + (q - p + 1) - 1] = patch.find[q - p + 1]
            BY <2>2, <2>3, <4>1
          <6>2. p + (q - p + 1) - 1 = q
            BY <2>3, <4>1
          <6>3. QED
            BY <6>1, <6>2
        <5>3. patch.find[q - p + 1] \in ids \/ patch.replace[q - p + 1] \in ids
                => patch.replace[q - p + 1] = patch.find[q - p + 1]
          BY <2>3, <2>5, <4>1 DEF KeepsIds, size
        <5>4. QED
          BY <5>1, <5>2, <5>3
      <4>2. CASE q \notin p..(p + size - 1)
        <5>1. new[q] = acc.t[q]
          BY <1>0, <4>2
        <5>2. QED
          BY <2>5, <5>1 DEF SamePlaces
      <4>3. QED
        BY <4>1, <4>2
    <3> HIDE DEF new
    <3>2. QED
      BY <3>1 DEF SamePlaces
  <2> HIDE DEF new
  <2>6. QED
    BY <1>0, <2>1, <2>4, <2>5 DEF WordAccs
<1>3. QED
  BY <1>1, <1>2

LEMMA SamePlacesOfItself ==
  ASSUME NEW t, NEW ids PROVE SamePlaces(t, t, ids)
BY DEF SamePlaces

LEMMA SamePlacesCompose ==
  ASSUME NEW t, NEW u, NEW v, NEW ids, SamePlaces(t, u, ids), SamePlaces(u, v, ids)
  PROVE  SamePlaces(t, v, ids) /\ SamePlaces(u, t, ids)
BY DEF SamePlaces

\* The list after all replacements of one patch
LEMMA ReplacedFacts ==
  ASSUME setup \in Machines, NEW t \in Lists, NEW patch, Replaceable(patch),
         NEW start \in Nat \ {0}
  PROVE  /\ ReplacedList(t, patch, start) \in Lists
         /\ \A ids : KeepsIds(patch, ids) => SamePlaces(ReplacedList(t, patch, start), t, ids)
<1> DEFINE begin == [t |-> t, next |-> start, left |-> patch.count]
           Meant(f) == f = [n \in 0..Page |-> IF n = 0 THEN begin
                                              ELSE WithWord(f[n - 1], t, patch, start, n)]
           steps == [n \in 1..Page |-> [acc \in WordAccs |-> WithWord(acc, t, patch, start, n)]]
<1>0. Page \in Nat
  BY SizesAssumption
<1>1. begin \in WordAccs /\ begin.t = t
  BY DEF WordAccs, Replaceable
<1> HIDE DEF begin
<1>2. Closed(WordAccs, Page, steps)
  <2>1. ASSUME NEW n \in 1..Page, NEW acc \in WordAccs PROVE steps[n][acc] \in WordAccs
    BY WordRound
  <2> HIDE DEF steps
  <2>2. QED
    BY <2>1 DEF Closed
<1>3. PICK g \in [0..Page -> WordAccs] : Recurs(g, begin, Page, steps)
  <2> HIDE DEF steps
  <2>1. \E f \in [0..Page -> WordAccs] : Recurs(f, begin, Page, steps)
    BY <1>0, <1>1, <1>2, RecursionDefined
  <2>2. QED
    BY <2>1
<1>4. ASSUME NEW n \in 1..Page PROVE g[n] = WithWord(g[n - 1], t, patch, start, n)
  <2>1. g[n - 1] \in WordAccs
    BY <1>0
  <2>2. QED
    BY <1>3, <2>1 DEF Recurs
<1>5. Meant(g)
  BY <1>3, <1>4 DEF Recurs
<1> DEFINE After == CHOOSE f : Meant(f)
<1>6. Meant(After)
  <2> HIDE DEF Meant
  <2>1. QED
    BY <1>5
<1>7. ReplacedList(t, patch, start) = After[Page].t
  BY DEF ReplacedList, begin
<1> HIDE DEF After
<1>8. /\ After[0] = begin
      /\ \A n \in 1..Page : After[n] = WithWord(After[n - 1], t, patch, start, n)
  BY <1>0, <1>6
<1> HIDE DEF Meant, steps
<1> DEFINE Good(n) == /\ After[n] \in WordAccs
                      /\ \A ids : KeepsIds(patch, ids) => SamePlaces(After[n].t, t, ids)
           G == {n \in 0..Page : Good(n)}
<1>9. 0 \in G
  BY <1>0, <1>1, <1>8, SamePlacesOfItself
<1>10. ASSUME NEW n \in 1..Page, n - 1 \in G PROVE n \in G
  <2> DEFINE acc == After[n - 1]
  <2>1. acc \in WordAccs /\ \A ids : KeepsIds(patch, ids) => SamePlaces(acc.t, t, ids)
    BY <1>10
  <2>2. After[n] = WithWord(acc, t, patch, start, n)
    BY <1>8
  <2> HIDE DEF acc
  <2>3. Good(n)
    BY <2>1, <2>2, WordRound
  <2>4. QED
    BY <1>0, <2>3
<1>11. \A n \in 0..Page : n \in G
  <2> HIDE DEF G
  <2>1. QED
    BY <1>0, <1>9, <1>10, IntervalInduction
<1>12. Good(Page)
  BY <1>0, <1>11
<1>13. QED
  BY <1>7, <1>12 DEF WordAccs

\* The state between two of the binary patches
PatchLists == [1..Len(patches) -> BinaryRecords]
Accs == [t : Lists, patches : PatchLists, applied : Seq(Nat), id : Nat, at : Nat]

LEMMA BinaryRound ==
  ASSUME setup \in Machines, NEW acc \in Accs, NEW k \in 1..Len(patches)
  PROVE  /\ WithBinary(acc, k) \in Accs
         /\ WithBinary(acc, k).applied = <<>> =>
              acc.applied = <<>> /\ WithBinary(acc, k).t = acc.t
<1> DEFINE patch == acc.patches[k]
           start == IF patch.id = acc.id THEN acc.at ELSE FindFramebufferId(acc.t, patch.id)
<1>0. /\ acc.t \in Lists /\ acc.patches \in PatchLists /\ acc.applied \in Seq(Nat)
      /\ acc.id \in Nat /\ acc.at \in Nat /\ patch \in BinaryRecords
  BY DEF Accs, PatchLists
<1>1. /\ patch.number \in Nat /\ patch.id \in Nat /\ patch.count \in Nat
      /\ patch.find \in SomeWords /\ patch.replace \in SomeWords
      /\ patch.find = Missing <=> patch.replace = Missing
  BY <1>0 DEF BinaryRecords
<1>2. start \in Nat
  BY <1>0, FindFacts, ListFacts DEF FirstPlace
<1>3. CASE patch.find = Missing
  BY <1>3 DEF WithBinary
<1>4. CASE patch.find # Missing /\ (start = 0 \/ Len(patch.find) # Len(patch.replace))
  <2>1. WithBinary(acc, k) = [acc EXCEPT !.id = patch.id, !.at = start]
    BY <1>4 DEF WithBinary
  <2> HIDE DEF patch, start
  <2>2. QED
    BY <1>0, <1>1, <1>2, <2>1 DEF Accs
<1>5. CASE patch.find # Missing /\ ~(start = 0 \/ Len(patch.find) # Len(patch.replace))
  <2> DEFINE new == ReplacedList(acc.t, patch, start)
             released == [patch EXCEPT !.find = Missing, !.replace = Missing]
  <2>1. WithBinary(acc, k) = [acc EXCEPT !.id = patch.id, !.at = start, !.t = new,
                                         !.patches[k] = released,
                                         !.applied = Append(acc.applied, patch.number)]
    BY <1>5 DEF WithBinary
  <2>2. Replaceable(patch)
    BY <1>1, <1>5 DEF Replaceable, SomeWords
  <2>3. new \in Lists
    <3> HIDE DEF patch, start
    <3>1. QED
      BY <1>0, <1>2, <1>5, <2>2, ReplacedFacts
  <2>4. released \in BinaryRecords
    BY <1>0 DEF BinaryRecords, SomeWords
  <2>5. [acc.patches EXCEPT ![k] = released] \in PatchLists
    <3> HIDE DEF released
    <3>1. QED
      BY <1>0, <2>4 DEF PatchLists
  <2>6. Append(acc.applied, patch.number) \in Seq(Nat) /\ Append(acc.applied, patch.number) # <<>>
    <3> HIDE DEF patch
    <3> DEFINE old == acc.applied
               number == patch.number
    <3>1. old \in Seq(Nat) /\ number \in Nat
      BY <1>0, <1>1
    <3> HIDE DEF old, number
    <3>2. Append(old, number) \in Seq(Nat) /\ Append(old, number) # <<>>
      BY <3>1, LongerList
    <3>3. QED
      BY <3>2 DEF old, number
  <2>7. WithBinary(acc, k) = [acc EXCEPT !.id = patch.id, !.at = start, !.t = new,
                                         !.patches = [acc.patches EXCEPT ![k] = released],
                                         !.applied = Append(acc.applied, patch.number)]
    <3> HIDE DEF new, start, released, patch
    <3>1. QED
      BY <1>0, <2>1 DEF Accs
  <2> HIDE DEF new, start, released, patch
  <2>8. QED
    BY <1>0, <1>1, <1>2, <2>3, <2>5, <2>6, <2>7 DEF Accs
<1>6. QED
  BY <1>3, <1>4, <1>5

\* All rounds of the loop over the binary patches: if none was applied, they left the
\* list alone.
LEMMA BinariesAfterFacts ==
  ASSUME setup \in Machines, BeforeBinaries \in Accs, patches \in Seq(BinaryRecords)
  PROVE  /\ BinariesAfter[0] = BeforeBinaries
         /\ \A k \in 1..Len(patches) : BinariesAfter[k] = WithBinary(BinariesAfter[k - 1], k)
         /\ \A k \in 0..Len(patches) :
              /\ BinariesAfter[k] \in Accs
              /\ BinariesAfter[k].applied = <<>> =>
                   BeforeBinaries.applied = <<>> /\ BinariesAfter[k].t = BeforeBinaries.t
<1> DEFINE N == Len(patches)
           Meant(f) == f = [k \in 0..N |-> IF k = 0 THEN BeforeBinaries
                                           ELSE WithBinary(f[k - 1], k)]
           steps == [k \in 1..N |-> [acc \in Accs |-> WithBinary(acc, k)]]
<1>0. N \in Nat
  OBVIOUS
<1>1. Closed(Accs, N, steps)
  <2>1. ASSUME NEW k \in 1..N, NEW acc \in Accs PROVE steps[k][acc] \in Accs
    BY BinaryRound
  <2> HIDE DEF steps, N
  <2>2. QED
    BY <2>1 DEF Closed
<1>2. PICK g \in [0..N -> Accs] : Recurs(g, BeforeBinaries, N, steps)
  <2> HIDE DEF steps, N
  <2>1. \E f \in [0..N -> Accs] : Recurs(f, BeforeBinaries, N, steps)
    BY <1>0, <1>1, RecursionDefined
  <2>2. QED
    BY <2>1
<1>3. ASSUME NEW k \in 1..N PROVE g[k] = WithBinary(g[k - 1], k)
  <2>1. g[k - 1] \in Accs
    BY <1>0
  <2>2. QED
    BY <1>2, <2>1 DEF Recurs
<1>4. Meant(g)
  BY <1>2, <1>3 DEF Recurs
<1>5. Meant(CHOOSE f : Meant(f))
  <2> HIDE DEF Meant
  <2>1. QED
    BY <1>4
<1>6. Meant(BinariesAfter)
  BY <1>5 DEF BinariesAfter
<1>7. /\ BinariesAfter[0] = BeforeBinaries
      /\ \A k \in 1..N : BinariesAfter[k] = WithBinary(BinariesAfter[k - 1], k)
  <2> HIDE DEF N
  <2>1. BinariesAfter[0] = BeforeBinaries
    BY <1>0, <1>6
  <2>2. ASSUME NEW k \in 1..N PROVE BinariesAfter[k] = WithBinary(BinariesAfter[k - 1], k)
    BY <1>0, <1>6
  <2>3. QED
    BY <2>1, <2>2
<1> HIDE DEF Meant, steps
<1> DEFINE Good(k) == /\ BinariesAfter[k] \in Accs
                      /\ BinariesAfter[k].applied = <<>> =>
                           /\ BeforeBinaries.applied = <<>>
                           /\ BinariesAfter[k].t = BeforeBinaries.t
           G == {k \in 0..N : Good(k)}
<1>8. 0 \in G
  BY <1>0, <1>7
<1>9. ASSUME NEW k \in 1..N, k - 1 \in G PROVE k \in G
  <2> DEFINE acc == BinariesAfter[k - 1]
  <2>1. /\ acc \in Accs
        /\ acc.applied = <<>> => BeforeBinaries.applied = <<>> /\ acc.t = BeforeBinaries.t
        /\ BinariesAfter[k] = WithBinary(acc, k)
    BY <1>7, <1>9
  <2> HIDE DEF acc
  <2>2. /\ WithBinary(acc, k) \in Accs
        /\ WithBinary(acc, k).applied = <<>> =>
              acc.applied = <<>> /\ WithBinary(acc, k).t = acc.t
    BY <2>1, BinaryRound
  <2>3. Good(k)
    BY <2>1, <2>2
  <2>4. QED
    BY <1>0, <2>3
<1>10. \A k \in 0..N : k \in G
  <2> HIDE DEF G, N
  <2>1. QED
    BY <1>0, <1>8, <1>9, IntervalInduction
<1>11. QED
  BY <1>7, <1>10

-----------------------------------------------------------------------------
\* The list is as asked.

\* One call without the binary patches
Once(t) == IF applyFramebufferPatch THEN SemanticList(t)
           ELSE IF hdmiAutopatch THEN HDMIList(t) ELSE t

\* What was decided at boot
AsAsked ==
  /\ fields = IF setup.enable THEN setup.fields ELSE NoFields
  /\ \A j \in Indices, f \in ConnectorFields :
       connectors[j][f] = IF setup.enable THEN WantedOf(j, f) ELSE Missing
  /\ applyFramebufferPatch <=> Custom
  /\ hdmiAutopatch <=> (/\ ~Custom /\ ~setup.connectorless
                        /\ setup.yosemite /\ ~setup.nohdmi)
Decisions == framebufferId = Target /\ (ReadAsWritten => AsAsked)

PatchesTyped ==
  /\ setup \in Machines
  /\ patchesPc \in {"kernel", "kext", "running"}
  /\ DecidedTyped
  /\ table \in Lists /\ patches \in Seq(BinaryRecords) /\ applied \in Seq(Nat)
  /\ framebufferId \in Nat /\ calls \in Nat

\* The list is the driver's own until it has been patched; it is then the patched one
\* as long as no binary patch has been applied, whatever the number of calls.
PatchesIInv ==
  /\ PatchesTyped
  /\ patchesPc = "kernel" => /\ fields = NoFields /\ connectors = NoConnectors
                             /\ framebufferId = setup.reported
                             /\ calls = 0 /\ ~routed
  /\ patchesPc # "kernel" => Decisions
  /\ calls = 0 => table = setup.table /\ applied = <<>>
  /\ calls > 0 /\ applied = <<>> => table = Once(setup.table)
  /\ calls > 0 /\ ~applyFramebufferPatch => applied = <<>>

LEMMA PatchesInitLemma ==
  ASSUME PatchesInit PROVE PatchesIInv
<1>1. setup \in Machines
  BY DEF PatchesInit
<1>2. table \in Lists /\ framebufferId \in Nat
  BY <1>1, ListFacts, MachinesAssumption DEF PatchesInit, MachineOK
<1>3. DecidedTyped
  BY DEF PatchesInit, DecidedTyped, NoFields, NoConnector, ConnectorSets, ConnectorRecords, Values
<1>4. patches \in Seq(BinaryRecords) /\ applied \in Seq(Nat)
  BY DEF PatchesInit
<1>5. PatchesTyped
  BY <1>1, <1>2, <1>3, <1>4 DEF PatchesInit, PatchesTyped
<1>6. calls = 0 /\ ~(0 > 0)
  BY DEF PatchesInit
<1>7. QED
  BY <1>5, <1>6, Zenon DEF PatchesInit, PatchesIInv, NoConnectors

LEMMA MissingNotNat == Missing \notin Nat
BY SizesAssumption

LEMMA SetupKept ==
  ASSUME setup' = setup
  PROVE  /\ Target' = Target /\ Custom' = Custom /\ Lists' = Lists
         /\ \A j, f : WantedOf(j, f)' = WantedOf(j, f)
<1>1. \A j, f : WantedOf(j, f)' = WantedOf(j, f)
  BY DEF WantedOf, Describing, Described, AllData, Words
<1>2. Custom' = Custom
  BY <1>1, Zenon DEF Custom, Listed, Complete
<1>3. QED
  BY <1>1, <1>2 DEF Target, Lists

LEMMA KernelLemma ==
  ASSUME PatchesIInv, PatchesProcessKernel
  PROVE  PatchesIInv'
<1>0. /\ setup \in Machines /\ setup' = setup /\ patchesPc = "kernel" /\ patchesPc' = "kext"
      /\ table' = table /\ applied' = applied /\ calls' = calls /\ calls = 0
      /\ fields = NoFields /\ connectors = NoConnectors /\ framebufferId = setup.reported
      /\ table = setup.table /\ applied = <<>>
  BY DEF PatchesProcessKernel, PatchesIInv, PatchesTyped
<1>1. /\ Target' = Target /\ Custom' = Custom /\ Lists' = Lists
      /\ \A j, f : WantedOf(j, f)' = WantedOf(j, f)
  BY <1>0, SetupKept
<1>2. MachineOK(setup)
  BY <1>0, MachinesAssumption
<1>3. patches' = BinaryPatches /\ BinaryPatches \in Seq(BinaryRecords)
  BY <1>0, SomePatch DEF PatchesProcessKernel, loadPatchesFromDevice
<1>4. framebufferId' = Target /\ framebufferId' \in Nat
  BY <1>0, <1>2 DEF PatchesProcessKernel, loadPatchesFromDevice, Target, TargetOf, MachineOK
<1>5. fields' = IF setup.enable THEN setup.fields ELSE NoFields
  BY <1>0 DEF PatchesProcessKernel, loadPatchesFromDevice
<1>6. connectors' = IF setup.enable THEN ConnectorPatches ELSE NoConnectors
  BY <1>0 DEF PatchesProcessKernel, loadPatchesFromDevice
<1>7. DecidedTyped'
  <2>1. setup.fields \in [Fields -> Values] /\ NoFields \in [Fields -> Values]
    BY <1>2 DEF MachineOK, Values, NoFields
  <2>2. ConnectorPatches \in ConnectorSets /\ NoConnectors \in ConnectorSets
    BY <1>0, ConnectorsTyped
      DEF NoConnectors, NoConnector, ConnectorSets, ConnectorRecords, Values
  <2>3. fields' \in [Fields -> Values] /\ connectors' \in ConnectorSets
    BY <1>5, <1>6, <2>1, <2>2
  <2>4. QED
    BY <2>3 DEF DecidedTyped
<1>8. ASSUME ReadAsWritten PROVE AsAsked'
  <2>1. \A j \in Indices, f \in ConnectorFields :
          connectors'[j][f] = IF setup.enable THEN WantedOf(j, f) ELSE Missing
    BY <1>0, <1>6, <1>8, ConnectorsAreAsAsked DEF NoConnectors, NoConnector
  <2>2. applyFramebufferPatch' <=> Custom
    <3>1. applyFramebufferPatch' <=>
            \/ setup.enable /\ setup.id # Missing
            \/ fields' # NoFields
            \/ \E i \in Indices : /\ setup.enable /\ setup.con[i].enable
                                  /\ connectors'[i] # NoConnector
            \/ patches' # <<>>
      BY DEF PatchesProcessKernel, loadPatchesFromDevice
    <3>2. patches' # <<>> <=> \E n \in Listed : Complete(n)
      BY <1>0, <1>3, SomePatch
    <3>3. CASE setup.enable
      <4>1. fields' = setup.fields /\ connectors' = ConnectorPatches
        BY <1>5, <1>6, <3>3
      <4>2. (\E i \in Indices : setup.enable /\ setup.con[i].enable /\ connectors'[i] # NoConnector)
              <=> (\E j \in Indices, f \in ConnectorFields : WantedOf(j, f) # Missing)
        BY <1>0, <1>8, <3>3, <4>1, SomeConnector
      <4>3. QED
        BY <3>1, <3>2, <3>3, <4>1, <4>2, Zenon DEF Custom
    <3>4. CASE ~setup.enable
      BY <1>5, <3>1, <3>2, <3>4, Zenon DEF Custom
    <3>5. QED
      BY <3>3, <3>4
  <2>3. hdmiAutopatch' <=> (/\ ~Custom /\ ~setup.connectorless
                             /\ setup.yosemite /\ ~setup.nohdmi)
    BY <2>2 DEF PatchesProcessKernel
  <2>4. QED
    BY <1>0, <1>1, <1>5, <2>1, <2>2, <2>3, Zenon DEF AsAsked, NoFields
<1>11. Decisions'
  BY <1>4, <1>1, <1>8, Zenon DEF Decisions
<1>12. PatchesTyped'
  <2>1. table' \in Lists /\ applied' \in Seq(Nat) /\ calls' \in Nat
    BY <1>0 DEF PatchesIInv, PatchesTyped
  <2>2. QED
    BY <1>0, <1>1, <1>3, <1>4, <1>7, <2>1, Zenon DEF PatchesTyped
<1>13. ~(calls' > 0) /\ table' = setup'.table /\ applied' = <<>> /\ patchesPc' # "kernel"
  BY <1>0
<1>14. QED
  BY <1>11, <1>12, <1>13, Zenon DEF PatchesIInv

\* Nothing that a call depends on changes after the start.
Settings == <<setup, decided>>

LEMMA SettingsKept ==
  ASSUME UNCHANGED Settings
  PROVE  /\ setup' = setup
         /\ \A t : Once(t)' = Once(t) /\ Frames(t, Target)' = Frames(t, Target)
         /\ Once(setup.table)' = Once(setup.table)
         /\ Frames(setup.table, Target)' = Frames(setup.table, Target)
         /\ DecidedTyped' = DecidedTyped /\ Decisions' = Decisions
<1>1. /\ setup' = setup /\ fields' = fields /\ connectors' = connectors
      /\ framebufferId' = framebufferId /\ applyFramebufferPatch' = applyFramebufferPatch
      /\ hdmiAutopatch' = hdmiAutopatch
  BY DEF Settings, decided
<1>2. /\ Target' = Target /\ Custom' = Custom
      /\ \A j, f : WantedOf(j, f)' = WantedOf(j, f)
  BY <1>1, SetupKept
<1>3. \A o : PatchedWord(o)' = PatchedWord(o)
  BY <1>1 DEF PatchedWord
<1>4. \A t, id : Frames(t, id)' = Frames(t, id)
  BY <1>1, Zenon DEF Frames
<1>5. \A t : PatchedList(t)' = PatchedList(t)
  <2> DEFINE made(t, starts, words) ==
               [p \in DOMAIN t |->
                  IF p \notin FrameWords(starts) THEN t[p]
                  ELSE IF words[OffsetIn(starts, p)] = Missing THEN t[p]
                  ELSE words[OffsetIn(starts, p)]]
             words == [offset \in 0..(FrameSize - 1) |-> PatchedWord(offset)]
  <2>1. \A t : PatchedList(t) = made(t, Frames(t, framebufferId), words)
    BY DEF PatchedList
  <2>2. \A t : PatchedList(t)' = made(t, Frames(t, framebufferId)', words')
    BY DEF PatchedList
  <2>3. words' = words
    BY <1>3
  <2>4. \A t : Frames(t, framebufferId)' = Frames(t, framebufferId)
    BY <1>1, <1>4, Zenon
  <2> HIDE DEF made, words
  <2>5. QED
    BY <2>1, <2>2, <2>3, <2>4
<1>6. \A t : HDMIList(t)' = HDMIList(t)
  BY <1>1, <1>4 DEF HDMIList
<1>7. \A t : Once(t)' = Once(t)
  BY <1>1, <1>5, <1>6, Zenon DEF Once, SemanticList
<1>8. Frames(setup.table, Target)' = Frames(setup.table, Target)
  BY <1>1, <1>2, Zenon DEF Frames
<1>9. Frames(setup.table, framebufferId)' = Frames(setup.table, framebufferId)
  BY <1>1, Zenon DEF Frames
<1>10. PatchedList(setup.table)' = PatchedList(setup.table)
  <2> DEFINE made(t, starts, words) ==
               [p \in DOMAIN t |->
                  IF p \notin FrameWords(starts) THEN t[p]
                  ELSE IF words[OffsetIn(starts, p)] = Missing THEN t[p]
                  ELSE words[OffsetIn(starts, p)]]
             words == [offset \in 0..(FrameSize - 1) |-> PatchedWord(offset)]
  <2>1. PatchedList(setup.table) = made(setup.table, Frames(setup.table, framebufferId), words)
    BY DEF PatchedList
  <2>2. PatchedList(setup.table)'
          = made(setup'.table, Frames(setup.table, framebufferId)', words')
    BY DEF PatchedList
  <2>3. words' = words
    BY <1>3
  <2> HIDE DEF made, words
  <2>4. QED
    BY <1>1, <1>9, <2>1, <2>2, <2>3
<1>11. HDMIList(setup.table)' = HDMIList(setup.table)
  BY <1>1, <1>9 DEF HDMIList
<1>12. Once(setup.table)' = Once(setup.table)
  BY <1>1, <1>10, <1>11, Zenon DEF Once, SemanticList
<1>13. DecidedTyped' = DecidedTyped
  BY <1>1, Zenon DEF DecidedTyped
<1>14. Decisions' = Decisions
  <2>1. AsAsked' = AsAsked
    BY <1>1, <1>2, Zenon DEF AsAsked
  <2>2. QED
    BY <1>1, <1>2, <2>1, Zenon DEF Decisions
<1>15. QED
  BY <1>1, <1>2, <1>4, <1>7, <1>13, <1>14, <1>8, <1>12

LEMMA OnceFacts ==
  ASSUME setup \in Machines, DecidedTyped, NEW t \in Lists
  PROVE  Once(t) \in Lists /\ Once(Once(t)) = Once(t)
BY PatchedTwice, HDMITwice DEF Once

LEMMA BeforeTyped ==
  ASSUME PatchesTyped
  PROVE  /\ BeforeBinaries \in Accs
         /\ BeforeBinaries.t = SemanticList(table) /\ BeforeBinaries.applied = applied
         /\ BeforeBinaries.patches = patches
         /\ BeforeBinaries.id = framebufferId
         /\ BeforeBinaries.at = FindFramebufferId(SemanticList(table), framebufferId)
<1> DEFINE semantic == SemanticList(table)
<1>1. semantic \in Lists
  BY PatchedTwice DEF PatchesTyped
<1>2. FindFramebufferId(semantic, framebufferId) \in Nat
  <2> HIDE DEF semantic
  <2>1. QED
    BY <1>1, FindFacts, ListFacts DEF FirstPlace, PatchesTyped
<1>3. patches \in PatchLists
  BY DEF PatchesTyped, PatchLists
<1>4. BeforeBinaries = [t |-> semantic, patches |-> patches, applied |-> applied,
                        id |-> framebufferId, at |-> FindFramebufferId(semantic, framebufferId)]
  BY DEF BeforeBinaries
<1> HIDE DEF semantic
<1>5. BeforeBinaries \in Accs
  BY <1>1, <1>2, <1>3, <1>4 DEF Accs, PatchesTyped
<1>6. QED
  BY <1>4, <1>5 DEF semantic

LEMMA PatchListsAreSequences ==
  ASSUME patches \in Seq(BinaryRecords), NEW s \in PatchLists
  PROVE  s \in Seq(BinaryRecords) /\ Len(s) = Len(patches)
<1>1. Len(patches) \in Nat
  OBVIOUS
<1>2. QED
  BY <1>1 DEF PatchLists

\* The rounds that a call makes
Rounds == IF BeforeBinaries.at = 0 THEN 0 ELSE Len(patches)

\* A call, when no binary patch has been or is applied by it, is the semantic one.
LEMMA CallLemma ==
  ASSUME PatchesIInv, patchesPc # "kernel", doFrameBufferStuff
  PROVE  /\ calls' = calls + 1
         /\ table' \in Lists /\ patches' \in Seq(BinaryRecords) /\ applied' \in Seq(Nat)
         /\ applied' = <<>> => applied = <<>> /\ table' = Once(table)
         /\ ~applyFramebufferPatch => applied' = applied
         /\ applyFramebufferPatch => /\ table' = BinariesAfter[Rounds].t
                                     /\ patches' = BinariesAfter[Rounds].patches
                                     /\ Len(patches') = Len(patches)
<1>0. PatchesTyped /\ setup \in Machines /\ DecidedTyped /\ table \in Lists
  BY DEF PatchesIInv, PatchesTyped
<1>1. calls' = calls + 1
  BY DEF doFrameBufferStuff
<1>2. CASE applyFramebufferPatch
  <2>1. /\ table' = BinariesAfter[Rounds].t /\ patches' = BinariesAfter[Rounds].patches
        /\ applied' = BinariesAfter[Rounds].applied
    BY <1>2 DEF doFrameBufferStuff, applyFramebufferPatches, Rounds
  <2>2. Rounds \in 0..Len(patches) /\ patches \in Seq(BinaryRecords)
    BY <1>0 DEF Rounds, PatchesTyped
  <2>3. /\ BeforeBinaries \in Accs
        /\ BeforeBinaries.t = SemanticList(table) /\ BeforeBinaries.applied = applied
    BY <1>0, BeforeTyped
  <2>4. /\ BinariesAfter[Rounds] \in Accs
        /\ BinariesAfter[Rounds].applied = <<>> =>
             BeforeBinaries.applied = <<>> /\ BinariesAfter[Rounds].t = BeforeBinaries.t
    BY <1>0, <2>2, <2>3, BinariesAfterFacts
  <2>5. table' \in Lists /\ patches' \in PatchLists /\ applied' \in Seq(Nat)
    BY <2>1, <2>4 DEF Accs
  <2>6. patches' \in Seq(BinaryRecords) /\ Len(patches') = Len(patches)
    BY <2>2, <2>5, PatchListsAreSequences
  <2>7. applied' = <<>> => applied = <<>> /\ table' = Once(table)
    BY <1>2, <2>1, <2>3, <2>4 DEF Once
  <2>8. QED
    BY <1>1, <1>2, <2>1, <2>5, <2>6, <2>7
<1>3. CASE ~applyFramebufferPatch
  <2>1. table' = Once(table) /\ patches' = patches /\ applied' = applied
    BY <1>3 DEF doFrameBufferStuff, Once
  <2>2. table' \in Lists
    BY <1>0, <2>1, OnceFacts
  <2>3. QED
    BY <1>0, <1>1, <1>3, <2>1, <2>2 DEF PatchesTyped
<1>4. QED
  BY <1>2, <1>3

LEMMA CallKeepsInvariant ==
  ASSUME PatchesIInv, patchesPc # "kernel", patchesPc' \in {"kext", "running"},
         UNCHANGED Settings, doFrameBufferStuff
  PROVE  PatchesIInv'
<1>0. /\ PatchesTyped /\ setup \in Machines /\ DecidedTyped /\ table \in Lists /\ calls \in Nat
      /\ Decisions
  BY DEF PatchesIInv, PatchesTyped
<1>1. /\ setup' = setup
      /\ \A t : Once(t)' = Once(t)
      /\ DecidedTyped' = DecidedTyped /\ Decisions' = Decisions
  BY SettingsKept
<1>2. /\ calls' = calls + 1
      /\ table' \in Lists /\ patches' \in Seq(BinaryRecords) /\ applied' \in Seq(Nat)
      /\ applied' = <<>> => applied = <<>> /\ table' = Once(table)
      /\ ~applyFramebufferPatch => applied' = applied
  BY CallLemma
<1>3. calls' \in Nat /\ calls' > 0 /\ calls' # 0 /\ (calls = 0 \/ calls > 0)
  BY <1>0, <1>2
<1>4. framebufferId' = framebufferId /\ applyFramebufferPatch' = applyFramebufferPatch
  BY DEF Settings, decided
<1>5. PatchesTyped'
  <2>1. Lists' = Lists
    BY <1>1 DEF Lists
  <2>2. QED
    BY <1>0, <1>1, <1>2, <1>3, <1>4, <2>1 DEF PatchesTyped
<1>6. applied' = <<>> => table' = Once(setup.table)
  <2>1. setup.table \in Lists
    BY <1>0, ListFacts
  <2>2. CASE calls = 0
    BY <1>2, <2>2 DEF PatchesIInv
  <2>3. CASE calls > 0
    <3>1. Once(Once(setup.table)) = Once(setup.table)
      BY <1>0, <2>1, OnceFacts
    <3>2. QED
      BY <1>2, <2>3, <3>1, Zenon DEF PatchesIInv
  <2>4. QED
    BY <1>3, <2>2, <2>3
<1>7. Once(setup.table)' = Once(setup.table)
  BY SettingsKept
<1>8. ~applyFramebufferPatch => applied' = <<>>
  BY <1>2, <1>3 DEF PatchesIInv
<1>9. QED
  BY <1>0, <1>1, <1>3, <1>4, <1>5, <1>6, <1>7, <1>8 DEF PatchesIInv

LEMMA PatchesStepLemma ==
  ASSUME PatchesIInv, [PatchesNext]_patchesVars
  PROVE  PatchesIInv'
<1>1. CASE PatchesProcessKernel
  BY <1>1, KernelLemma
<1>2. CASE PatchesProcessKext
  <2>1. patchesPc = "kext" /\ patchesPc' = "running" /\ UNCHANGED Settings
    BY <1>2 DEF PatchesProcessKext, Settings
  <2>2. CASE doFrameBufferStuff
    BY <2>1, <2>2, CallKeepsInvariant
  <2>3. CASE UNCHANGED <<calls, table, patches, applied>>
    <3>1. /\ setup' = setup /\ DecidedTyped' = DecidedTyped /\ Decisions' = Decisions
          /\ Once(setup.table)' = Once(setup.table)
      BY <2>1, SettingsKept
    <3>2. /\ framebufferId' = framebufferId /\ applyFramebufferPatch' = applyFramebufferPatch
          /\ calls' = calls /\ table' = table /\ patches' = patches /\ applied' = applied
      BY <2>1, <2>3 DEF Settings, decided
    <3>3. Lists' = Lists
      BY <3>1 DEF Lists
    <3>4. PatchesTyped'
      BY <2>1, <3>1, <3>2, <3>3 DEF PatchesIInv, PatchesTyped
    <3>5. Decisions' /\ patchesPc' # "kernel"
      BY <2>1, <3>1 DEF PatchesIInv
    <3>6. /\ calls' = 0 => table' = setup'.table /\ applied' = <<>>
          /\ calls' > 0 /\ applied' = <<>> => table' = Once(setup.table)'
          /\ calls' > 0 /\ ~applyFramebufferPatch' => applied' = <<>>
      BY <3>1, <3>2 DEF PatchesIInv
    <3>7. QED
      BY <3>4, <3>5, <3>6, Zenon DEF PatchesIInv
  <2>4. QED
    BY <1>2, <2>2, <2>3 DEF PatchesProcessKext
<1>3. CASE wrapGetOSInformation
  <2>1. /\ patchesPc = "running" /\ patchesPc' = "running" /\ UNCHANGED Settings
        /\ doFrameBufferStuff
    BY <1>3 DEF wrapGetOSInformation, Settings
  <2>2. QED
    BY <2>1, CallKeepsInvariant
<1>4. CASE UNCHANGED patchesVars
  <2>1. /\ UNCHANGED Settings
        /\ patchesPc' = patchesPc /\ table' = table /\ patches' = patches
        /\ applied' = applied /\ calls' = calls /\ routed' = routed
    BY <1>4 DEF patchesVars, Settings
  <2>2. /\ setup' = setup /\ DecidedTyped' = DecidedTyped /\ Decisions' = Decisions
        /\ Once(setup.table)' = Once(setup.table)
    BY <2>1, SettingsKept
  <2>3. /\ framebufferId' = framebufferId /\ applyFramebufferPatch' = applyFramebufferPatch
        /\ fields' = fields /\ connectors' = connectors
    BY <2>1 DEF Settings, decided
  <2>4. Lists' = Lists
    BY <2>2 DEF Lists
  <2>5. PatchesTyped'
    BY <2>1, <2>2, <2>3, <2>4, Zenon DEF PatchesIInv, PatchesTyped
  <2>6. QED
    BY <2>1, <2>2, <2>3, <2>5, Zenon DEF PatchesIInv
<1>5. QED
  BY <1>1, <1>2, <1>3, <1>4 DEF PatchesNext

\* What has become of word o of frame s
LEMMA WordAfterPatches ==
  ASSUME setup \in Machines, DecidedTyped, framebufferId = Target,
         NEW s \in Frames(setup.table, Target), NEW o \in 0..(FrameSize - 1)
  PROVE  SemanticList(setup.table)[s + o] =
           IF setup.yosemite /\ PatchedWord(o) # Missing THEN PatchedWord(o)
           ELSE setup.table[s + o]
<1> DEFINE t == setup.table
<1>1. t \in Lists /\ s + o \in 1..Len(setup.table)
  BY ListFacts, FramesLieInside
<1>2. Inside(t, s + o) /\ WordFor(t, s + o) = PatchedWord(o)
  BY <1>1, FrameWordsFacts DEF Inside, WordFor
<1> HIDE DEF t
<1>3. PatchedList(t)[s + o] = IF Inside(t, s + o) /\ WordFor(t, s + o) # Missing
                              THEN WordFor(t, s + o) ELSE t[s + o]
  BY <1>1, PatchedListWords DEF t
<1>4. QED
  BY <1>2, <1>3 DEF SemanticList, t

IsType(o) == \E j \in 0..(FrameConnectors - 1) : o = ConnectorOffset(j, "type")

LEMMA WordAfterHDMI ==
  ASSUME setup \in Machines, framebufferId = Target,
         NEW s \in Frames(setup.table, Target), NEW o \in 0..(FrameSize - 1)
  PROVE  HDMIList(setup.table)[s + o] =
           IF IsType(o) /\ setup.table[s + o] = DP THEN HDMI ELSE setup.table[s + o]
<1> DEFINE t == setup.table
<1>1. t \in Lists /\ s + o \in 1..Len(setup.table)
  BY ListFacts, FramesLieInside
<1>2. TypeWord(t, s + o) <=> IsType(o)
  <2>1. ASSUME NEW r \in Frames(t, Target), NEW j \in 0..(FrameConnectors - 1),
               s + o = r + ConnectorOffset(j, "type")
        PROVE  o = ConnectorOffset(j, "type")
    <3>1. ConnectorOffset(j, "type") \in 0..(FrameSize - 1)
      <4>1. ConnectorOffset(j, "type") \in 5..(FrameSize - 1)
        BY ConnectorWord DEF ConnectorKnown, ConnectorFields
      <4>2. QED
        BY <4>1, FrameSizeFacts
    <3>2. QED
      BY <1>1, <2>1, <3>1, FramesApart
  <2>2. QED
    BY <2>1 DEF TypeWord, IsType
<1> HIDE DEF t
<1>3. HDMIList(t)[s + o] = IF TypeWord(t, s + o) /\ t[s + o] = DP THEN HDMI ELSE t[s + o]
  BY <1>1, HDMIListWords DEF t
<1>4. QED
  BY <1>2, <1>3 DEF t

LEMMA OtherWords ==
  ASSUME setup \in Machines, DecidedTyped, framebufferId = Target,
         NEW p \in 1..Len(setup.table), p \notin FrameWords(Frames(setup.table, Target))
  PROVE  Once(setup.table)[p] = setup.table[p]
<1> DEFINE t == setup.table
<1>1. t \in Lists
  BY ListFacts
<1>2. ~Inside(t, p)
  BY DEF Inside
<1>3. ~TypeWord(t, p)
  <2>1. ASSUME NEW s \in Frames(t, Target), NEW j \in 0..(FrameConnectors - 1)
        PROVE  p # s + ConnectorOffset(j, "type")
    <3>1. ConnectorOffset(j, "type") \in 0..(FrameSize - 1)
      <4>1. ConnectorOffset(j, "type") \in 5..(FrameSize - 1)
        BY ConnectorWord DEF ConnectorKnown, ConnectorFields
      <4>2. QED
        BY <4>1, FrameSizeFacts
    <3>2. s + ConnectorOffset(j, "type") \in FrameWords(Frames(t, Target))
      BY <1>1, <3>1, FrameWordsFacts
    <3>3. QED
      BY <3>2
  <2>2. QED
    BY <2>1 DEF TypeWord
<1> HIDE DEF t
<1>4. /\ PatchedList(t)[p] = IF Inside(t, p) /\ WordFor(t, p) # Missing THEN WordFor(t, p)
                             ELSE t[p]
      /\ HDMIList(t)[p] = IF TypeWord(t, p) /\ t[p] = DP THEN HDMI ELSE t[p]
  BY <1>1, PatchedListWords, HDMIListWords
<1>5. QED
  BY <1>2, <1>3, <1>4 DEF Once, SemanticList, t

\* The user has asked for something, or for nothing.
LEMMA WordLemma ==
  ASSUME ReadAsWritten, PatchesIInv, Decisions, table = Once(setup.table),
         NEW s \in Frames(setup.table, Target), NEW o \in 0..(FrameSize - 1)
  PROVE  WordAsAsked(s, o)
<1> DEFINE old == setup.table[s + o]
           IsField(f) == f \in FieldsOf(setup.generation) /\ FieldOffset[f] = o
           Asked(v) == IF setup.enable /\ setup.yosemite /\ v # Missing THEN v ELSE old
           IsConnector(j, f) == o = ConnectorOffset(j, f)
           auto == /\ old = DP /\ ~setup.connectorless /\ ~setup.nohdmi /\ setup.yosemite
<1>0. setup \in Machines /\ DecidedTyped /\ framebufferId = Target
  BY DEF PatchesIInv, PatchesTyped, Decisions
<1>1. applyFramebufferPatch =>
        table[s + o] = IF setup.yosemite /\ PatchedWord(o) # Missing THEN PatchedWord(o)
                       ELSE old
  BY <1>0, WordAfterPatches DEF Once
<1>2. ~applyFramebufferPatch =>
        table[s + o] = IF IsType(o) /\ auto THEN HDMI ELSE old
  BY <1>0, WordAfterHDMI DEF Once, Decisions, AsAsked
<1>3. \A f : IsField(f) => f \in Fields /\ FieldKnown(f)
  BY FieldFacts DEF FieldKnown
<1>4. \A j \in 0..(FrameConnectors - 1), f \in ConnectorFields :
        IsConnector(j, f) =>
          /\ PatchedWord(o) = connectors[j][f]
          /\ connectors[j][f] = IF setup.enable THEN WantedOf(j, f) ELSE Missing
          /\ \A g \in Fields : FieldOffset[g] # o
          /\ IsType(o) <=> f = "type"
  <2>1. ASSUME NEW j \in 0..(FrameConnectors - 1), NEW f \in ConnectorFields, IsConnector(j, f)
        PROVE  /\ PatchedWord(o) = connectors[j][f]
               /\ connectors[j][f] = IF setup.enable THEN WantedOf(j, f) ELSE Missing
               /\ \A g \in Fields : FieldOffset[g] # o
               /\ IsType(o) <=> f = "type"
    <3>1. j \in Indices /\ j \in Nat
      BY SizesAssumption DEF Indices
    <3>2. /\ PatchedWord(ConnectorOffset(j, f)) = connectors[j][f]
          /\ \A g \in Fields : FieldOffset[g] # ConnectorOffset(j, f)
      BY ConnectorWord DEF ConnectorKnown
    <3>3. connectors[j][f] = IF setup.enable THEN WantedOf(j, f) ELSE Missing
      BY <3>1 DEF Decisions, AsAsked
    <3>4. IsType(o) => f = "type"
      <4>1. ASSUME NEW k \in 0..(FrameConnectors - 1), o = ConnectorOffset(k, "type")
            PROVE  f = "type"
        <5>1. k \in Nat /\ "type" \in ConnectorFields
          BY FrameSizeFacts DEF ConnectorFields
        <5>2. ConnectorOffset(j, f) = ConnectorOffset(k, "type")
          BY <2>1, <4>1
        <5>3. QED
          BY <3>1, <5>1, <5>2, OffsetFacts
      <4>2. QED
        BY <4>1 DEF IsType
    <3>5. f = "type" => IsType(o)
      BY <2>1 DEF IsType
    <3>6. QED
      BY <2>1, <3>2, <3>3, <3>4, <3>5
  <2>2. QED
    BY <2>1
<1>5. applyFramebufferPatch <=> Custom
  BY DEF Decisions, AsAsked
<1>6. \A f \in Fields : IsField(f) => table[s + o] = Asked(setup.fields[f])
  <2>1. ASSUME NEW f \in Fields, IsField(f) PROVE table[s + o] = Asked(setup.fields[f])
    <3>1. PatchedWord(o) = fields[f] /\ FieldOffset[f] = o
      BY <1>3, <2>1, FieldWord
    <3>2. fields[f] = IF setup.enable THEN setup.fields[f] ELSE Missing
      BY <2>1 DEF Decisions, AsAsked, NoFields
    <3>3. CASE applyFramebufferPatch
      BY <1>1, <3>1, <3>2, <3>3
    <3>4. CASE ~applyFramebufferPatch
      <4>1. ~IsType(o)
        BY <1>4, <3>1 DEF IsType, ConnectorFields
      <4>2. setup.enable => setup.fields = NoFields
        BY <1>5, <3>4, Zenon DEF Custom
      <4>3. setup.enable => setup.fields[f] = Missing
        BY <4>2 DEF NoFields
      <4>4. QED
        BY <1>2, <3>4, <4>1, <4>3
    <3>5. QED
      BY <3>3, <3>4
  <2>2. QED
    BY <2>1
<1>7. \/ \E f \in Fields : IsField(f)
      \/ \E j \in 0..(FrameConnectors - 1), f \in ConnectorFields : IsConnector(j, f)
      \/ table[s + o] = old
  <2>1. ASSUME ~(\E f \in Fields : IsField(f)),
               ~(\E j \in 0..(FrameConnectors - 1), f \in ConnectorFields : IsConnector(j, f))
        PROVE  table[s + o] = old
    <3>1. PatchedWord(o) = Missing
      <4>1. \A f \in FieldsOf(setup.generation) : FieldOffset[f] # o
        BY <2>1, FieldFacts
      <4>2. QED
        BY <2>1, <4>1, NoWord
    <3>2. ~IsType(o)
      BY <2>1 DEF IsType, ConnectorFields
    <3>3. QED
      BY <1>1, <1>2, <3>1, <3>2
  <2>2. QED
    BY <2>1
<1>8. \A j \in 0..(FrameConnectors - 1), f \in ConnectorFields :
        IsConnector(j, f) =>
          table[s + o] = IF Custom THEN Asked(WantedOf(j, f))
                         ELSE IF f = "type" /\ auto THEN HDMI ELSE old
  BY <1>1, <1>2, <1>4, <1>5
<1>9. QED
  BY <1>6, <1>7, <1>8 DEF WordAsAsked

LEMMA ListLemma ==
  ASSUME ReadAsWritten, PatchesIInv PROVE ListAsAsked
<1> SUFFICES ASSUME calls > 0, applied = <<>>
             PROVE  LET starts == Frames(setup.table, Target) IN
                    /\ \A s \in starts, o \in 0..(FrameSize - 1) : WordAsAsked(s, o)
                    /\ \A p \in DOMAIN table \ FrameWords(starts) : table[p] = setup.table[p]
  BY DEF ListAsAsked
<1>1. /\ setup \in Machines /\ DecidedTyped /\ table \in Lists
      /\ table = Once(setup.table) /\ patchesPc # "kernel" /\ Decisions
  BY DEF PatchesIInv, PatchesTyped
<1>2. framebufferId = Target /\ DOMAIN table = 1..Len(setup.table)
  BY <1>1, ListFacts DEF Decisions
<1>3. QED
  BY <1>1, <1>2, WordLemma, OtherWords

\* However many calls there have been, and in whatever way the properties of connectors
\* overlap, the list has what the most specific property asks for, and nothing else of
\* it has changed.
THEOREM ListsAreAsAsked == ReadAsWritten => (PatchesSpec => []ListAsAsked)
<1> SUFFICES ASSUME ReadAsWritten PROVE PatchesSpec => []ListAsAsked
  OBVIOUS
<1>1. PatchesInit => PatchesIInv
  BY PatchesInitLemma
<1>2. PatchesIInv /\ [PatchesNext]_patchesVars => PatchesIInv'
  BY PatchesStepLemma
<1>3. PatchesIInv => ListAsAsked
  BY ListLemma
<1>4. QED
  BY <1>1, <1>2, <1>3, PTL DEF PatchesSpec

-----------------------------------------------------------------------------
\* The first call is the last one to change the list.

IdOf(s, n) == IF s.patch[n].id = Missing THEN s.reported ELSE s.patch[n].id

\* The ids of frames that a machine's properties name
IdsOf(s) == {TargetOf(s)} \cup {IdOf(s, n) : n \in DOMAIN s.patch}

\* Machines whose binary patches leave these ids where they are.  One that writes an
\* id elsewhere can uncover a frame for a patch before it, which the next call applies.
IdsStay ==
  \A s \in Machines : \A n \in DOMAIN s.patch :
    /\ s.patch[n].enable = "on"
    /\ s.patch[n].find # Missing /\ s.patch[n].replace # Missing
    /\ Len(s.patch[n].find) = Len(s.patch[n].replace)
    => KeepsIds(s.patch[n], IdsOf(s))

Ids == IdsOf(setup)

\* Binary patches of such machines
GoodRecords ==
  {r \in BinaryRecords :
     /\ r.id \in Ids
     /\ r.find # Missing /\ Len(r.find) = Len(r.replace) => KeepsIds(r, Ids)}

LEMMA BinaryPatchGood ==
  ASSUME IdsStay, setup \in Machines, NEW n \in 1..Len(setup.patch), Complete(n)
  PROVE  BinaryPatch(n) \in GoodRecords
<1>1. BinaryPatch(n) \in BinaryRecords
  BY BinaryPatchTyped
<1>2. n \in DOMAIN setup.patch
  BY MachinesAssumption DEF MachineOK
<1>3. BinaryPatch(n).id \in Ids
  BY <1>2 DEF BinaryPatch, Ids, IdsOf, IdOf
<1>4. /\ BinaryPatch(n).find = setup.patch[n].find
      /\ BinaryPatch(n).replace = setup.patch[n].replace
  BY DEF BinaryPatch
<1>5. Len(BinaryPatch(n).find) = Len(BinaryPatch(n).replace) => KeepsIds(BinaryPatch(n), Ids)
  <2>1. ASSUME Len(setup.patch[n].find) = Len(setup.patch[n].replace)
        PROVE  KeepsIds(setup.patch[n], Ids)
    BY <1>2, <2>1, Zenon DEF IdsStay, Complete, Ids
  <2>2. KeepsIds(BinaryPatch(n), Ids) <=> KeepsIds(setup.patch[n], Ids)
    BY <1>4, Zenon DEF KeepsIds
  <2>3. QED
    BY <1>4, <2>1, <2>2
<1>6. QED
  BY <1>1, <1>3, <1>5 DEF GoodRecords

LEMMA GoodList ==
  ASSUME NEW S, NEW s \in Seq(S), NEW G, \A i \in 1..Len(s) : s[i] \in G
  PROVE  s \in Seq(G)
OBVIOUS

LEMMA AllGood ==
  ASSUME IdsStay, setup \in Machines
  PROVE  \A k \in 1..Len(BinaryPatches) : BinaryPatches[k] \in GoodRecords
<1> DEFINE N == Len(setup.patch)
           Good(n) == \A k \in 1..Len(PatchesAfter[n]) : PatchesAfter[n][k] \in GoodRecords
           G == {n \in 0..N : Good(n)}
<1>0. N \in Nat
  BY MachinesAssumption DEF MachineOK
<1>1. 0 \in G
  BY <1>0, PatchesAfterFacts
<1>2. ASSUME NEW n \in 1..N, n - 1 \in G PROVE n \in G
  <2> DEFINE kept == PatchesAfter[n - 1]
  <2>1. kept \in Seq(BinaryRecords)
    BY <1>0, PatchesAfterFacts
  <2>2. PatchesAfter[n] = WithListed(kept, n)
    BY PatchesAfterFacts
  <2>3. \A k \in 1..Len(kept) : kept[k] \in GoodRecords
    BY <1>2
  <2> HIDE DEF kept
  <2>4. CASE n \in Listed /\ Complete(n)
    <3> DEFINE new == BinaryPatch(n)
    <3>1. new \in BinaryRecords /\ new \in GoodRecords
      BY <2>4, BinaryPatchTyped, BinaryPatchGood
    <3>2. PatchesAfter[n] = Append(kept, new)
      BY <2>2, <2>4 DEF WithListed
    <3> HIDE DEF new
    <3>3. /\ Len(Append(kept, new)) = Len(kept) + 1
          /\ \A i \in 1..Len(kept) : Append(kept, new)[i] = kept[i]
          /\ Append(kept, new)[Len(kept) + 1] = new
      BY <2>1, <3>1, LongerList
    <3>4. Len(kept) \in Nat
      BY <2>1
    <3>5. \A k \in 1..(Len(kept) + 1) : Append(kept, new)[k] \in GoodRecords
      BY <2>3, <3>1, <3>3, <3>4
    <3>6. QED
      BY <1>0, <3>2, <3>3, <3>5
  <2>5. CASE ~(n \in Listed /\ Complete(n))
    <3>1. PatchesAfter[n] = kept
      BY <2>2, <2>5 DEF WithListed
    <3>2. QED
      BY <1>0, <2>3, <3>1
  <2>6. QED
    BY <2>4, <2>5
<1>3. \A n \in 0..N : n \in G
  <2> HIDE DEF G, N
  <2>1. QED
    BY <1>0, <1>1, <1>2, IntervalInduction
<1>4. Good(N)
  BY <1>0, <1>3
<1>5. QED
  BY <1>4 DEF BinaryPatches

\* The list after the semantic patches: ids stay where they are in it.
Base == Once(setup.table)

\* A patch that no later call will apply
Over(r, base) == \/ r.find = Missing \/ FindFramebufferId(base, r.id) = 0
                 \/ Len(r.find) # Len(r.replace)

LEMMA SemanticSame ==
  ASSUME setup \in Machines, DecidedTyped, framebufferId = Target, applyFramebufferPatch,
         NEW t \in Lists, SamePlaces(t, Base, Ids)
  PROVE  /\ SamePlaces(SemanticList(t), Base, Ids)
         /\ Frames(t, Target) = Frames(setup.table, Target)
<1> DEFINE S == setup.table
<1>0. S \in Lists /\ Target \in Ids
  BY ListFacts DEF Ids, IdsOf, Target
<1>1. Base \in Lists /\ Base = SemanticList(S)
  BY <1>0, OnceFacts DEF Base, Once
<1>2. Frames(t, Target) = Frames(Base, Target)
  BY <1>0, <1>1, SameFound
<1>3. Frames(Base, Target) = Frames(S, Target)
  BY <1>0, <1>1, PatchedFrames DEF SemanticList
<1>4. CASE ~setup.yosemite
  <2>1. SemanticList(t) = t
    BY <1>4 DEF SemanticList
  <2>2. QED
    BY <1>2, <1>3, <2>1
<1>5. CASE setup.yosemite
  <2>1. \A p : (Inside(t, p) <=> Inside(S, p)) /\ WordFor(t, p) = WordFor(S, p)
    BY <1>2, <1>3 DEF Inside, WordFor
  <2>2. SemanticList(t) = PatchedList(t) /\ Base = PatchedList(S)
    BY <1>1, <1>5 DEF SemanticList
  <2> HIDE DEF S
  <2>3. \A p \in 1..Len(setup.table) :
          /\ PatchedList(t)[p] = IF Inside(t, p) /\ WordFor(t, p) # Missing THEN WordFor(t, p)
                                 ELSE t[p]
          /\ PatchedList(S)[p] = IF Inside(S, p) /\ WordFor(S, p) # Missing THEN WordFor(S, p)
                                 ELSE S[p]
    BY <1>0, PatchedListWords
  <2>4. SamePlaces(SemanticList(t), Base, Ids)
    <3>1. ASSUME NEW p \in 1..Len(setup.table), NEW id \in Ids
          PROVE  PatchedList(t)[p] = id <=> PatchedList(S)[p] = id
      <4>1. t[p] = id <=> PatchedList(S)[p] = id
        BY <2>2 DEF SamePlaces
      <4>2. CASE Inside(S, p) /\ WordFor(S, p) # Missing
        BY <2>1, <2>3, <4>2
      <4>3. CASE ~(Inside(S, p) /\ WordFor(S, p) # Missing)
        <5>1. PatchedList(t)[p] = t[p]
          BY <2>1, <2>3, <4>3
        <5>2. QED
          BY <4>1, <5>1
      <4>4. QED
        BY <4>2, <4>3
    <3>2. QED
      BY <2>2, <3>1 DEF SamePlaces
  <2>5. QED
    BY <1>2, <1>3, <2>4 DEF S
<1>6. QED
  BY <1>4, <1>5

\* Between two binary patches the ids are where they are in the base.
Steady(acc) ==
  /\ acc \in Accs
  /\ \A k \in 1..Len(patches) : acc.patches[k] \in GoodRecords
  /\ SamePlaces(acc.t, Base, Ids)
  /\ acc.id \in Ids /\ acc.at = FindFramebufferId(Base, acc.id)

LEMMA SteadyRound ==
  ASSUME setup \in Machines, Base \in Lists, NEW acc, Steady(acc), NEW k \in 1..Len(patches)
  PROVE  /\ Steady(WithBinary(acc, k))
         /\ Over(WithBinary(acc, k).patches[k], Base)
         /\ \A m \in 1..Len(patches) :
              m # k => WithBinary(acc, k).patches[m] = acc.patches[m]
         /\ Over(acc.patches[k], Base) =>
              WithBinary(acc, k).t = acc.t /\ WithBinary(acc, k).patches = acc.patches
<1> DEFINE patch == acc.patches[k]
           start == IF patch.id = acc.id THEN acc.at ELSE FindFramebufferId(acc.t, patch.id)
           W == WithBinary(acc, k)
<1>0. /\ acc \in Accs /\ acc.t \in Lists /\ acc.patches \in PatchLists
      /\ acc.id \in Ids /\ acc.at = FindFramebufferId(Base, acc.id)
      /\ SamePlaces(acc.t, Base, Ids)
      /\ \A m \in 1..Len(patches) : acc.patches[m] \in GoodRecords
      /\ patch \in GoodRecords
  BY DEF Steady, Accs
<1>1. /\ patch \in BinaryRecords /\ patch.id \in Ids
      /\ patch.find # Missing /\ Len(patch.find) = Len(patch.replace) => KeepsIds(patch, Ids)
  BY <1>0 DEF GoodRecords
<1>2. start = FindFramebufferId(Base, patch.id) /\ start \in Nat
  <2>1. FindFramebufferId(acc.t, patch.id) = FindFramebufferId(Base, patch.id)
    BY <1>0, <1>1, SameFound
  <2>2. FindFramebufferId(Base, patch.id) \in Nat
    BY FindFacts, ListFacts DEF FirstPlace
  <2>3. QED
    BY <1>0, <2>1, <2>2
<1>3. W \in Accs
  BY <1>0, BinaryRound
<1>4. CASE patch.find = Missing
  <2>1. W = acc
    BY <1>4 DEF WithBinary
  <2>2. Over(patch, Base)
    BY <1>4 DEF Over
  <2>3. QED
    BY <2>1, <2>2
<1>5. CASE patch.find # Missing /\ (start = 0 \/ Len(patch.find) # Len(patch.replace))
  <2>1. W = [acc EXCEPT !.id = patch.id, !.at = start]
    BY <1>5 DEF WithBinary
  <2>2. Over(patch, Base)
    BY <1>2, <1>5 DEF Over
  <2> HIDE DEF start, patch, W
  <2>3. /\ W.t = acc.t /\ W.patches = acc.patches /\ W.id = patch.id /\ W.at = start
    BY <1>0, <2>1 DEF Accs
  <2>4. Steady(W)
    BY <1>0, <1>1, <1>2, <1>3, <2>3 DEF Steady
  <2>5. QED
    BY <2>2, <2>3, <2>4 DEF patch, W
<1>6. CASE patch.find # Missing /\ ~(start = 0 \/ Len(patch.find) # Len(patch.replace))
  <2> DEFINE new == ReplacedList(acc.t, patch, start)
             released == [patch EXCEPT !.find = Missing, !.replace = Missing]
  <2>1. W = [acc EXCEPT !.id = patch.id, !.at = start, !.t = new,
                        !.patches[k] = released,
                        !.applied = Append(acc.applied, patch.number)]
    BY <1>6 DEF WithBinary
  <2>2. Replaceable(patch)
    BY <1>1, <1>6 DEF Replaceable, BinaryRecords, SomeWords
  <2>3. ~Over(patch, Base)
    BY <1>2, <1>6 DEF Over
  <2>4. released \in GoodRecords /\ released.find = Missing
    <3>1. released \in BinaryRecords
      BY <1>1 DEF BinaryRecords, SomeWords
    <3>2. released.find = Missing /\ released.id = patch.id
      BY <1>1 DEF BinaryRecords
    <3>3. QED
      BY <1>1, <3>1, <3>2 DEF GoodRecords
  <2>5. SamePlaces(new, acc.t, Ids)
    <3> HIDE DEF patch, start
    <3>1. QED
      BY <1>0, <1>1, <1>2, <1>6, <2>2, ReplacedFacts
  <2>6. SamePlaces(new, Base, Ids)
    BY <1>0, <2>5, SamePlacesCompose
  <2> HIDE DEF start, patch, W, new, released
  <2>7. /\ W.t = new /\ W.patches = [acc.patches EXCEPT ![k] = released]
        /\ W.id = patch.id /\ W.at = start
    BY <1>0, <2>1 DEF Accs
  <2>8. /\ W.patches[k] = released
        /\ \A m \in 1..Len(patches) : m # k => W.patches[m] = acc.patches[m]
    BY <1>0, <2>7 DEF PatchLists
  <2>9. Steady(W)
    BY <1>0, <1>1, <1>2, <1>3, <2>4, <2>6, <2>7, <2>8 DEF Steady
  <2>10. Over(W.patches[k], Base)
    BY <2>4, <2>8 DEF Over
  <2>11. QED
    BY <2>3, <2>8, <2>9, <2>10 DEF patch, W
<1>7. QED
  BY <1>4, <1>5, <1>6

AllOver(list) == \A k \in 1..Len(list) : Over(list[k], Base)

\* After its rounds no patch will be applied again; if none would be before, they
\* change nothing.
LEMMA SteadyRounds ==
  ASSUME PatchesTyped, Base \in Lists, Steady(BeforeBinaries)
  PROVE  \A k \in 0..Len(patches) :
           /\ Steady(BinariesAfter[k])
           /\ \A m \in 1..k : Over(BinariesAfter[k].patches[m], Base)
           /\ AllOver(patches) =>
                /\ BinariesAfter[k].t = BeforeBinaries.t
                /\ BinariesAfter[k].patches = patches
<1> DEFINE N == Len(patches)
           Still(k) == AllOver(patches) => /\ BinariesAfter[k].t = BeforeBinaries.t
                                           /\ BinariesAfter[k].patches = patches
           Good(k) == /\ Steady(BinariesAfter[k])
                      /\ \A m \in 1..k : Over(BinariesAfter[k].patches[m], Base)
                      /\ Still(k)
           G == {k \in 0..N : Good(k)}
<1>0. /\ setup \in Machines /\ N \in Nat
      /\ BeforeBinaries.patches = patches
      /\ BinariesAfter[0] = BeforeBinaries
      /\ \A k \in 1..N : BinariesAfter[k] = WithBinary(BinariesAfter[k - 1], k)
  BY BeforeTyped, BinariesAfterFacts DEF PatchesTyped
<1>1. 0 \in G
  BY <1>0
<1>2. ASSUME NEW k \in 1..N, k - 1 \in G PROVE k \in G
  <2> DEFINE acc == BinariesAfter[k - 1]
             new == WithBinary(acc, k)
  <2>1. /\ BinariesAfter[k] = new
        /\ Steady(acc)
        /\ \A m \in 1..(k - 1) : Over(acc.patches[m], Base)
        /\ Still(k - 1)
    BY <1>0, <1>2
  <2> HIDE DEF acc
  <2>2. /\ Steady(new) /\ Over(new.patches[k], Base)
        /\ \A m \in 1..N : m # k => new.patches[m] = acc.patches[m]
        /\ Over(acc.patches[k], Base) => new.t = acc.t /\ new.patches = acc.patches
    BY <1>0, <2>1, SteadyRound
  <2> HIDE DEF new
  <2>3. ASSUME NEW m \in 1..k PROVE Over(new.patches[m], Base)
    <3>1. CASE m = k
      BY <2>2, <3>1
    <3>2. CASE m # k
      <4>1. m \in 1..(k - 1) /\ m \in 1..N
        BY <1>0, <3>2
      <4>2. new.patches[m] = acc.patches[m]
        BY <2>2, <3>2, <4>1
      <4>3. QED
        BY <2>1, <4>1, <4>2
    <3>3. QED
      BY <3>1, <3>2
  <2>4. Still(k)
    <3>1. ASSUME AllOver(patches)
          PROVE  new.t = BeforeBinaries.t /\ new.patches = patches
      <4>1. acc.t = BeforeBinaries.t /\ acc.patches = patches
        BY <2>1, <3>1 DEF acc
      <4>2. Over(acc.patches[k], Base)
        BY <3>1, <4>1 DEF AllOver
      <4>3. QED
        BY <2>2, <4>1, <4>2
    <3>2. QED
      BY <2>1, <3>1
  <2>5. Good(k)
    BY <2>1, <2>2, <2>3, <2>4
  <2>6. QED
    BY <1>0, <2>5
<1>3. \A k \in 0..N : k \in G
  <2> HIDE DEF G, N
  <2>1. QED
    BY <1>0, <1>1, <1>2, IntervalInduction
<1>4. QED
  BY <1>3

\* From the first call on, ids are where the semantic patches leave them, and the
\* binary patches that are kept will not be applied.
RestIInv ==
  /\ patchesPc # "kernel" => \A k \in 1..Len(patches) : patches[k] \in GoodRecords
  /\ calls > 0 /\ applyFramebufferPatch =>
       /\ SamePlaces(table, Base, Ids)
       /\ FindFramebufferId(Base, framebufferId) = 0 \/ AllOver(patches)

LEMMA CallSettles ==
  ASSUME PatchesIInv, RestIInv, patchesPc # "kernel", applyFramebufferPatch,
         doFrameBufferStuff
  PROVE  /\ \A k \in 1..Len(patches') : patches'[k] \in GoodRecords
         /\ SamePlaces(table', Base, Ids)
         /\ \/ FindFramebufferId(Base, framebufferId) = 0
            \/ \A k \in 1..Len(patches') : Over(patches'[k], Base)
         /\ calls > 0 => /\ table' = SemanticList(table)
                         /\ Frames(table, Target) = Frames(setup.table, Target)
<1>0. /\ PatchesTyped /\ setup \in Machines /\ DecidedTyped /\ table \in Lists /\ calls \in Nat
      /\ Decisions /\ framebufferId = Target /\ patches \in Seq(BinaryRecords)
  BY DEF PatchesIInv, PatchesTyped, Decisions
<1>1. setup.table \in Lists /\ Base \in Lists /\ Base = SemanticList(setup.table)
  BY <1>0, ListFacts, OnceFacts DEF Base, Once
<1> DEFINE semantic == SemanticList(table)
<1>2. /\ semantic \in Lists /\ SamePlaces(semantic, Base, Ids)
      /\ calls > 0 => Frames(table, Target) = Frames(setup.table, Target)
  <2>1. CASE calls = 0
    <3>1. semantic = Base
      BY <1>1, <2>1 DEF PatchesIInv
    <3>2. QED
      BY <1>1, <2>1, <3>1, SamePlacesOfItself
  <2>2. CASE calls > 0
    <3>1. SamePlaces(table, Base, Ids)
      BY <2>2 DEF RestIInv
    <3>2. QED
      BY <1>0, <3>1, SemanticSame, PatchedTwice
  <2>3. QED
    BY <1>0, <2>1, <2>2
<1>3. /\ BeforeBinaries \in Accs
      /\ BeforeBinaries.t = semantic /\ BeforeBinaries.patches = patches
      /\ BeforeBinaries.id = framebufferId
      /\ BeforeBinaries.at = FindFramebufferId(semantic, framebufferId)
  BY <1>0, BeforeTyped
<1> HIDE DEF semantic
<1>4. Target \in Ids
  BY DEF Ids, IdsOf, Target
<1>5. FindFramebufferId(semantic, framebufferId) = FindFramebufferId(Base, framebufferId)
  BY <1>0, <1>1, <1>2, <1>4, SameFound
<1>6. Steady(BeforeBinaries)
  BY <1>0, <1>2, <1>3, <1>4, <1>5 DEF Steady, RestIInv
<1>7. Rounds \in 0..Len(patches) /\ Len(patches) \in Nat
  BY <1>0 DEF Rounds
<1> DEFINE end == BinariesAfter[Rounds]
<1>8. /\ Steady(end)
      /\ \A m \in 1..Rounds : Over(end.patches[m], Base)
      /\ AllOver(patches) => end.t = semantic /\ end.patches = patches
  BY <1>0, <1>1, <1>3, <1>6, <1>7, SteadyRounds
<1>9. table' = end.t /\ patches' = end.patches /\ Len(patches') = Len(patches)
  BY CallLemma
<1>10. CASE FindFramebufferId(Base, framebufferId) = 0
  <2>1. Rounds = 0
    BY <1>3, <1>5, <1>10 DEF Rounds
  <2>2. end = BeforeBinaries
    BY <1>0, <1>3, <2>1, BinariesAfterFacts
  <2> HIDE DEF end
  <2>3. table' = semantic
    BY <1>3, <1>9, <2>2
  <2>4. QED
    BY <1>2, <1>8, <1>9, <1>10, <2>3 DEF Steady, semantic
<1>11. CASE FindFramebufferId(Base, framebufferId) # 0
  <2>1. Rounds = Len(patches)
    BY <1>3, <1>5, <1>11 DEF Rounds
  <2> HIDE DEF end
  <2>2. calls > 0 => table' = semantic
    BY <1>8, <1>9, <1>11 DEF RestIInv
  <2>3. \A k \in 1..Len(patches') : Over(patches'[k], Base)
    BY <1>8, <1>9, <2>1
  <2>4. QED
    BY <1>2, <1>8, <1>9, <2>2, <2>3 DEF Steady, semantic
<1>12. QED
  BY <1>10, <1>11

\* What the settings determine stays.
LEMMA BaseKept ==
  ASSUME UNCHANGED Settings
  PROVE  Base' = Base /\ Ids' = Ids /\ GoodRecords' = GoodRecords
<1>1. setup' = setup /\ Base' = Base
  BY SettingsKept DEF Base
<1>2. Ids' = Ids
  BY <1>1 DEF Ids
<1>3. QED
  BY <1>1, <1>2 DEF GoodRecords

LEMMA RestStepLemma ==
  ASSUME IdsStay, PatchesIInv, RestIInv, [PatchesNext]_patchesVars
  PROVE  RestIInv'
<1>0. setup \in Machines /\ calls \in Nat
  BY DEF PatchesIInv, PatchesTyped
<1>1. CASE PatchesProcessKernel
  <2>1. setup' = setup /\ patches' = BinaryPatches /\ calls' = 0
    BY <1>1 DEF PatchesProcessKernel, loadPatchesFromDevice, PatchesIInv
  <2>2. GoodRecords' = GoodRecords
    BY <2>1 DEF GoodRecords, Ids
  <2>3. \A k \in 1..Len(patches') : patches'[k] \in GoodRecords'
    BY <1>0, <2>1, <2>2, AllGood
  <2>4. ~(calls' > 0)
    BY <2>1
  <2>5. QED
    BY <2>3, <2>4 DEF RestIInv
<1>2. ASSUME UNCHANGED Settings, patchesPc # "kernel", doFrameBufferStuff
      PROVE  RestIInv'
  <2>1. Base' = Base /\ Ids' = Ids /\ GoodRecords' = GoodRecords
    BY <1>2, BaseKept
  <2>2. /\ setup' = setup /\ framebufferId' = framebufferId
        /\ applyFramebufferPatch' = applyFramebufferPatch
    BY <1>2 DEF Settings, decided
  <2>3. CASE applyFramebufferPatch
    <3>1. /\ \A k \in 1..Len(patches') : patches'[k] \in GoodRecords
          /\ SamePlaces(table', Base, Ids)
          /\ \/ FindFramebufferId(Base, framebufferId) = 0
             \/ \A k \in 1..Len(patches') : Over(patches'[k], Base)
      BY <1>2, <2>3, CallSettles
    <3>2. SamePlaces(table, Base, Ids)'
      BY <2>1, <2>2, <3>1 DEF SamePlaces
    <3>3. FindFramebufferId(Base, framebufferId)' = FindFramebufferId(Base, framebufferId)
      BY <2>1, <2>2 DEF FindFramebufferId
    <3>4. (\A k \in 1..Len(patches') : Over(patches'[k], Base)) => AllOver(patches)'
      BY <2>1 DEF AllOver, Over
    <3>5. QED
      BY <2>1, <3>1, <3>2, <3>3, <3>4 DEF RestIInv
  <2>4. CASE ~applyFramebufferPatch
    <3>1. patches' = patches
      BY <1>2, <2>4 DEF doFrameBufferStuff
    <3>2. QED
      BY <1>2, <2>1, <2>2, <2>4, <3>1 DEF RestIInv
  <2>5. QED
    BY <2>3, <2>4
<1>3. ASSUME UNCHANGED Settings, UNCHANGED <<calls, table, patches>>,
             patchesPc' = patchesPc \/ patchesPc # "kernel"
      PROVE  RestIInv'
  <2>1. Base' = Base /\ Ids' = Ids /\ GoodRecords' = GoodRecords
    BY <1>3, BaseKept
  <2>2. /\ setup' = setup /\ framebufferId' = framebufferId
        /\ applyFramebufferPatch' = applyFramebufferPatch
    BY <1>3 DEF Settings, decided
  <2>3. SamePlaces(table, Base, Ids)' = SamePlaces(table, Base, Ids)
    BY <1>3, <2>1, <2>2 DEF SamePlaces
  <2>4. FindFramebufferId(Base, framebufferId)' = FindFramebufferId(Base, framebufferId)
    BY <2>1, <2>2 DEF FindFramebufferId
  <2>5. AllOver(patches)' = AllOver(patches)
    BY <1>3, <2>1 DEF AllOver, Over
  <2>6. QED
    BY <1>3, <2>1, <2>2, <2>3, <2>4, <2>5 DEF RestIInv
<1>4. CASE PatchesProcessKext
  <2>1. patchesPc = "kext" /\ patchesPc' = "running" /\ UNCHANGED Settings
    BY <1>4 DEF PatchesProcessKext, Settings
  <2>2. CASE doFrameBufferStuff
    BY <1>2, <2>1, <2>2
  <2>3. CASE UNCHANGED <<calls, table, patches, applied>>
    BY <1>3, <2>1, <2>3
  <2>4. QED
    BY <1>4, <2>2, <2>3 DEF PatchesProcessKext
<1>5. CASE wrapGetOSInformation
  <2>1. patchesPc = "running" /\ UNCHANGED Settings /\ doFrameBufferStuff
    BY <1>5 DEF wrapGetOSInformation, Settings
  <2>2. QED
    BY <1>2, <2>1
<1>6. CASE UNCHANGED patchesVars
  <2>1. UNCHANGED Settings /\ UNCHANGED <<calls, table, patches>> /\ patchesPc' = patchesPc
    BY <1>6 DEF patchesVars, Settings
  <2>2. QED
    BY <1>3, <2>1
<1>7. QED
  BY <1>1, <1>4, <1>5, <1>6 DEF PatchesNext

\* The action of FirstCallIsFinal
CallChangesLittle ==
  calls > 0 /\ calls' > calls =>
    LET starts == Frames(setup.table, Target) IN
    \A p \in DOMAIN table :
      \/ table'[p] = table[p]
      \/ /\ p \in FrameWords(starts)
         /\ table'[p] = PatchedWord(OffsetIn(starts, p))

LEMMA CallLeavesList ==
  ASSUME PatchesIInv, RestIInv, patchesPc # "kernel", calls > 0, doFrameBufferStuff
  PROVE  CallChangesLittle
<1>0. /\ PatchesTyped /\ setup \in Machines /\ DecidedTyped /\ table \in Lists
      /\ framebufferId = Target /\ DOMAIN table = 1..Len(setup.table)
  BY ListFacts DEF PatchesIInv, PatchesTyped, Decisions
<1>1. CASE applyFramebufferPatch
  <2>1. table' = SemanticList(table) /\ Frames(table, Target) = Frames(setup.table, Target)
    BY <1>1, CallSettles
  <2>2. \A p \in 1..Len(setup.table) :
          PatchedList(table)[p] = IF Inside(table, p) /\ WordFor(table, p) # Missing
                                  THEN WordFor(table, p) ELSE table[p]
    BY <1>0, PatchedListWords
  <2>3. ASSUME NEW p \in 1..Len(setup.table)
        PROVE  \/ table'[p] = table[p]
               \/ /\ p \in FrameWords(Frames(setup.table, Target))
                  /\ table'[p] = PatchedWord(OffsetIn(Frames(setup.table, Target), p))
    <3>1. CASE setup.yosemite
      BY <1>0, <2>1, <2>2, <3>1 DEF SemanticList, Inside, WordFor
    <3>2. CASE ~setup.yosemite
      BY <2>1, <3>2 DEF SemanticList
    <3>3. QED
      BY <3>1, <3>2
  <2>4. QED
    BY <1>0, <2>3 DEF CallChangesLittle
<1>2. CASE ~applyFramebufferPatch
  <2>1. applied = <<>>
    BY <1>2 DEF PatchesIInv
  <2>2. table = Once(setup.table)
    BY <2>1 DEF PatchesIInv
  <2>3. table' = Once(table)
    BY <1>2, <2>1, CallLemma
  <2>4. table' = table
    <3>1. Once(Once(setup.table)) = Once(setup.table)
      BY <1>0, ListFacts, OnceFacts
    <3>2. QED
      BY <2>2, <2>3, <3>1, Zenon
  <2>5. QED
    BY <2>4 DEF CallChangesLittle
<1>3. QED
  BY <1>1, <1>2

LEMMA ChangesLemma ==
  ASSUME PatchesIInv, RestIInv, [PatchesNext]_patchesVars
  PROVE  [CallChangesLittle]_patchesVars
<1> SUFFICES ASSUME calls > 0, calls' > calls PROVE CallChangesLittle
  BY DEF CallChangesLittle
<1>0. calls \in Nat /\ patchesPc # "kernel" /\ calls' # calls
  BY DEF PatchesIInv, PatchesTyped
<1>1. ~PatchesProcessKernel /\ ~UNCHANGED patchesVars
  BY <1>0 DEF PatchesProcessKernel, patchesVars
<1>2. doFrameBufferStuff
  BY <1>0, <1>1 DEF PatchesNext, PatchesProcessKext, wrapGetOSInformation
<1>3. QED
  BY <1>0, <1>2, CallLeavesList

\* Calls after the first one leave the list as it is, but for what the semantic
\* patches take back from the binary ones.
THEOREM FirstCallsAreFinal ==
  IdsStay => (PatchesSpec => FirstCallIsFinal)
<1> SUFFICES ASSUME IdsStay PROVE PatchesSpec => FirstCallIsFinal
  OBVIOUS
<1>1. PatchesInit => PatchesIInv /\ RestIInv
  <2>1. PatchesInit => patchesPc = "kernel" /\ ~(calls > 0)
    BY DEF PatchesInit
  <2>2. QED
    BY <2>1, PatchesInitLemma DEF RestIInv
<1>2. PatchesIInv /\ RestIInv /\ [PatchesNext]_patchesVars => PatchesIInv' /\ RestIInv'
  BY PatchesStepLemma, RestStepLemma
<1>3. PatchesIInv /\ RestIInv /\ [PatchesNext]_patchesVars => [CallChangesLittle]_patchesVars
  BY ChangesLemma
<1>4. QED
  BY <1>1, <1>2, <1>3, PTL DEF PatchesSpec, FirstCallIsFinal, CallChangesLittle

===============================================================================
