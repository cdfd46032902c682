----------------------- MODULE BacklightSmootherProofs -----------------------
(***************************************************************************)
(* Proofs about the backlight smoother, for any number of driver threads,  *)
(* levels, steps, ranges and ids.                                          *)
(***************************************************************************)
EXTENDS BacklightSmoother, TLAPS

-----------------------------------------------------------------------------
\* The operators the model is built from

\* A request of which one word was replaced is a request, even if torn.
LEMMA CopyWordType ==
  ASSUME NEW dst \in Requests, NEW src \in Requests, NEW w \in Words
  PROVE  CopyWord(dst, src, w) \in Requests
BY DEF CopyWord, Requests, Fields

\* What a copied word does to each field of a request.
LEMMA CopyWordFields ==
  ASSUME NEW dst \in Requests, NEW src \in Requests, NEW w \in Words
  PROVE  LET r == CopyWord(dst, src, w) IN
         /\ r.controller =
              IF w = {"controller"} THEN src.controller ELSE dst.controller
         /\ r.address =
              IF w = {"address", "target"} THEN src.address ELSE dst.address
         /\ r.target =
              IF w = {"address", "target"} THEN src.target ELSE dst.target
         /\ r.mask = IF w = {"mask", "id"} THEN src.mask ELSE dst.mask
         /\ r.id = IF w = {"mask", "id"} THEN src.id ELSE dst.id
BY DEF CopyWord, Requests, Fields, Words

\* The first request is a request.
LEMMA EmptyRequestType == EmptyRequest \in Requests
BY RangeAssumption, IdAssumption, HighBitsAssumption
   DEF EmptyRequest, Requests, Values, Levels, Addresses

\* A driver thread's request is a request, its id wraps.
LEMMA NewRequestType ==
  ASSUME NEW n \in 0..(IdMod - 1), NEW v \in Values
  PROVE  BrightnessRequest((n + 1) % IdMod, v) \in Requests
<1>1. (n + 1) % IdMod \in 0..(IdMod - 1)
  BY IdAssumption
<1>2. QED
  BY <1>1 DEF BrightnessRequest, Requests, Addresses

\* A level moved into the range is a level.
LEMMA ClampType ==
  ASSUME NEW l \in Levels
  PROVE  Clamp(l) \in Levels
BY RangeAssumption DEF Clamp, Levels

\* Masked values are levels.
LEMMA BrightnessType ==
  ASSUME NEW r \in Requests, NEW v \in Values
  PROVE  /\ getCurrentBrightness(r, v) \in Levels
         /\ getTargetBrightness(r) \in Levels
BY RangeAssumption
   DEF getCurrentBrightness, getTargetBrightness, Requests, Values, Levels

\* A written value is a register value and has the level asked for.
LEMMA RegisterValueType ==
  ASSUME NEW r \in Requests, NEW l \in Levels
  PROVE  /\ getTargetRegisterValue(r, l) \in Values
         /\ getTargetRegisterValue(r, l).lo = l
BY DEF getTargetRegisterValue, Requests, Values

\* Multiplication and division of naturals, in the form the ramp needs.
LEMMA DivBound ==
  ASSUME NEW n \in Nat \ {0}, NEW k \in Nat, k <= n, NEW d \in Nat
  PROVE  /\ (k * d) \div n \in Nat
         /\ (k * d) \div n <= d
<1>1. k * d \in Nat
  OBVIOUS
<1>2. k * d <= n * d
  OBVIOUS
<1>3. (k * d) \div n \in Nat
  BY <1>1
<1>4. n * ((k * d) \div n) <= k * d
  BY <1>1
<1>5. ASSUME (k * d) \div n > d PROVE FALSE
  <2>1. n * ((k * d) \div n) > n * d
    BY <1>3, <1>5
  <2>2. QED
    BY <2>1, <1>2, <1>4, <1>1, <1>3
<1>6. QED
  BY <1>3, <1>5

\* k * d / n does not fall when k grows by one.
LEMMA DivMonotone ==
  ASSUME NEW n \in Nat \ {0}, NEW k \in Nat \ {0}, NEW d \in Nat
  PROVE  ((k - 1) * d) \div n <= (k * d) \div n
<1> DEFINE x == (k - 1) * d
           y == k * d
<1>1. x \in Nat /\ y \in Nat /\ x <= y
  OBVIOUS
<1> HIDE DEF x, y
<1>2. x \div n <= y \div n
  BY <1>1
<1>3. QED
  BY <1>2 DEF x, y

\* The ramp's levels without the machine's arithmetic: nothing overflows.
LEMMA RampLevelValue ==
  ASSUME cb \in Levels, tb \in Levels, NEW k \in 0..(Steps - 1)
  PROVE  LET part == (k * Distance(cb, tb)) \div Steps IN
         /\ part \in 0..Distance(cb, tb)
         /\ RampLevel(k) = IF cb < tb THEN cb + part ELSE cb - part
         /\ RampLevel(k) \in Levels
<1> DEFINE d == Distance(cb, tb)
           part == (k * d) \div Steps
<1>1. d \in Levels /\ d = (IF cb < tb THEN tb - cb ELSE cb - tb)
  BY RangeAssumption DEF Distance, Levels
<1>2. k * d < Wrap /\ k * d \in Nat /\ Wrap \in Nat \ {0}
  <2> HIDE DEF d
  <2>1. \A j \in 0..(Steps - 1), e \in Levels : j * e < Wrap
    BY WrapAssumption
  <2>2. k * d < Wrap
    BY <1>1, <2>1
  <2>3. d \in Nat
    BY <1>1, RangeAssumption DEF Levels
  <2>4. QED
    BY <2>2, <2>3, WrapAssumption
<1>3. (k * d) % Wrap = k * d
  <2> HIDE DEF d
  <2>1. \A x \in Nat : x < Wrap => x % Wrap = x
    BY <1>2
  <2>2. QED
    BY <1>2, <2>1
<1>4. part \in Nat /\ part <= d
  <2> HIDE DEF d
  <2>1. d \in Nat
    BY <1>1, RangeAssumption DEF Levels
  <2>2. QED
    BY <2>1, DivBound, StepsAssumption
<1>5. RampLevel(k) = IF cb < tb THEN (cb + part) % Wrap ELSE (cb - part) % Wrap
  BY <1>3 DEF RampLevel
<1> HIDE DEF d, part
<1>6. /\ cb < tb => cb + part \in Levels
      /\ ~(cb < tb) => cb - part \in Levels
  BY <1>1, <1>4, RangeAssumption DEF Levels
<1>7. \A l \in Levels : l % Wrap = l
  BY WrapAssumption, RangeAssumption DEF Levels
<1>8. RampLevel(k) = IF cb < tb THEN cb + part ELSE cb - part
  BY <1>5, <1>6, <1>7
<1>9. part \in 0..d
  BY <1>1, <1>4, RangeAssumption DEF Levels
<1>10. QED
  BY <1>6, <1>8, <1>9 DEF d, part

\* Each step of the ramp moves on toward the target and stops short of it.
LEMMA RampAdvances ==
  ASSUME cb \in Levels, tb \in Levels, NEW k \in 1..(Steps - 1)
  PROVE  /\ RampLevel(k) \in Levels
         /\ Promise!Between(RampLevel(k), RampLevel(k - 1), tb)
<1> DEFINE d == Distance(cb, tb)
           part(j) == (j * d) \div Steps
<1>1. d \in Nat /\ d = (IF cb < tb THEN tb - cb ELSE cb - tb)
  BY RangeAssumption DEF Distance, Levels
<1>2. k \in 0..(Steps - 1) /\ k - 1 \in 0..(Steps - 1) /\ k \in Nat \ {0}
  BY StepsAssumption
<1>3. /\ part(k) \in 0..d
      /\ RampLevel(k) = IF cb < tb THEN cb + part(k) ELSE cb - part(k)
      /\ RampLevel(k) \in Levels
  BY <1>2, RampLevelValue
<1>4. /\ part(k - 1) \in 0..d
      /\ RampLevel(k - 1) =
           IF cb < tb THEN cb + part(k - 1) ELSE cb - part(k - 1)
  BY <1>2, RampLevelValue
<1>5. part(k - 1) <= part(k)
  <2> HIDE DEF d
  <2>1. QED
    BY <1>1, <1>2, DivMonotone, StepsAssumption
<1> HIDE DEF d, part
<1>6. QED
  BY <1>1, <1>3, <1>4, <1>5, RangeAssumption DEF Levels, Promise!Between

\* The ramp starts from the level that was read.
LEMMA RampStart ==
  ASSUME cb \in Levels, tb \in Levels
  PROVE  RampLevel(0) = cb
<1>1. 0 \in 0..(Steps - 1)
  BY StepsAssumption
<1>2. (0 * Distance(cb, tb)) \div Steps = 0
  BY StepsAssumption, RangeAssumption DEF Distance, Levels
<1>3. RampLevel(0) = IF cb < tb THEN cb + 0 ELSE cb - 0
  BY <1>1, <1>2, RampLevelValue
<1>4. QED
  BY <1>3, RangeAssumption DEF Levels

\* The same about the values after a step.
LEMMA RampStartNext == (cb \in Levels /\ tb \in Levels => RampLevel(0) = cb)'
<1>1. cb \in Levels /\ tb \in Levels => RampLevel(0) = cb
  BY RampStart
<1>2. QED
  BY <1>1, PTL

-----------------------------------------------------------------------------
\* Type correctness

\* A write leaves register values.
LEMMA WritesType ==
  ASSUME TypeOK, NEW l \in Levels, WriteLevel(l)
  PROVE  /\ regs' \in [Addresses -> Values]
         /\ regs'[req.address].lo = l
         /\ \A a \in Addresses \ {req.address} : regs'[a] = regs[a]
<1>1. req \in Requests /\ req.address \in Addresses
  BY DEF TypeOK, Requests
<1>2. QED
  BY <1>1, RegisterValueType DEF TypeOK, WriteLevel

\* The loop counter stays in the loop: what makes TypeOK inductive, since the
\* ramp's levels are levels only for the steps 1 to Steps - 1.
RampIndex == wpc \in {"ramp", "sleep"} => i \in 1..(Steps - 1)

\* The initial state is well typed.
LEMMA TypeInit == Init => TypeOK /\ RampIndex
BY EmptyRequestType, RangeAssumption, StepsAssumption
   DEF Init, TypeOK, RampIndex, Levels

\* The ramp's index stays below the number of steps.
LEMMA RampIndexStep == TypeOK /\ RampIndex /\ [Next]_vars => RampIndex'
<1> SUFFICES ASSUME TypeOK, RampIndex, [Next]_vars PROVE RampIndex'
  OBVIOUS
<1>1. CASE Prepare
  BY <1>1, StepsAssumption DEF Prepare, RampIndex
<1>2. CASE RampWrite
  BY <1>2 DEF RampWrite, RampIndex
<1>3. CASE RampCheck
  BY <1>3, StepsAssumption DEF RampCheck, RampIndex
<1>4. CASE \/ StartPass \/ LoadWord \/ ReturnEmpty \/ ReturnCompleted
           \/ FinalWrite \/ ReturnFinal
  BY <1>4 DEF StartPass, LoadWord, ReturnEmpty, ReturnCompleted, FinalWrite,
              ReturnFinal, RampIndex
<1>5. ASSUME NEW p \in Producers, Finish(p) \/ \E v \in Values : Submit(p, v)
      PROVE  RampIndex'
  BY <1>5 DEF Finish, StoreWord, Enable, Submit, workerVars, RampIndex
<1>6. CASE UNCHANGED vars
  BY <1>6 DEF vars, RampIndex
<1>7. QED
  BY <1>1, <1>2, <1>3, <1>4, <1>5, <1>6 DEF Next, Workloop, checkForWork

\* No step leaves the types.
LEMMA TypeStep == TypeOK /\ RampIndex /\ [Next]_vars => TypeOK'
<1> SUFFICES ASSUME TypeOK, RampIndex, [Next]_vars PROVE TypeOK'
  OBVIOUS
<1>1. ASSUME NEW p \in Producers, NEW v \in Values, Submit(p, v) PROVE TypeOK'
  <2>1. request.id \in 0..(IdMod - 1)
    BY DEF TypeOK, Requests
  <2>2. BrightnessRequest((request.id + 1) % IdMod, v) \in Requests
    BY <2>1, NewRequestType
  <2>3. QED
    BY <1>1, <2>2 DEF Submit, TypeOK, workerVars
<1>2. ASSUME NEW p \in Producers, StoreWord(p) PROVE TypeOK'
  <2>1. PICK w \in todo[p] : /\ request' = CopyWord(request, new[p], w)
                             /\ todo' = [todo EXCEPT ![p] = @ \ {w}]
    BY <1>2 DEF StoreWord
  <2>2. w \in Words /\ new[p] \in Requests /\ request \in Requests
    BY DEF TypeOK
  <2>3. request' \in Requests
    BY <2>1, <2>2, CopyWordType
  <2>4. QED
    BY <1>2, <2>1, <2>3 DEF StoreWord, TypeOK, workerVars
<1>3. ASSUME NEW p \in Producers, Enable(p) PROVE TypeOK'
  BY <1>3, EmptyRequestType DEF Enable, TypeOK, workerVars
<1>4. CASE StartPass
  <2>1. 0 \in Levels /\ 0 \in 0..Steps
    BY RangeAssumption, StepsAssumption DEF Levels
  <2>2. QED
    BY <1>4, <2>1 DEF StartPass, TypeOK, producerVars
<1>5. CASE LoadWord
  <2>1. PICK w \in toload : /\ req' = CopyWord(req, request, w)
                            /\ toload' = toload \ {w}
    BY <1>5 DEF LoadWord
  <2>2. w \in Words /\ req \in Requests /\ request \in Requests
    BY DEF TypeOK
  <2>3. req' \in Requests
    BY <2>1, <2>2, CopyWordType
  <2>4. QED
    BY <1>5, <2>1, <2>3 DEF LoadWord, TypeOK, producerVars
<1>6. CASE ReturnEmpty
  BY <1>6 DEF ReturnEmpty, TypeOK, producerVars
<1>7. CASE ReturnCompleted
  BY <1>7 DEF ReturnCompleted, TypeOK, producerVars
<1>8. CASE Prepare
  <2> DEFINE current == getCurrentBrightness(req, regs[req.address])
             target == getTargetBrightness(req)
  <2>1. req \in Requests /\ regs[req.address] \in Values
    BY DEF TypeOK, Requests
  <2>2. current \in Levels /\ target \in Levels
    BY <2>1, BrightnessType
  <2>3. Clamp(target) \in Levels
    BY <2>2, ClampType
  <2>4. cb' = current /\ tb' = Clamp(target)
    BY <1>8 DEF Prepare
  <2>5. wpc' \in {"ramp", "final"} /\ i' \in 0..Steps
    BY <1>8, StepsAssumption DEF Prepare
  <2>6. QED
    BY <1>8, <2>2, <2>3, <2>4, <2>5 DEF Prepare, TypeOK, producerVars
<1>9. CASE RampWrite
  <2>1. i \in 1..(Steps - 1) /\ WriteLevel(RampLevel(i))
    BY <1>9 DEF RampWrite, RampIndex
  <2>2. RampLevel(i) \in Levels
    BY <2>1, RampAdvances DEF TypeOK
  <2>3. regs' \in [Addresses -> Values]
    BY <2>1, <2>2, WritesType
  <2>4. QED
    BY <1>9, <2>3 DEF RampWrite, TypeOK, producerVars
<1>10. CASE RampCheck
  <2>1. i' \in 0..Steps /\ wpc' \in {"again", "ramp", "final"}
    BY <1>10, StepsAssumption DEF RampCheck, TypeOK
  <2>2. QED
    BY <1>10, <2>1 DEF RampCheck, TypeOK, producerVars
<1>11. CASE FinalWrite
  <2>1. tb \in Levels /\ WriteLevel(tb)
    BY <1>11 DEF FinalWrite, TypeOK
  <2>2. regs' \in [Addresses -> Values]
    BY <2>1, WritesType
  <2>3. QED
    BY <1>11, <2>2 DEF FinalWrite, TypeOK, producerVars
<1>12. CASE ReturnFinal
  BY <1>12 DEF ReturnFinal, TypeOK, producerVars
<1>13. CASE UNCHANGED vars
  BY <1>13 DEF vars, TypeOK
<1>14. QED
  BY <1>1, <1>2, <1>3, <1>4, <1>5, <1>6, <1>7, <1>8, <1>9, <1>10, <1>11,
     <1>12, <1>13
     DEF Next, Finish, Workloop, checkForWork

\* Every field, flag and loop counter stays within its type: in particular
\* the uint32_t arithmetic of the ramp yields a level (kern_igfx_backlight.cpp).
THEOREM TypeCorrect == Safety => []TypeOK
<1>1. QED
  BY TypeInit, TypeStep, RampIndexStep, PTL DEF Safety

-----------------------------------------------------------------------------
\* No request is lost

\* The words a driver thread has stored stay those of some complete request.
Stored(w) ==
  /\ w = {"controller"} => request.controller
  /\ w = {"address", "target"} => request.address = Pwm
  /\ w = {"mask", "id"} => request.mask

SubmissionsComplete ==
  \A p \in Producers :
    IF busy[p]
    THEN /\ new[p].controller /\ new[p].address = Pwm /\ new[p].mask
         /\ \A w \in Words \ todo[p] : Stored(w)
    ELSE todo[p] = {}

\* Nobody is inside a submission and no notification is outstanding: what the
\* workloop copies now is the latest request.
Calm == ~pending /\ \A p \in Producers : ~busy[p]

RequestComplete ==
  (\A p \in Producers : ~busy[p]) /\ request.controller =>
    request.address = Pwm /\ request.mask

\* The fields of the words in ws agree with the shared request.
Copied(w) ==
  /\ w = {"controller"} => req.controller = request.controller
  /\ w = {"address", "target"} => /\ req.address = request.address
                                  /\ req.target = request.target
  /\ w = {"mask", "id"} => req.mask = request.mask /\ req.id = request.id

Moving == wpc \in {"ramp", "sleep", "final", "return"}

CopyIsLatest ==
  Calm => /\ wpc = "copy" => \A w \in Words \ toload : Copied(w)
          /\ Moving => \A w \in Words : Copied(w)
          /\ wpc = "idle" => Settled

\* A pass that moves the level works for a request with a controller and a
\* mask, and has written the target when it returns.
PassTarget ==
  /\ Moving => req.controller /\ req.mask /\ tb = Clamp(req.target.lo)
  /\ wpc = "return" => regs[req.address].lo = tb

IInv == /\ TypeOK
        /\ RampIndex
        /\ SubmissionsComplete
        /\ RequestComplete
        /\ CopyIsLatest
        /\ PassTarget

\* The invariant holds before anything was requested.
LEMMA IInvInit == Init => IInv
<1> SUFFICES ASSUME Init PROVE IInv
  OBVIOUS
<1>1. TypeOK /\ RampIndex
  BY TypeInit
<1>2. SubmissionsComplete /\ RequestComplete /\ CopyIsLatest /\ PassTarget
  BY DEF Init, SubmissionsComplete, RequestComplete, CopyIsLatest, PassTarget,
         Moving, Settled, EmptyRequest
<1>3. QED
  BY <1>1, <1>2 DEF IInv

\* The steps of the driver's threads.
LEMMA IInvSubmit ==
  ASSUME IInv, NEW p \in Producers, NEW v \in Values, Submit(p, v)
  PROVE  /\ SubmissionsComplete' /\ RequestComplete'
         /\ CopyIsLatest' /\ PassTarget'
<1> USE DEF IInv
<1>1. SubmissionsComplete'
  BY DEF Submit, SubmissionsComplete, Stored, BrightnessRequest, TypeOK,
         workerVars
<1>2. busy'[p]
  BY DEF Submit, TypeOK
<1>3. RequestComplete' /\ CopyIsLatest'
  BY <1>2 DEF RequestComplete, CopyIsLatest, Calm
<1>4. PassTarget'
  BY DEF Submit, PassTarget, Moving, workerVars
<1>5. QED
  BY <1>1, <1>3, <1>4

\* Storing a word keeps the invariant, whatever was copied before.
LEMMA IInvStoreWord ==
  ASSUME IInv, NEW p \in Producers, StoreWord(p)
  PROVE  /\ SubmissionsComplete' /\ RequestComplete'
         /\ CopyIsLatest' /\ PassTarget'
<1> USE DEF IInv
<1>1. PICK w \in todo[p] : /\ request' = CopyWord(request, new[p], w)
                           /\ todo' = [todo EXCEPT ![p] = @ \ {w}]
  BY DEF StoreWord
<1>2. busy[p] /\ busy'[p]
  BY <1>1 DEF StoreWord, SubmissionsComplete
<1>3. w \in Words /\ request \in Requests /\ new[p] \in Requests
  BY <1>1 DEF TypeOK
<1>4. /\ new[p].controller /\ new[p].address = Pwm /\ new[p].mask
  BY <1>2 DEF SubmissionsComplete
<1>5. /\ Stored(w)'
      /\ \A x \in Words : Stored(x) => Stored(x)'
  <2>1. /\ request'.controller = IF w = {"controller"}
                                 THEN new[p].controller ELSE request.controller
        /\ request'.address = IF w = {"address", "target"}
                              THEN new[p].address ELSE request.address
        /\ request'.mask = IF w = {"mask", "id"}
                           THEN new[p].mask ELSE request.mask
    BY <1>1, <1>3, CopyWordFields
  <2>2. QED
    BY <2>1, <1>4 DEF Stored
<1>6. SubmissionsComplete'
  <2> SUFFICES ASSUME NEW q \in Producers
               PROVE  IF busy'[q]
                      THEN /\ new'[q].controller /\ new'[q].address = Pwm
                           /\ new'[q].mask
                           /\ \A x \in Words \ todo'[q] : Stored(x)'
                      ELSE todo'[q] = {}
    BY DEF SubmissionsComplete
  <2>1. busy' = busy /\ new' = new
    BY DEF StoreWord
  <2>2. q # p => todo'[q] = todo[q]
    BY <1>1 DEF TypeOK
  <2>3. todo'[p] = todo[p] \ {w}
    BY <1>1 DEF TypeOK
  <2>4. QED
    BY <2>1, <2>2, <2>3, <1>2, <1>5 DEF SubmissionsComplete
<1>7. RequestComplete' /\ CopyIsLatest'
  BY <1>2 DEF RequestComplete, CopyIsLatest, Calm
<1>8. PassTarget'
  BY DEF StoreWord, PassTarget, Moving, workerVars
<1>9. QED
  BY <1>6, <1>7, <1>8

\* Notifying the workloop keeps the invariant.
LEMMA IInvEnable ==
  ASSUME IInv, NEW p \in Producers, Enable(p)
  PROVE  /\ SubmissionsComplete' /\ RequestComplete'
         /\ CopyIsLatest' /\ PassTarget'
<1> USE DEF IInv
<1>1. busy[p] /\ todo[p] = {} /\ ~busy'[p]
  BY DEF Enable, TypeOK
<1>2. request.controller /\ request.address = Pwm /\ request.mask
  BY <1>1 DEF SubmissionsComplete, Words, Stored
<1>3. SubmissionsComplete'
  BY <1>1 DEF Enable, SubmissionsComplete, Stored, TypeOK, workerVars
<1>4. RequestComplete'
  BY <1>2 DEF Enable, RequestComplete
<1>5. CopyIsLatest'
  BY DEF Enable, CopyIsLatest, Calm
<1>6. PassTarget'
  BY DEF Enable, PassTarget, Moving, workerVars
<1>7. QED
  BY <1>3, <1>4, <1>5, <1>6

\* The steps of the workloop leave the request and the submissions alone.
LEMMA WorkloopFrame ==
  ASSUME IInv, Workloop
  PROVE  SubmissionsComplete' /\ RequestComplete'
<1>1. UNCHANGED <<request, todo, new, busy>>
  BY DEF Workloop, checkForWork, StartPass, LoadWord, ReturnEmpty,
         ReturnCompleted, Prepare, RampWrite, RampCheck, FinalWrite,
         ReturnFinal, producerVars
<1>2. QED
  BY <1>1 DEF IInv, SubmissionsComplete, RequestComplete, Stored

\* A step of the workloop keeps the invariant.
LEMMA IInvWorkloop ==
  ASSUME IInv, Workloop
  PROVE  CopyIsLatest' /\ PassTarget'
<1> USE DEF IInv
<1>1. CASE StartPass
  BY <1>1 DEF StartPass, CopyIsLatest, PassTarget, Moving
<1>2. CASE LoadWord
  <2>1. PICK w \in toload : /\ req' = CopyWord(req, request, w)
                            /\ toload' = toload \ {w}
    BY <1>2 DEF LoadWord
  <2>2. w \in Words /\ req \in Requests /\ request \in Requests
    BY <2>1 DEF TypeOK
  <2>3. /\ Copied(w)'
        /\ \A x \in Words : Copied(x) => Copied(x)'
    <3>1. request' = request
      BY <1>2 DEF LoadWord
    <3>2. QED
      BY <2>1, <2>2, <3>1, CopyWordFields DEF Copied
  <2>4. wpc = "copy" /\ wpc' = "copy" /\ Calm' = Calm
    BY <1>2 DEF LoadWord, Calm, producerVars
  <2>5. CopyIsLatest'
    BY <2>1, <2>3, <2>4 DEF CopyIsLatest, Moving
  <2>6. PassTarget'
    BY <2>4 DEF PassTarget, Moving
  <2>7. QED
    BY <2>5, <2>6
<1>3. CASE ReturnEmpty
  <2>1. Calm' = Calm /\ wpc' = "idle" /\ UNCHANGED <<request, regs>>
    BY <1>3 DEF ReturnEmpty, Calm, producerVars
  <2>2. Calm => ~request.controller
    BY <1>3 DEF ReturnEmpty, CopyIsLatest, Copied, Words
  <2>3. QED
    BY <2>1, <2>2 DEF CopyIsLatest, PassTarget, Moving, Settled
<1>4. CASE ReturnCompleted
  <2>1. Calm' = Calm /\ wpc' = "idle" /\ UNCHANGED <<request, regs>>
    BY <1>4 DEF ReturnCompleted, Calm, producerVars
  <2>2. ASSUME Calm PROVE Settled
    <3>1. \A w \in Words : Copied(w)
      BY <1>4, <2>2 DEF ReturnCompleted, CopyIsLatest
    <3>2. req.controller = request.controller /\ req.mask = request.mask
          /\ req.address = request.address /\ req.target = request.target
      BY <3>1 DEF Copied, Words
    <3>3. req.controller /\ req.mask /\ req.address = Pwm
      BY <1>4, <2>2, <3>2 DEF ReturnCompleted, RequestComplete, Calm
    <3>4. regs[Pwm].lo = request.target.lo
      BY <1>4, <3>2, <3>3
         DEF ReturnCompleted, getCurrentBrightness, getTargetBrightness
    <3>5. QED
      BY <3>4 DEF Settled
  <2>3. QED
    BY <2>1, <2>2 DEF CopyIsLatest, PassTarget, Moving, Settled
<1>5. CASE Prepare
  <2>1. /\ Calm' = Calm /\ wpc' \in {"ramp", "final"}
        /\ UNCHANGED <<request, regs, req>>
    BY <1>5 DEF Prepare, Calm, producerVars
  <2>2. Calm => \A w \in Words : Copied(w)
    BY <1>5 DEF Prepare, CopyIsLatest
  <2>3. req.controller /\ req.mask /\ tb' = Clamp(req.target.lo)
    BY <1>5 DEF Prepare, getCurrentBrightness, getTargetBrightness
  <2>4. QED
    BY <2>1, <2>2, <2>3 DEF CopyIsLatest, PassTarget, Moving, Copied
<1>6. CASE RampWrite
  BY <1>6 DEF RampWrite, CopyIsLatest, PassTarget, Moving, Copied, Calm,
              producerVars
<1>7. CASE RampCheck
  BY <1>7 DEF RampCheck, CopyIsLatest, PassTarget, Moving, Copied, Calm,
              producerVars
<1>8. CASE FinalWrite
  <2>1. regs'[req.address].lo = tb
    BY <1>8, WritesType DEF FinalWrite, TypeOK
  <2>2. QED
    BY <1>8, <2>1 DEF FinalWrite, CopyIsLatest, PassTarget, Moving, Copied,
                      Calm, producerVars
<1>9. CASE ReturnFinal
  <2>1. /\ Calm' = Calm /\ wpc' \in {"again", "idle"}
        /\ UNCHANGED <<request, regs>>
    BY <1>9 DEF ReturnFinal, Calm, producerVars
  <2>2. ASSUME Calm PROVE Settled
    <3>1. \A w \in Words : Copied(w)
      BY <1>9, <2>2 DEF ReturnFinal, CopyIsLatest, Moving
    <3>2. req.controller = request.controller
          /\ req.address = request.address /\ req.target = request.target
      BY <3>1 DEF Copied, Words
    <3>3. /\ req.controller /\ tb = Clamp(req.target.lo)
          /\ regs[req.address].lo = tb
      BY <1>9 DEF ReturnFinal, PassTarget, Moving
    <3>4. request.address = Pwm
      BY <2>2, <3>2, <3>3 DEF RequestComplete, Calm
    <3>5. QED
      BY <3>2, <3>3, <3>4 DEF Settled
  <2>3. QED
    BY <2>1, <2>2 DEF CopyIsLatest, PassTarget, Moving, Settled
<1>10. QED
  BY <1>1, <1>2, <1>3, <1>4, <1>5, <1>6, <1>7, <1>8, <1>9
     DEF Workloop, checkForWork

\* No step leaves the invariant.
LEMMA IInvStep == IInv /\ [Next]_vars => IInv'
<1> SUFFICES ASSUME IInv, [Next]_vars PROVE IInv'
  OBVIOUS
<1>1. TypeOK' /\ RampIndex'
  BY TypeStep, RampIndexStep DEF IInv
<1>2. ASSUME NEW p \in Producers, Finish(p) \/ \E v \in Values : Submit(p, v)
      PROVE  /\ SubmissionsComplete' /\ RequestComplete'
             /\ CopyIsLatest' /\ PassTarget'
  BY <1>2, IInvSubmit, IInvStoreWord, IInvEnable DEF Finish
<1>3. CASE Workloop
  BY <1>1, <1>3, WorkloopFrame, IInvWorkloop DEF IInv
<1>4. CASE UNCHANGED vars
  BY <1>4 DEF vars, IInv, TypeOK, RampIndex, SubmissionsComplete, Stored,
              RequestComplete, CopyIsLatest, Copied, Moving, Calm, Settled,
              PassTarget
<1>5. QED
  BY <1>1, <1>2, <1>3, <1>4 DEF Next, IInv

\* For all constants and any number of driver threads.
THEOREM InductiveInvariant == Safety => []IInv
<1>1. QED
  BY IInvInit, IInvStep, PTL DEF Safety

\* Whatever the interleaving of the driver's threads with the workloop, and
\* however a copy of the request is torn, the workloop only goes to sleep for
\* good when the register shows the latest request (checkForWork, enable()).
THEOREM NoRequestLost == Safety => []QuietMeansSettled
<1>1. IInv => QuietMeansSettled
  BY DEF IInv, CopyIsLatest, Calm, QuietMeansSettled, Quiet
<1>2. QED
  BY <1>1, InductiveInvariant, PTL

-----------------------------------------------------------------------------
\* The smoother implements the promise

\* While the ramp runs, the register holds the level of its last step, and the
\* workloop's copy has a controller only once the shared request has one.
RampProgress ==
  /\ wpc = "ramp" => regs[req.address].lo = RampLevel(i - 1)
  /\ wpc = "sleep" => regs[req.address].lo = RampLevel(i)
  /\ req.controller => request.controller

\* Nothing has been ramped at first.
LEMMA RampProgressInit == Init => RampProgress
BY DEF Init, RampProgress, EmptyRequest

\* The register is where the ramp has left it.
LEMMA RampProgressStep == IInv /\ RampProgress /\ [Next]_vars => RampProgress'
<1> SUFFICES ASSUME IInv, RampProgress, [Next]_vars PROVE RampProgress'
  OBVIOUS
<1> USE DEF IInv
<1>1. ASSUME NEW p \in Producers, StoreWord(p) PROVE RampProgress'
  <2>1. PICK w \in todo[p] : request' = CopyWord(request, new[p], w)
    BY <1>1 DEF StoreWord
  <2>2. busy[p]
    BY <2>1 DEF SubmissionsComplete
  <2>3. w \in Words /\ new[p] \in Requests /\ request \in Requests
        /\ new[p].controller
    BY <2>2 DEF TypeOK, SubmissionsComplete
  <2>4. request.controller => request'.controller
    BY <2>1, <2>3, CopyWordFields
  <2>5. QED
    BY <1>1, <2>4 DEF StoreWord, RampProgress, RampLevel, workerVars
<1>2. ASSUME NEW p \in Producers, Enable(p) \/ \E v \in Values : Submit(p, v)
      PROVE  RampProgress'
  BY <1>2 DEF Enable, Submit, RampProgress, RampLevel, workerVars
<1>3. CASE LoadWord
  <2>1. PICK w \in toload : req' = CopyWord(req, request, w)
    BY <1>3 DEF LoadWord
  <2>2. w \in Words /\ req \in Requests /\ request \in Requests
    BY DEF TypeOK
  <2>3. req'.controller => request.controller
    BY <2>1, <2>2, CopyWordFields DEF RampProgress
  <2>4. QED
    BY <1>3, <2>3 DEF LoadWord, RampProgress
<1>4. CASE Prepare
  <2>1. wpc' = "ramp" => i' - 1 = 0
    BY <1>4 DEF Prepare
  <2>2. cb' \in Levels /\ tb' \in Levels
    BY <1>4, TypeStep DEF TypeOK
  <2>3. RampLevel(0)' = cb'
    BY <2>2, RampStartNext
  <2>4. req.mask
    BY <1>4 DEF Prepare, getCurrentBrightness, getTargetBrightness
  <2>5. cb' = regs[req.address].lo /\ regs' = regs /\ req' = req
    BY <1>4, <2>4 DEF Prepare, getCurrentBrightness
  <2>6. QED
    BY <1>4, <2>1, <2>3, <2>5 DEF Prepare, RampProgress
<1>5. CASE RampWrite
  <2>1. regs'[req.address].lo = RampLevel(i)
    <3>1. RampLevel(i) \in Levels
      BY <1>5, RampAdvances DEF RampWrite, RampIndex, TypeOK
    <3>2. QED
      BY <1>5, <3>1, WritesType DEF RampWrite
  <2>2. QED
    BY <1>5, <2>1 DEF RampWrite, RampProgress, RampLevel
<1>6. CASE RampCheck
  <2>1. wpc' = "ramp" => i' = i + 1 /\ (i + 1) - 1 = i
    BY <1>6 DEF RampCheck, TypeOK
  <2>2. QED
    BY <1>6, <2>1 DEF RampCheck, RampProgress, RampLevel
<1>7. CASE \/ StartPass \/ ReturnEmpty \/ ReturnCompleted \/ FinalWrite
           \/ ReturnFinal
  BY <1>7 DEF StartPass, ReturnEmpty, ReturnCompleted, FinalWrite,
              ReturnFinal, RampProgress
<1>8. CASE UNCHANGED vars
  BY <1>8 DEF vars, RampProgress, RampLevel
<1>9. QED
  BY <1>1, <1>2, <1>3, <1>4, <1>5, <1>6, <1>7, <1>8
     DEF Next, Finish, Workloop, checkForWork

\* The initial states map to initial states of the promise.
LEMMA PromiseInit == Init => Promise!Init
BY HighBitsAssumption
   DEF Init, Promise!Init, Promise!Levels, Promise!Clamp, Clamp, EmptyRequest,
       Values, Levels, Addresses

\* A write of level l on the way to the target of the pass.
LEMMA WriteMoves ==
  ASSUME IInv, RampProgress, Moving, NEW l \in Levels, WriteLevel(l),
         Promise!Between(l, regs[req.address].lo, tb),
         UNCHANGED <<request, req>>
  PROVE  [Promise!Next]_(Promise!vars)
<1>1. /\ regs \in [Addresses -> Values] /\ regs' \in [Addresses -> Values]
      /\ regs'[req.address].lo = l
      /\ req.address # Pwm => regs'[Pwm] = regs[Pwm]
  BY WritesType DEF IInv, TypeOK, Addresses
<1>2. request.controller /\ tb = Clamp(req.target.lo)
  BY DEF IInv, PassTarget, RampProgress
<1>3. CASE regs'[Pwm].lo = regs[Pwm].lo
  BY <1>3 DEF Promise!vars
<1>4. CASE regs'[Pwm].lo # regs[Pwm].lo
  <2>1. req.address = Pwm
    BY <1>1, <1>4
  <2>2. Promise!Between(regs'[Pwm].lo, regs[Pwm].lo, Clamp(req.target.lo))
    BY <1>1, <1>2, <2>1
  <2>3. regs[Pwm].lo # Clamp(req.target.lo)
    BY <1>1, <1>4, <2>1, <2>2
       DEF Promise!Between, Values, Levels, Addresses
  <2>4. Promise!Move
    BY <1>1, <1>2, <1>4, <2>1, <2>2, <2>3
       DEF Promise!Move, Promise!Levels, Promise!Clamp, Clamp, Levels
  <2>5. QED
    BY <2>4 DEF Promise!Next
<1>5. QED
  BY <1>3, <1>4

\* A step maps to a step of the promise, or to a stutter.
LEMMA PromiseStep ==
  IInv /\ RampProgress /\ [Next]_vars => [Promise!Next]_(Promise!vars)
<1> SUFFICES ASSUME IInv, RampProgress, [Next]_vars
             PROVE  [Promise!Next]_(Promise!vars)
  OBVIOUS
<1>1. ASSUME NEW p \in Producers, StoreWord(p)
      PROVE  [Promise!Next]_(Promise!vars)
  <2>1. PICK w \in todo[p] : request' = CopyWord(request, new[p], w)
    BY <1>1 DEF StoreWord
  <2>2. busy[p]
    BY <2>1 DEF IInv, SubmissionsComplete
  <2>3. w \in Words /\ new[p] \in Requests /\ request \in Requests
        /\ new[p].controller
    BY <2>2 DEF IInv, TypeOK, SubmissionsComplete
  <2>4. request'.controller \in {request.controller, TRUE}
    <3>1. new[p].controller = TRUE
      BY <2>3 DEF Requests
    <3>2. \/ request'.controller = new[p].controller
          \/ request'.controller = request.controller
      BY <2>1, <2>3, CopyWordFields
    <3>3. QED
      BY <3>1, <3>2, Zenon
  <2>5. request'.target.lo \in Levels
    BY <2>1, <2>3, CopyWordType DEF Requests, Values
  <2>6. Promise!Request
    BY <1>1, <2>4, <2>5
       DEF StoreWord, workerVars, Promise!Request, Promise!Levels, Levels
  <2>7. QED
    BY <2>6 DEF Promise!Next
<1>2. CASE LoadWord
  <2>1. PICK w \in toload : req' = CopyWord(req, request, w)
    BY <1>2 DEF LoadWord
  <2>2. w \in Words /\ req \in Requests /\ request \in Requests
    BY DEF IInv, TypeOK
  <2>3. req'.target \in {req.target, request.target}
    BY <2>1, <2>2, CopyWordFields
  <2>4. Promise!Retarget \/ UNCHANGED Promise!vars
    BY <1>2, <2>3
       DEF LoadWord, Promise!Retarget, Promise!vars, Promise!Clamp, Clamp
  <2>5. QED
    BY <2>4 DEF Promise!Next
<1>3. CASE RampWrite
  <2>1. i \in 1..(Steps - 1) /\ cb \in Levels /\ tb \in Levels
    BY <1>3 DEF RampWrite, IInv, RampIndex, TypeOK
  <2>2. /\ RampLevel(i) \in Levels
        /\ Promise!Between(RampLevel(i), regs[req.address].lo, tb)
    BY <1>3, <2>1, RampAdvances DEF RampWrite, RampProgress
  <2>3. Moving /\ WriteLevel(RampLevel(i)) /\ UNCHANGED <<request, req>>
    BY <1>3 DEF RampWrite, Moving
  <2>4. QED
    BY <2>2, <2>3, WriteMoves
<1>4. CASE FinalWrite
  <2>1. tb \in Levels /\ regs[req.address].lo \in Levels
    BY DEF IInv, TypeOK, Requests, Values
  <2>2. Promise!Between(tb, regs[req.address].lo, tb)
    BY <2>1, RangeAssumption DEF Promise!Between, Levels
  <2>3. Moving /\ WriteLevel(tb) /\ UNCHANGED <<request, req>>
    BY <1>4 DEF FinalWrite, Moving
  <2>4. QED
    BY <2>1, <2>2, <2>3, WriteMoves
<1>5. CASE \/ StartPass \/ ReturnEmpty \/ ReturnCompleted \/ Prepare
           \/ RampCheck \/ ReturnFinal
  BY <1>5 DEF StartPass, ReturnEmpty, ReturnCompleted, Prepare, RampCheck,
              ReturnFinal, Promise!vars
<1>6. ASSUME NEW p \in Producers, Enable(p) \/ \E v \in Values : Submit(p, v)
      PROVE  [Promise!Next]_(Promise!vars)
  BY <1>6 DEF Enable, Submit, workerVars, Promise!vars
<1>7. CASE UNCHANGED vars
  BY <1>7 DEF vars, Promise!vars
<1>8. QED
  BY <1>1, <1>2, <1>3, <1>4, <1>5, <1>6, <1>7
     DEF Next, Finish, Workloop, checkForWork

\* Whatever the workloop copies and whenever the request is replaced, each
\* write of checkForWork moves the panel toward the clamped level of some
\* request and not past it.
THEOREM SmootherImplementsPromise == Safety => ImplementsPromise
<1>1. Safety => []RampProgress
  BY RampProgressInit, RampProgressStep, InductiveInvariant, PTL DEF Safety
<1>2. QED
  BY <1>1, PromiseInit, PromiseStep, InductiveInvariant, PTL
     DEF Safety, ImplementsPromise, Promise!Safety
=============================================================================
