----------------------- MODULE RadeonConnectorsProofs -----------------------
(***************************************************************************)
(* For any number of threads and controllers and all that a BIOS and a     *)
(* user may say of them: a controller gets the connectors of its own       *)
(* properties, their transmitters are corrected, and their priorities      *)
(* follow the user's list.                                                 *)
(*                                                                         *)
(* The table of providers has an entry for the thread exactly while that   *)
(* thread starts a controller, and no two threads start the same one.      *)
(* What the loop over the BIOS's paths computes is proved by least         *)
(* counterexample; for the loops of reprioritiseConnectors the invariant   *)
(* says which of the passes so far counts for each connector.              *)
(***************************************************************************)
EXTENDS RadeonConnectors, FiniteSetTheorems, WellFoundedInduction, TLAPS

IsFunction(f) == f = [t \in Threads |-> f[t]]

Shapes ==
  /\ setup \in [Controllers -> Setups]
  /\ starting \in [Threads -> Controllers \cup {None}]
  /\ slot \in [Families -> [Threads -> Controllers \cup {None}]]
  /\ fbLimit \in [Controllers -> Int]
  /\ phase \in [Threads -> {"out", "asked", "ordering", "answered"}]
  /\ asking \in [Threads -> Controllers \cup {None}]
  /\ IsFunction(connectors)
  /\ sz \in [Threads -> Int]

\* The table says which controller a thread starts.
SlotsRight ==
  /\ \A t \in Threads : starting[t] # None =>
       slot[Family(starting[t])][t] = starting[t]
  /\ \A f \in Families, t \in Threads : slot[f][t] # None =>
       slot[f][t] = starting[t] /\ f = Family(starting[t])

StartsOnce ==
  \A t, u \in Threads : starting[t] = starting[u] /\ starting[t] # None => t = u

AsksOwn ==
  \A t \in Threads : phase[t] # "out" =>
    asking[t] \in Controllers /\ starting[t] \in {asking[t], None}

Fresh ==
  \A t \in Threads : phase[t] = "asked" =>
    /\ connectors[t] = Answer(highSierra, dviSingleLink, setup[asking[t]])
    /\ sz[t] = Len(setup[asking[t]].objects)

OrdersDetected ==
  \A t \in Threads : phase[t] = "ordering" =>
    starting[t] = asking[t] /\ setup[asking[t]].kind = "none"

IInv == /\ Shapes /\ SlotsRight /\ StartsOnce /\ AsksOwn /\ Fresh
        /\ OrdersDetected /\ OwnOverrides

\* What the assumptions say of a setup.
LEMMA SetupFacts ==
  ASSUME NEW s \in Setups
  PROVE  /\ s.family \in Families
         /\ s.count \in Nat \cup {-1} /\ Len(s.objects) \in Nat
         /\ s.kind \in {"none", "wrongType", "data"}
         /\ s.limit \in Nat \cup {-1}
BY SetupAssumption DEF SetupType

\* A thread that starts nothing finds an entry.
LEMMA EntryFree ==
  ASSUME Shapes, SlotsRight, NEW f \in Families, NEW t \in Threads,
         starting[t] = None
  PROVE  CanSet(f, t)
<1> DEFINE Taken == {u \in Threads : slot[f][u] # None}
<1>1. Taken \subseteq Threads \ {t}
  BY DEF SlotsRight
<1>2. IsFiniteSet(Threads \ {t}) /\ Cardinality(Threads \ {t}) = Cardinality(Threads) - 1
  BY SlotsAssumption, FS_RemoveElement
<1>3. Cardinality(Taken) <= Cardinality(Threads \ {t})
  BY <1>1, <1>2, FS_Subset
<1>4. Cardinality(Threads) \in Nat /\ Cardinality(Taken) \in Nat
  BY <1>1, <1>2, SlotsAssumption, FS_CardinalityType, FS_Subset
<1>5. Cardinality(Taken) < Slots
  BY <1>2, <1>3, <1>4, SlotsAssumption
<1>6. QED
  BY <1>5 DEF CanSet

\* The provider a wrapper finds is the controller it works for, or nothing
\* outside of a start.
LEMMA ProviderIsOwn ==
  ASSUME IInv, NEW t \in Threads, phase[t] # "out"
  PROVE  /\ starting[t] = None => Provider(t) = None
         /\ starting[t] # None => Provider(t) = asking[t] /\ starting[t] = asking[t]
<1>1. asking[t] \in Controllers /\ Family(asking[t]) \in Families
  BY SetupFacts DEF IInv, AsksOwn, Shapes, Family
<1>2. QED
  BY <1>1, NoneAssumption DEF IInv, SlotsRight, AsksOwn, Provider

\* The invariant holds before any controller starts.
LEMMA InitInv == Init => IInv
BY DEF Init, IInv, Shapes, IsFunction, SlotsRight, StartsOnce, AsksOwn, Fresh,
       OrdersDetected, OwnOverrides, OwnAnswer

\* The other threads' calls do not notice a step that changes neither their
\* variables nor the limit of their controller.
Unnoticed(u) ==
  /\ phase'[u] = phase[u] /\ asking'[u] = asking[u]
  /\ starting'[u] = starting[u] \/ phase[u] = "out"
  /\ connectors'[u] = connectors[u] /\ sz'[u] = sz[u]
  /\ phase[u] # "out" /\ starting[u] # None =>
       fbLimit'[asking[u]] = fbLimit[asking[u]]

\* What one thread does is not noticed by the others.
LEMMA OthersKeep ==
  ASSUME IInv, UNCHANGED machine, NEW u \in Threads, Unnoticed(u)
  PROVE  /\ phase'[u] # "out" =>
              asking'[u] \in Controllers /\ starting'[u] \in {asking'[u], None}
         /\ phase'[u] = "asked" =>
              /\ connectors'[u] = Answer(highSierra', dviSingleLink', setup'[asking'[u]])
              /\ sz'[u] = Len(setup'[asking'[u]].objects)
         /\ phase'[u] = "ordering" =>
              starting'[u] = asking'[u] /\ setup'[asking'[u]].kind = "none"
         /\ phase'[u] = "answered" => OwnAnswer(u)'
<1>1. CASE phase[u] = "out"
  BY <1>1 DEF Unnoticed
<1>2. CASE phase[u] # "out"
  BY <1>2 DEF IInv, AsksOwn, Fresh, OrdersDetected, OwnOverrides, OwnAnswer,
              machine, Unnoticed
<1>3. QED
  BY <1>1, <1>2

\* Steps that do not touch the providers keep what is said of them.
LEMMA ProvidersKept ==
  ASSUME IInv, UNCHANGED <<machine, starting, slot>>
  PROVE  SlotsRight' /\ StartsOnce'
BY DEF IInv, SlotsRight, StartsOnce, Family, machine

-----------------------------------------------------------------------------
(* One lemma per action                                                    *)

\* The start fills the thread's own entry: there is a free one.
LEMMA StartControllerInv ==
  ASSUME IInv, NEW t \in Threads, NEW c \in Controllers, StartController(t, c)
  PROVE  IInv'
<1> USE DEF StartController
<1>1. Family(c) \in Families /\ c # None
  BY SetupFacts, NoneAssumption DEF IInv, Shapes, Family
<1>2. slot' = [slot EXCEPT ![Family(c)][t] = c]
  BY <1>1, EntryFree DEF IInv
<1>3. Shapes'
  BY <1>1, <1>2 DEF IInv, Shapes, IsFunction, machine
<1>4. \A f \in Families, u \in Threads :
        slot'[f][u] = IF f = Family(c) /\ u = t THEN c ELSE slot[f][u]
  BY <1>1, <1>2 DEF IInv, Shapes
<1>5. \A u \in Threads : starting'[u] = IF u = t THEN c ELSE starting[u]
  BY DEF IInv, Shapes
<1>6. \A f \in Families : slot[f][t] = None
  BY DEF IInv, SlotsRight
<1>7. \A d : Family(d)' = Family(d)
  BY DEF Family, machine
<1>8. SlotsRight'
  BY <1>1, <1>4, <1>5, <1>6, <1>7 DEF IInv, SlotsRight
<1>9. StartsOnce'
  BY <1>5 DEF IInv, StartsOnce
<1>10. \A u \in Threads : Unnoticed(u)
  BY <1>5 DEF Unnoticed
<1>11. QED
  BY <1>3, <1>8, <1>9, <1>10, OthersKeep
     DEF IInv, AsksOwn, Fresh, OrdersDetected, OwnOverrides

\* The end of a start clears the thread's own entry.
LEMMA ControllerStartedInv ==
  ASSUME IInv, NEW t \in Threads, ControllerStarted(t)
  PROVE  IInv'
<1> USE DEF ControllerStarted
<1>1. starting[t] \in Controllers /\ Family(starting[t]) \in Families
  BY SetupFacts DEF IInv, Shapes, Family
<1>2. Shapes'
  BY <1>1 DEF IInv, Shapes, IsFunction, machine
<1>3. \A f \in Families, u \in Threads :
        slot'[f][u] = IF f = Family(starting[t]) /\ u = t THEN None ELSE slot[f][u]
  BY <1>1 DEF IInv, Shapes
<1>4. \A u \in Threads : starting'[u] = IF u = t THEN None ELSE starting[u]
  BY DEF IInv, Shapes
<1>5. \A d : Family(d)' = Family(d)
  BY DEF Family, machine
<1>6. SlotsRight'
  BY <1>3, <1>4, <1>5 DEF IInv, SlotsRight
<1>7. StartsOnce'
  BY <1>4 DEF IInv, StartsOnce
<1>8. \A u \in Threads : Unnoticed(u)
  BY <1>4 DEF Unnoticed
<1>9. QED
  BY <1>2, <1>6, <1>7, <1>8, OthersKeep
     DEF IInv, AsksOwn, Fresh, OrdersDetected, OwnOverrides

\* A call starts with the answer of the BIOS.
LEMMA GetConnectorsInfoInv ==
  ASSUME IInv, NEW t \in Threads, NEW c \in Controllers, GetConnectorsInfo(t, c)
  PROVE  IInv'
<1> USE DEF GetConnectorsInfo
<1>1. setup[c] \in Setups
  BY DEF IInv, Shapes
<1>2. Shapes'
  <2>1. IsFunction(connectors)'
    BY DEF IInv, Shapes, IsFunction
  <2>2. Len(setup[c].objects) \in Int
    BY <1>1, SetupFacts
  <2>3. sz' \in [Threads -> Int]
    BY <2>2 DEF IInv, Shapes
  <2>4. QED
    BY <2>1, <2>3 DEF IInv, Shapes, machine
<1>3. SlotsRight' /\ StartsOnce'
  BY ProvidersKept
<1>4. \A u \in Threads \ {t} : Unnoticed(u)
  BY DEF Unnoticed, IInv, Shapes
<1>5. /\ phase'[t] = "asked" /\ asking'[t] = c /\ starting'[t] \in {c, None}
      /\ connectors'[t] = Answer(highSierra, dviSingleLink, setup[c])
      /\ sz'[t] = Len(setup[c].objects)
  BY DEF IInv, Shapes, IsFunction
<1>6. QED
  BY <1>2, <1>3, <1>4, <1>5, OthersKeep
     DEF IInv, AsksOwn, Fresh, OrdersDetected, OwnOverrides, machine

\* Without a provider the answer stays.
LEMMA KeepConnectorsInv ==
  ASSUME IInv, NEW t \in Threads, KeepConnectors(t)
  PROVE  IInv'
<1> USE DEF KeepConnectors
<1>1. starting[t] = None
  BY ProviderIsOwn
<1>2. Shapes'
  BY DEF IInv, Shapes, IsFunction, machine
<1>3. SlotsRight' /\ StartsOnce'
  BY ProvidersKept
<1>4. \A u \in Threads \ {t} : Unnoticed(u)
  BY DEF Unnoticed, IInv, Shapes
<1>5. phase'[t] = "answered" /\ asking[t] \in Controllers
  BY DEF IInv, Shapes, AsksOwn
<1>6. OwnAnswer(t)'
  BY <1>1 DEF IInv, Fresh, OwnAnswer, machine
<1>7. QED
  BY <1>1, <1>2, <1>3, <1>4, <1>5, <1>6, OthersKeep
     DEF IInv, AsksOwn, Fresh, OrdersDetected, OwnOverrides, machine

\* A limit that one thread sets is not the one of another thread's controller.
LEMMA LimitsApart ==
  ASSUME IInv, NEW t \in Threads, NEW u \in Threads \ {t},
         starting[t] = asking[t], starting[t] # None,
         phase[u] # "out", starting[u] # None
  PROVE  asking[u] # asking[t]
BY DEF IInv, StartsOnce, AsksOwn

\* The connectors the user gave are those of the controller that starts.
LEMMA OverrideConnectorsInv ==
  ASSUME IInv, NEW t \in Threads, OverrideConnectors(t)
  PROVE  IInv'
<1> DEFINE c == Provider(t)
           s == setup[c]
           n == ConnectorCount(s, sz[t])
           accepted == s.kind = "data" /\ n > 0 /\ Len(s.overrides) = n
<1>1. c = asking[t] /\ starting[t] = asking[t] /\ c \in Controllers /\ s \in Setups
  BY ProviderIsOwn DEF OverrideConnectors, IInv, AsksOwn, Shapes
<1>2. /\ phase[t] = "asked" /\ phase' = [phase EXCEPT ![t] = "answered"]
      /\ sz' = [sz EXCEPT ![t] = n]
      /\ accepted => /\ connectors' = [connectors EXCEPT ![t] = s.overrides]
                     /\ fbLimit' = LimitedTo(c, n)
      /\ ~accepted => UNCHANGED <<connectors, fbLimit>>
      /\ UNCHANGED <<machine, starting, slot, asking, loop>>
  BY DEF OverrideConnectors
<1>3. sz[t] = Len(s.objects)
  BY <1>1, <1>2 DEF IInv, Fresh
<1>4. n \in Int
  BY <1>1, <1>3, SetupFacts, WidthAssumption DEF ConnectorCount
<1>5. /\ \A d \in Controllers \ {c} : fbLimit'[d] = fbLimit[d]
      /\ accepted /\ highSierra /\ s.limit = -1 => fbLimit'[c] = n
      /\ fbLimit' \in [Controllers -> Int]
  <2>1. CASE accepted /\ highSierra /\ s.limit = -1
    <3>1. fbLimit' = [fbLimit EXCEPT ![c] = n]
      BY <1>2, <2>1 DEF LimitedTo
    <3>2. QED
      BY <1>1, <1>4, <3>1 DEF IInv, Shapes
  <2>2. CASE ~(accepted /\ highSierra /\ s.limit = -1)
    <3>1. fbLimit' = fbLimit
      BY <1>2, <2>2 DEF LimitedTo
    <3>2. QED
      BY <2>2, <3>1 DEF IInv, Shapes
  <2>3. QED
    BY <2>1, <2>2
<1>6. IsFunction(connectors)'
  BY <1>2 DEF IInv, Shapes, IsFunction
<1>7. Shapes'
  BY <1>2, <1>4, <1>5, <1>6 DEF IInv, Shapes, machine
<1>8. SlotsRight' /\ StartsOnce'
  BY <1>2, ProvidersKept
<1>9. \A u \in Threads \ {t} : connectors'[u] = connectors[u]
  BY <1>2 DEF IInv, Shapes, IsFunction
<1>10. \A u \in Threads \ {t} : Unnoticed(u)
  BY <1>1, <1>2, <1>5, <1>9, LimitsApart, NoneAssumption
     DEF Unnoticed, IInv, Shapes, AsksOwn
<1>11. phase'[t] = "answered" /\ asking'[t] = c /\ starting'[t] = c
  BY <1>1, <1>2 DEF IInv, Shapes
<1>12. accepted => connectors'[t] = s.overrides /\ sz'[t] = n
  BY <1>2 DEF IInv, Shapes, IsFunction
<1>13. OwnAnswer(t)'
  BY <1>1, <1>2, <1>3, <1>5, <1>11, <1>12, NoneAssumption
     DEF OwnAnswer, ConnectorCount, machine
<1>14. QED
  BY <1>1, <1>2, <1>7, <1>8, <1>10, <1>11, <1>13, OthersKeep
     DEF IInv, AsksOwn, Fresh, OrdersDetected, OwnOverrides

\* Detected connectors are corrected, and no overrides are due.
LEMMA CorrectConnectorsInv ==
  ASSUME IInv, NEW t \in Threads, CorrectConnectors(t)
  PROVE  IInv'
<1> DEFINE c == Provider(t)
<1>1. /\ c = asking[t] /\ starting[t] = asking[t] /\ c \in Controllers
      /\ setup[c] \in Setups /\ setup[c].kind = "none"
  BY ProviderIsOwn DEF CorrectConnectors, IInv, AsksOwn, Shapes
<1>2. /\ phase[t] = "asked"
      /\ \E p \in {"ordering", "answered"} : phase' = [phase EXCEPT ![t] = p]
      /\ \E x : connectors' = [connectors EXCEPT ![t] = x]
      /\ fbLimit' = LimitedTo(c, sz[t])
      /\ UNCHANGED <<machine, starting, slot, asking, sz>>
  BY DEF CorrectConnectors
<1>3. /\ \A d \in Controllers \ {c} : fbLimit'[d] = fbLimit[d]
      /\ fbLimit' \in [Controllers -> Int]
  BY <1>1, <1>2 DEF LimitedTo, IInv, Shapes
<1>4. IsFunction(connectors)' /\ \A u \in Threads \ {t} : connectors'[u] = connectors[u]
  BY <1>2 DEF IInv, Shapes, IsFunction
<1>5. Shapes'
  BY <1>2, <1>3, <1>4 DEF IInv, Shapes, machine
<1>6. SlotsRight' /\ StartsOnce'
  BY <1>2, ProvidersKept
<1>7. \A u \in Threads \ {t} : Unnoticed(u)
  BY <1>1, <1>2, <1>3, <1>4, LimitsApart, NoneAssumption
     DEF Unnoticed, IInv, Shapes, AsksOwn
<1>8. /\ phase'[t] \in {"ordering", "answered"} /\ asking'[t] = c /\ starting'[t] = c
      /\ setup'[c].kind = "none"
  BY <1>1, <1>2 DEF IInv, Shapes, machine
<1>9. OwnAnswer(t)'
  BY <1>1, <1>8, NoneAssumption DEF OwnAnswer
<1>10. QED
  BY <1>1, <1>5, <1>6, <1>7, <1>8, <1>9, <1>2, OthersKeep
     DEF IInv, AsksOwn, Fresh, OrdersDetected, OwnOverrides

\* The steps of the loop change a call that no override has answered.
LEMMA LoopInv ==
  ASSUME IInv, NEW t \in Threads, Reorder(t) \/ NextPass(t) \/ Ordered(t)
  PROVE  IInv'
<1>1. /\ phase[t] = "ordering"
      /\ phase' = phase \/ phase' = [phase EXCEPT ![t] = "answered"]
      /\ connectors' = connectors \/ \E x : connectors' = [connectors EXCEPT ![t] = x]
      /\ UNCHANGED <<machine, starting, slot, fbLimit, asking, sz>>
  BY DEF Reorder, NextPass, Ordered, loop
<1>2. IsFunction(connectors)' /\ \A u \in Threads \ {t} : connectors'[u] = connectors[u]
  BY <1>1 DEF IInv, Shapes, IsFunction
<1>3. Shapes'
  BY <1>1, <1>2 DEF IInv, Shapes, machine
<1>4. SlotsRight' /\ StartsOnce'
  BY <1>1, ProvidersKept
<1>5. \A u \in Threads \ {t} : Unnoticed(u)
  BY <1>1, <1>2 DEF Unnoticed, IInv, Shapes
<1>6. /\ phase'[t] \in {"ordering", "answered"} /\ starting'[t] = asking'[t]
      /\ asking'[t] \in Controllers /\ setup'[asking'[t]].kind = "none"
  BY <1>1 DEF IInv, Shapes, OrdersDetected, AsksOwn, machine
<1>7. OwnAnswer(t)'
  BY <1>6, NoneAssumption DEF OwnAnswer
<1>8. QED
  BY <1>3, <1>4, <1>5, <1>6, <1>7, <1>1, OthersKeep
     DEF IInv, AsksOwn, Fresh, OrdersDetected, OwnOverrides

\* After a call nothing of it is left.
LEMMA ReturnInv ==
  ASSUME IInv, NEW t \in Threads, Return(t)
  PROVE  IInv'
<1> USE DEF Return
<1>1. Shapes'
  <2>1. IsFunction(connectors)'
    BY DEF IInv, Shapes, IsFunction
  <2>2. QED
    BY <2>1 DEF IInv, Shapes, machine
<1>2. SlotsRight' /\ StartsOnce'
  BY ProvidersKept
<1>3. phase'[t] = "out" /\ \A u \in Threads \ {t} : Unnoticed(u)
  BY DEF Unnoticed, IInv, Shapes, IsFunction
<1>4. QED
  BY <1>1, <1>2, <1>3, OthersKeep
     DEF IInv, AsksOwn, Fresh, OrdersDetected, OwnOverrides

\* Nothing changes when nothing happens.
LEMMA StutterInv == ASSUME IInv, UNCHANGED vars PROVE IInv'
<1>1. Shapes'
  BY DEF IInv, Shapes, IsFunction, vars, machine
<1>2. SlotsRight' /\ StartsOnce'
  BY ProvidersKept DEF vars
<1>3. \A u \in Threads : Unnoticed(u)
  BY DEF Unnoticed, vars
<1>4. QED
  BY <1>1, <1>2, <1>3, OthersKeep
     DEF IInv, AsksOwn, Fresh, OrdersDetected, OwnOverrides, vars

\* No step leaves the invariant.
LEMMA NextInv == ASSUME IInv, [Next]_vars PROVE IInv'
<1>1. CASE UNCHANGED vars
  BY <1>1, StutterInv
<1>2. ASSUME NEW t \in Threads, updateConnectorsInfo(t) PROVE IInv'
  BY <1>2, KeepConnectorsInv, OverrideConnectorsInv, CorrectConnectorsInv, LoopInv
     DEF updateConnectorsInfo
<1>3. ASSUME NEW t \in Threads, NEW c \in Controllers,
             \/ StartController(t, c) \/ RefuseController(t, c)
             \/ GetConnectorsInfo(t, c)
      PROVE  IInv'
  BY <1>3, StartControllerInv, GetConnectorsInfoInv, StutterInv
     DEF RefuseController
<1>4. QED
  BY <1>1, <1>2, <1>3, ControllerStartedInv, ReturnInv DEF Next

-----------------------------------------------------------------------------
\* A controller gets the connectors of its own properties, however many
\* threads start controllers at the same time (wrapATIControllerStart and the
\* wrappers of getConnectorsInfo), if the table has an entry for each of them.
THEOREM OverridesAreOwn == Spec => []OwnOverrides
<1>1. IInv => OwnOverrides
  BY DEF IInv
<1>2. Spec => []IInv
  BY InitInv, NextInv, PTL DEF Spec
<1>3. QED
  BY <1>1, <1>2, PTL

-----------------------------------------------------------------------------
(* Detected connectors                                                     *)

\* What is kept of a connector that the driver has found.
Records == [type : Types, sense : 0..16, transmitter : Nat, priority : Nat]

\* cons are the connectors of setup s, in the order of its paths.
OfPaths(s, cons) ==
  /\ cons \in [1..Len(s.objects) -> Records]
  /\ \A k \in 1..Len(s.objects) :
       cons[k].type = s.objects[k].type /\ cons[k].sense = s.objects[k].sense

\* The path has a sense id of its own and an encoder that getTxEnc knows.
Known(s, k) ==
  /\ s.objects[k].sense # 0 /\ s.objects[k].encoder # "other"
  /\ \A l \in 1..Len(s.objects) : l # k => s.objects[l].sense # s.objects[k].sense

Corrected(s, cons) ==
  \A k \in 1..Len(s.objects) :
    Known(s, k) => cons[k].transmitter = getTxEnc(s.objects[k])

\* Thread t is in, or at the end of, a call whose connectors were detected.
Detecting(t) ==
  /\ phase[t] \in {"ordering", "answered"} /\ starting[t] # None
  /\ setup[asking[t]].kind = "none"

DetectedRight(t) ==
  Detecting(t) =>
    LET s == setup[asking[t]]
    IN  /\ sz[t] = Len(s.objects) /\ OfPaths(s, connectors[t])
        /\ dviSingleLink /\ s.tablesAgree => Corrected(s, connectors[t])

-----------------------------------------------------------------------------
(* Priorities                                                              *)

LastPass(s) == Len(s.priority) + typeNum + 1

\* The list of the user speaks of the first connector with a sense id.
FirstOfSense(s, k) ==
  \A l \in 1..Len(s.objects) : l < k => s.objects[l].sense # s.objects[k].sense

\* The passes, counted from 1, that may give connector k a priority.
Hits(s, k) ==
  {p \in 1..LastPass(s) :
     \/ /\ p <= Len(s.priority) /\ s.priority[p] = s.objects[k].sense
        /\ FirstOfSense(s, k)
     \/ /\ Len(s.priority) < p /\ p < LastPass(s)
        /\ typeList[p - Len(s.priority)] = s.objects[k].type
     \/ p = LastPass(s)}

\* Those of them that the loop has come to, after a passes and b connectors.
HitsSoFar(s, a, b, k) == {p \in Hits(s, k) : p <= a \/ (p = a + 1 /\ k <= b)}

\* p is the pass whose priority counts: the last one of the user's list, or else
\* the first one.
Counts(m, S, p) ==
  /\ p \in S
  /\ \A q \in S : IF p <= m THEN q <= p \/ q > m ELSE p <= q

\* What the loop has done after a passes, b connectors and with the next
\* priority c.
Prioritised(s, a, b, c, cons) ==
  LET N == Len(s.objects)
      m == Len(s.priority)
      S(k) == HitsSoFar(s, a, b, k)
  IN  /\ a \in 0..LastPass(s) /\ b \in 0..N
      /\ c >= 1 /\ c <= 1 + a * N + b
      /\ \A k \in 1..N : cons[k].priority < c /\ (cons[k].priority = 0 <=> S(k) = {})
      /\ \A k, l \in 1..N : \A p, q \in 1..LastPass(s) :
           Counts(m, S(k), p) /\ Counts(m, S(l), q) /\ (p < q \/ (p = q /\ k < l))
           => cons[k].priority < cons[l].priority
      /\ a < m /\ b < N => \A l \in 1..b : s.objects[l].sense # s.priority[a + 1]

PrioritiesRight(t) ==
  Detecting(t) /\ setup[asking[t]].ordered =>
    LET s == setup[asking[t]]
    IN  /\ i[t] \in 0..(ByteMod - 1)
        /\ phase[t] = "answered" => LastPass(s) <= i[t]
        /\ LastPass(s) < ByteMod =>
             Prioritised(s, i[t], j[t], priCount[t], connectors[t])

-----------------------------------------------------------------------------
(* The corrections                                                         *)

Less == {ss \in Nat \X Nat : ss[1] < ss[2]}

\* A set of naturals that is not empty has a least element.
LEMMA LeastElement ==
  ASSUME NEW T \in SUBSET Nat, T # {}
  PROVE  \E m \in T : \A n \in T : m <= n
<1>1. Less = OpToRel(<, Nat)
  BY Zenon DEF Less, OpToRel
<1>2. IsWellFoundedOn(Less, Nat)
  BY <1>1, NatLessThanWellFounded, Zenon
<1>3. PICK m \in T : \A n \in T : ~(<<n, m>> \in Less)
  BY <1>2, WFMin, Zenon
<1>4. ASSUME NEW n \in T PROVE m <= n
  <2>1. n \in Nat /\ m \in Nat
    OBVIOUS
  <2>2. CASE n < m
    <3>1. <<n, m>> \in Less
      BY <2>1, <2>2 DEF Less
    <3>2. QED
      BY <1>3, <3>1, Zenon
  <2>3. QED
    BY <2>1, <2>2
<1>5. QED
  BY <1>4

\* The encoders' bytes are naturals whose low half passes the driver's mask.
LEMMA TxEncFacts ==
  ASSUME NEW o \in Objects
  PROVE  /\ getTxEnc(o) \in Nat /\ getTxEnc(o) % 16 \in Nat
         /\ Masked(getTxEnc(o) % 16)
<1>1. getTxEnc(o) \in Nat
  <2>1. CASE o.encoder = "other"
    BY <2>1 DEF getTxEnc
  <2>2. CASE o.encoder # "other"
    <3>1. TxLow[o.encoder] \in Nat
      BY <2>2 DEF Objects, TxLow
    <3>2. QED
      BY <2>2, <3>1 DEF getTxEnc
  <2>3. QED
    BY <2>1, <2>2
<1>2. getTxEnc(o) % 16 \in 0..15
  BY <1>1
<1>3. QED
  BY <1>1, <1>2 DEF Masked

\* The driver loses bits of some types' transmitters only.
LEMMA FoundFacts ==
  ASSUME NEW o \in Objects
  PROVE  /\ Found(o) \in Records
         /\ Found(o).type = o.type /\ Found(o).sense = o.sense
         /\ Found(o).priority = 0
         /\ o.type \notin Affected => Found(o).transmitter = getTxEnc(o)
         /\ o.type \in Affected => Masked(Found(o).transmitter)
<1>1. o.type \in Types /\ o.sense \in 0..16
  BY DEF Objects
<1>2. QED
  BY <1>1, TxEncFacts DEF Found, Records

\* The connectors after one path o: only the first with its sense id may differ.
OneCorrection(dvi, N, cons, o, result) ==
  /\ result \in [1..N -> Records]
  /\ \A k \in 1..N :
       /\ result[k].type = cons[k].type /\ result[k].sense = cons[k].sense
       /\ result[k].priority = cons[k].priority
       /\ cons[k].sense # o.sense \/ o.type \notin Affected =>
            result[k].transmitter = cons[k].transmitter
       /\ /\ dvi /\ o.encoder # "other" /\ o.sense # 0 /\ o.type \in Affected
          /\ cons[k].sense = o.sense /\ Masked(cons[k].transmitter)
          /\ \A l \in 1..N : l # k => cons[l].sense # o.sense
          => result[k].transmitter = getTxEnc(o)

\* autocorrectConnector is such a step.
LEMMA CorrectOne ==
  ASSUME NEW dvi, NEW N \in Nat, NEW cons \in [1..N -> Records], NEW o \in Objects
  PROVE  OneCorrection(dvi, N, cons, o, autocorrectConnector(dvi, cons, o))
<1> DEFINE same == {k \in DOMAIN cons : cons[k].sense = o.sense}
           first == CHOOSE k \in same : \A l \in same : k <= l
           wanted == /\ dvi
                     /\ o.encoder # "other" /\ o.sense # 0 /\ o.type \in Affected
                     /\ same # {} /\ Masked(cons[first].transmitter)
           result == autocorrectConnector(dvi, cons, o)
<1>1. result = IF wanted THEN [cons EXCEPT ![first].transmitter = getTxEnc(o)] ELSE cons
  BY Zenon DEF autocorrectConnector
<1>2. \A k \in 1..N : k \in same <=> cons[k].sense = o.sense
  OBVIOUS
<1>3. same # {} => first \in same
  <2>1. same \in SUBSET Nat
    OBVIOUS
  <2>2. same # {} => \E m \in same : \A n \in same : m <= n
    BY <2>1, LeastElement, Zenon
  <2>3. QED
    BY <2>2, Zenon
<1>4. same \subseteq 1..N
  OBVIOUS
<1>5. getTxEnc(o) \in Nat
  BY TxEncFacts
<1> HIDE DEF same, first, result
<1>6. CASE ~wanted
  <2>1. result = cons
    BY <1>1, <1>6
  <2>2. ASSUME NEW k \in 1..N, dvi, o.encoder # "other", o.sense # 0, o.type \in Affected,
               cons[k].sense = o.sense, Masked(cons[k].transmitter),
               \A l \in 1..N : l # k => cons[l].sense # o.sense
        PROVE  FALSE
    <3>1. same # {} /\ first = k
      BY <1>2, <1>3, <1>4, <2>2
    <3>2. QED
      BY <3>1, <1>6, <2>2
  <2>3. QED
    BY <2>1, <2>2 DEF result, OneCorrection
<1>7. CASE wanted
  <2>1. first \in 1..N /\ cons[first].sense = o.sense /\ o.type \in Affected
    BY <1>2, <1>3, <1>4, <1>7
  <2>2. result = [cons EXCEPT ![first].transmitter = getTxEnc(o)]
    BY <1>1, <1>7
  <2>3. result \in [1..N -> Records]
    BY <2>1, <2>2, <1>5 DEF Records
  <2>4. \A k \in 1..N : result[k] =
          IF k = first THEN [cons[k] EXCEPT !.transmitter = getTxEnc(o)] ELSE cons[k]
    BY <2>1, <2>2
  <2>5. ASSUME NEW k \in 1..N
        PROVE  /\ result[k].type = cons[k].type /\ result[k].sense = cons[k].sense
               /\ result[k].priority = cons[k].priority
               /\ result[k].transmitter =
                    IF k = first THEN getTxEnc(o) ELSE cons[k].transmitter
    <3>1. cons[k] \in Records
      OBVIOUS
    <3>2. QED
      BY <3>1, <2>4 DEF Records
  <2>6. ASSUME NEW k \in 1..N, \A l \in 1..N : l # k => cons[l].sense # o.sense
        PROVE  k = first
    BY <2>1, <2>6
  <2>7. QED
    BY <2>1, <2>3, <2>5, <2>6 DEF result, OneCorrection
<1>8. QED
  BY <1>6, <1>7

\* The connectors after each of the first n paths.
CorrectionLoop(dvi, cons, objs, n, f) ==
  /\ f \in [0..n -> [1..Len(objs) -> Records]]
  /\ f[0] = cons
  /\ \A k \in 1..n : f[k] = autocorrectConnector(dvi, f[k - 1], objs[k])

\* The loop comes to its end.
LEMMA CorrectionEnds ==
  ASSUME NEW dvi, NEW objs \in Seq(Objects), NEW cons \in [1..Len(objs) -> Records],
         NEW n \in 0..Len(objs)
  PROVE  \E f : CorrectionLoop(dvi, cons, objs, n, f)
<1> DEFINE Bad == {m \in 0..Len(objs) : ~\E f : CorrectionLoop(dvi, cons, objs, m, f)}
<1>0. Len(objs) \in Nat /\ \A k \in 1..Len(objs) : objs[k] \in Objects
  OBVIOUS
<1> SUFFICES Bad = {}
  OBVIOUS
<1>1. SUFFICES ASSUME Bad # {} PROVE FALSE
  OBVIOUS
<1>2. PICK m \in Bad : \A k \in Bad : m <= k
  <2>1. Bad \in SUBSET Nat
    BY <1>0
  <2>2. QED
    BY <1>1, <2>1, LeastElement, Zenon
<1>3. m \in 0..Len(objs) /\ ~\E f : CorrectionLoop(dvi, cons, objs, m, f)
  OBVIOUS
<1>4. m # 0
  <2>1. CorrectionLoop(dvi, cons, objs, 0, [k \in 0..0 |-> cons])
    BY DEF CorrectionLoop
  <2>2. QED
    BY <1>3, <2>1
<1>5. m - 1 \in 0..Len(objs) /\ m - 1 \notin Bad
  <2>1. m - 1 \in 0..Len(objs) /\ ~(m <= m - 1)
    BY <1>0, <1>3, <1>4
  <2>2. QED
    BY <1>2, <2>1, Zenon
<1>6. PICK f : CorrectionLoop(dvi, cons, objs, m - 1, f)
  BY <1>5
<1> DEFINE next == autocorrectConnector(dvi, f[m - 1], objs[m])
           g == [k \in 0..m |-> IF k = m THEN next ELSE f[k]]
<1>7. f \in [0..(m - 1) -> [1..Len(objs) -> Records]]
  BY <1>6 DEF CorrectionLoop
<1>8. next \in [1..Len(objs) -> Records]
  <2>1. f[m - 1] \in [1..Len(objs) -> Records] /\ objs[m] \in Objects
    BY <1>0, <1>3, <1>4, <1>7
  <2>2. QED
    BY <1>0, <2>1, CorrectOne DEF OneCorrection
<1> HIDE DEF next
<1>9. g \in [0..m -> [1..Len(objs) -> Records]]
  BY <1>3, <1>7, <1>8
<1>10. g[0] = cons
  BY <1>3, <1>4, <1>6 DEF CorrectionLoop
<1>11. ASSUME NEW k \in 1..m PROVE g[k] = autocorrectConnector(dvi, g[k - 1], objs[k])
  <2>1. g[k - 1] = f[k - 1]
    BY <1>3
  <2>2. CASE k = m
    BY <2>1, <2>2, <1>3 DEF next
  <2>3. CASE k # m
    <3>1. k \in 1..(m - 1) /\ g[k] = f[k]
      BY <2>3, <1>3
    <3>2. QED
      BY <2>1, <3>1, <1>6 DEF CorrectionLoop
  <2>4. QED
    BY <2>2, <2>3
<1>12. CorrectionLoop(dvi, cons, objs, m, g)
  BY <1>9, <1>10, <1>11 DEF CorrectionLoop
<1>13. QED
  BY <1>3, <1>12

\* autocorrectConnectors is the end of that loop.
LEMMA CorrectionIsLoop ==
  ASSUME NEW dvi, NEW objs \in Seq(Objects), NEW cons \in [1..Len(objs) -> Records]
  PROVE  \E f : /\ CorrectionLoop(dvi, cons, objs, Len(objs), f)
                /\ autocorrectConnectors(dvi, cons, objs) = f[Len(objs)]
<1> DEFINE n == Len(objs)
           Loop(corrected) == [k \in 0..n |->
             IF k = 0 THEN cons
             ELSE autocorrectConnector(dvi, corrected[k - 1], objs[k])]
           g == CHOOSE corrected : corrected = Loop(corrected)
<1>0. n \in Nat /\ \A k \in 1..n : objs[k] \in Objects
  OBVIOUS
<1>1. autocorrectConnectors(dvi, cons, objs) = g[n]
  BY Zenon DEF autocorrectConnectors
<1>2. PICK f : CorrectionLoop(dvi, cons, objs, n, f)
  <2>1. n \in 0..Len(objs)
    BY <1>0
  <2>2. QED
    BY <2>1, CorrectionEnds, Zenon
<1>3. f = Loop(f)
  <2>1. ASSUME NEW k \in 0..n PROVE f[k] = Loop(f)[k]
    BY <2>1, <1>2 DEF CorrectionLoop
  <2>2. f = [k \in 0..n |-> f[k]] /\ Loop(f) = [k \in 0..n |-> Loop(f)[k]]
    BY <1>2 DEF CorrectionLoop
  <2>3. QED
    BY <2>1, <2>2
<1>4. g = Loop(g)
  BY <1>3, Zenon
<1> HIDE DEF g
<1>5. g[0] = cons
  BY <1>0, <1>4
<1>6. ASSUME NEW k \in 1..n PROVE g[k] = autocorrectConnector(dvi, g[k - 1], objs[k])
  <2>1. k \in 0..n /\ k # 0
    BY <1>0
  <2>2. g[k] = Loop(g)[k]
    BY <1>4, Zenon
  <2>3. QED
    BY <2>1, <2>2
<1>7. \A k \in 0..n : g[k] \in [1..n -> Records]
  <2> DEFINE Bad == {k \in 0..n : g[k] \notin [1..n -> Records]}
  <2>1. SUFFICES ASSUME Bad # {} PROVE FALSE
    OBVIOUS
  <2>2. PICK m \in Bad : \A k \in Bad : m <= k
    <3>1. Bad \in SUBSET Nat
      BY <1>0
    <3>2. QED
      BY <2>1, <3>1, LeastElement, Zenon
  <2>3. m \in 1..n /\ g[m] \notin [1..n -> Records]
    BY <1>0, <1>5
  <2>4. g[m - 1] \in [1..n -> Records]
    <3>1. m - 1 \in 0..n /\ ~(m <= m - 1)
      BY <1>0, <2>3
    <3>2. m - 1 \notin Bad
      BY <2>2, <3>1, Zenon
    <3>3. QED
      BY <3>1, <3>2
  <2>5. g[m] = autocorrectConnector(dvi, g[m - 1], objs[m]) /\ objs[m] \in Objects
    BY <1>0, <1>6, <2>3
  <2>6. g[m] \in [1..n -> Records]
    <3>1. OneCorrection(dvi, n, g[m - 1], objs[m],
                        autocorrectConnector(dvi, g[m - 1], objs[m]))
      BY <1>0, <2>4, <2>5, CorrectOne, Zenon
    <3>2. QED
      BY <2>5, <3>1 DEF OneCorrection
  <2>7. QED
    BY <2>3, <2>6
<1>8. g \in [0..n -> [1..n -> Records]]
  <2>1. g = [k \in 0..n |-> g[k]]
    BY <1>4
  <2>2. QED
    BY <2>1, <1>7
<1>9. CorrectionLoop(dvi, cons, objs, n, g)
  BY <1>5, <1>6, <1>8 DEF CorrectionLoop
<1>10. QED
  BY <1>1, <1>9

\* After n paths the connectors of those paths are right, the others as found.
CorrectedSoFar(s, n, cons) ==
  /\ OfPaths(s, cons) /\ \A k \in 1..Len(s.objects) : cons[k].priority = 0
  /\ \A k \in 1..Len(s.objects) : Known(s, k) =>
       cons[k].transmitter = IF k <= n THEN getTxEnc(s.objects[k])
                             ELSE Found(s.objects[k]).transmitter

\* A path corrects its own connector and no other one with a sense id of its own.
LEMMA CorrectNext ==
  ASSUME NEW s, s.objects \in Seq(Objects), NEW n \in 1..Len(s.objects), NEW cons,
         CorrectedSoFar(s, n - 1, cons), NEW dvi, dvi
  PROVE  CorrectedSoFar(s, n, autocorrectConnector(dvi, cons, s.objects[n]))
<1> DEFINE N == Len(s.objects)
           o == s.objects[n]
           result == autocorrectConnector(dvi, cons, o)
<1>1. N \in Nat /\ o \in Objects /\ \A k \in 1..N : s.objects[k] \in Objects
  OBVIOUS
<1>2. /\ cons \in [1..N -> Records]
      /\ \A k \in 1..N : /\ cons[k].type = s.objects[k].type
                         /\ cons[k].sense = s.objects[k].sense /\ cons[k].priority = 0
  BY DEF CorrectedSoFar, OfPaths
<1>3. OneCorrection(dvi, N, cons, o, result)
  BY <1>1, <1>2, CorrectOne, Zenon
<1> HIDE DEF result
<1>4. OfPaths(s, result) /\ \A k \in 1..N : result[k].priority = 0
  BY <1>2, <1>3 DEF OfPaths, OneCorrection
<1>5. ASSUME NEW k \in 1..N, Known(s, k)
      PROVE  result[k].transmitter = IF k <= n THEN getTxEnc(s.objects[k])
                                     ELSE Found(s.objects[k]).transmitter
  <2>1. cons[k].transmitter = IF k <= n - 1 THEN getTxEnc(s.objects[k])
                              ELSE Found(s.objects[k]).transmitter
    BY <1>5 DEF CorrectedSoFar
  <2>2. CASE k # n
    <3>1. cons[k].sense # o.sense
      BY <1>2, <1>5, <2>2 DEF Known
    <3>2. k <= n <=> k <= n - 1
      BY <1>1, <2>2
    <3>3. QED
      BY <1>2, <1>3, <2>1, <3>1, <3>2 DEF OneCorrection
  <2>3. CASE k = n
    <3>1. cons[k].transmitter = Found(o).transmitter
      BY <1>1, <2>1, <2>3
    <3>2. CASE o.type \in Affected
      <4>1. \A l \in 1..N : l # k => cons[l].sense # o.sense
        BY <1>2, <1>5, <2>3 DEF Known
      <4>2. Masked(cons[k].transmitter)
        BY <1>1, <3>1, <3>2, FoundFacts
      <4>3. QED
        BY <1>2, <1>3, <1>5, <2>3, <3>2, <4>1, <4>2 DEF Known, OneCorrection
    <3>3. CASE o.type \notin Affected
      BY <1>1, <1>3, <2>3, <3>1, <3>3, FoundFacts DEF OneCorrection
    <3>4. QED
      BY <3>2, <3>3
  <2>4. QED
    BY <2>2, <2>3
<1>6. QED
  BY <1>4, <1>5 DEF CorrectedSoFar, result

\* Whether or not it corrects, a path leaves the connectors those of the setup.
LEMMA CorrectKeepsPaths ==
  ASSUME NEW s, s.objects \in Seq(Objects), NEW n \in 1..Len(s.objects), NEW cons,
         OfPaths(s, cons), \A k \in 1..Len(s.objects) : cons[k].priority = 0, NEW dvi
  PROVE  /\ OfPaths(s, autocorrectConnector(dvi, cons, s.objects[n]))
         /\ \A k \in 1..Len(s.objects) :
              autocorrectConnector(dvi, cons, s.objects[n])[k].priority = 0
<1>1. Len(s.objects) \in Nat /\ s.objects[n] \in Objects
  OBVIOUS
<1>2. cons \in [1..Len(s.objects) -> Records]
  BY DEF OfPaths
<1>3. OneCorrection(dvi, Len(s.objects), cons, s.objects[n],
                    autocorrectConnector(dvi, cons, s.objects[n]))
  BY <1>1, <1>2, CorrectOne, Zenon
<1>4. QED
  BY <1>2, <1>3 DEF OfPaths, OneCorrection

\* All paths together correct all connectors with sense ids of their own.
LEMMA CorrectAll ==
  ASSUME NEW s, s.objects \in Seq(Objects), NEW cons, CorrectedSoFar(s, 0, cons),
         NEW dvi
  PROVE  /\ OfPaths(s, autocorrectConnectors(dvi, cons, s.objects))
         /\ \A k \in 1..Len(s.objects) :
              autocorrectConnectors(dvi, cons, s.objects)[k].priority = 0
         /\ dvi => Corrected(s, autocorrectConnectors(dvi, cons, s.objects))
<1> DEFINE N == Len(s.objects)
           Good(n, c) == /\ OfPaths(s, c) /\ \A k \in 1..N : c[k].priority = 0
                         /\ dvi => CorrectedSoFar(s, n, c)
<1>1. N \in Nat
  OBVIOUS
<1>2. cons \in [1..N -> Records]
  BY DEF CorrectedSoFar, OfPaths
<1>3. PICK f : /\ CorrectionLoop(dvi, cons, s.objects, N, f)
               /\ autocorrectConnectors(dvi, cons, s.objects) = f[N]
  BY <1>2, CorrectionIsLoop
<1>4. Good(0, f[0])
  BY <1>3 DEF CorrectionLoop, CorrectedSoFar
<1>5. ASSUME NEW n \in 1..N, Good(n - 1, f[n - 1]) PROVE Good(n, f[n])
  <2>1. f[n] = autocorrectConnector(dvi, f[n - 1], s.objects[n])
    BY <1>3 DEF CorrectionLoop
  <2>2. OfPaths(s, f[n]) /\ \A k \in 1..N : f[n][k].priority = 0
    <3>1. OfPaths(s, f[n - 1]) /\ \A k \in 1..N : f[n - 1][k].priority = 0
      BY <1>5
    <3>2. /\ OfPaths(s, autocorrectConnector(dvi, f[n - 1], s.objects[n]))
          /\ \A k \in 1..N :
               autocorrectConnector(dvi, f[n - 1], s.objects[n])[k].priority = 0
      BY <3>1, CorrectKeepsPaths, Zenon
    <3>3. QED
      BY <2>1, <3>2
  <2>3. dvi => CorrectedSoFar(s, n, f[n])
    BY <1>5, <2>1, CorrectNext
  <2>4. QED
    BY <2>2, <2>3
<1>6. Good(N, f[N])
  <2> DEFINE Bad == {n \in 0..N : ~Good(n, f[n])}
  <2> HIDE DEF Good
  <2>1. SUFFICES ASSUME Bad # {} PROVE FALSE
    BY <1>1
  <2>2. PICK m \in Bad : \A k \in Bad : m <= k
    <3>1. Bad \in SUBSET Nat
      BY <1>1
    <3>2. QED
      BY <2>1, <3>1, LeastElement, Zenon
  <2>3. m \in 1..N /\ ~Good(m, f[m])
    BY <1>1, <1>4
  <2>4. m - 1 \in 0..N /\ ~(m <= m - 1)
    BY <1>1, <2>3
  <2>5. m - 1 \notin Bad
    BY <2>2, <2>4, Zenon
  <2>6. Good(m - 1, f[m - 1])
    BY <2>4, <2>5
  <2>7. QED
    BY <1>5, <2>3, <2>6, Zenon
<1>7. \A k \in 1..N : k <= N
  BY <1>1
<1>8. QED
  BY <1>3, <1>6, <1>7 DEF CorrectedSoFar, Corrected

\* The parser's answer: from 10.13 on it is corrected already.
LEMMA AnswerFacts ==
  ASSUME NEW s, s.objects \in Seq(Objects), NEW hs, NEW dvi
  PROVE  LET cons == Answer(hs, dvi, s)
         IN  /\ OfPaths(s, cons)
             /\ \A k \in 1..Len(s.objects) : cons[k].priority = 0
             /\ ~(hs /\ s.family = "modern") => CorrectedSoFar(s, 0, cons)
             /\ hs /\ s.family = "modern" /\ dvi => Corrected(s, cons)
<1> DEFINE N == Len(s.objects)
           cons == Answer(hs, dvi, s)
           one(o) == autocorrectConnector(dvi, <<Found(o)>>, o)
<1>1. N \in Nat /\ DOMAIN s.objects = 1..N /\ \A k \in 1..N : s.objects[k] \in Objects
  OBVIOUS
<1>2. /\ DOMAIN cons = 1..N /\ cons = [k \in 1..N |-> cons[k]]
      /\ \A k \in 1..N : cons[k] = IF hs /\ s.family = "modern"
                                   THEN one(s.objects[k])[1] ELSE Found(s.objects[k])
  BY <1>1 DEF Answer
<1>3. ASSUME NEW o \in Objects
      PROVE  /\ one(o)[1] \in Records /\ one(o)[1].type = o.type
             /\ one(o)[1].sense = o.sense /\ one(o)[1].priority = 0
             /\ dvi /\ o.encoder # "other" /\ o.sense # 0 =>
                  one(o)[1].transmitter = getTxEnc(o)
  <2>1. Found(o) \in Records
    BY FoundFacts
  <2> DEFINE single == [k \in 1..1 |-> Found(o)]
  <2>2. single = <<Found(o)>>
    OBVIOUS
  <2>3. /\ single \in [1..1 -> Records] /\ single[1] = Found(o) /\ 1 \in 1..1
        /\ \A k \in 1..1 : k = 1
    BY <2>1
  <2>4. one(o) = autocorrectConnector(dvi, single, o)
    BY <2>2
  <2> HIDE DEF single, one
  <2>5. OneCorrection(dvi, 1, single, o, one(o))
    BY <2>3, <2>4, CorrectOne, Zenon
  <2>6. /\ Found(o).type = o.type /\ Found(o).sense = o.sense /\ Found(o).priority = 0
        /\ o.type \notin Affected => Found(o).transmitter = getTxEnc(o)
        /\ o.type \in Affected => Masked(Found(o).transmitter)
    BY FoundFacts
  <2>7. /\ one(o)[1] \in Records
        /\ one(o)[1].type = o.type /\ one(o)[1].sense = o.sense
        /\ one(o)[1].priority = 0
    BY <2>3, <2>5, <2>6 DEF OneCorrection
  <2>8. ASSUME dvi, o.encoder # "other", o.sense # 0
        PROVE  one(o)[1].transmitter = getTxEnc(o)
    BY <2>3, <2>5, <2>6, <2>8 DEF OneCorrection
  <2>9. QED
    BY <2>7, <2>8
<1> HIDE DEF one, cons
<1>4. OfPaths(s, cons) /\ \A k \in 1..N : cons[k].priority = 0
  <2>1. ASSUME NEW k \in 1..N
        PROVE  /\ cons[k] \in Records /\ cons[k].priority = 0
               /\ cons[k].type = s.objects[k].type /\ cons[k].sense = s.objects[k].sense
    <3>1. s.objects[k] \in Objects
      BY <1>1
    <3>2. CASE hs /\ s.family = "modern"
      BY <1>2, <1>3, <3>1, <3>2
    <3>3. CASE ~(hs /\ s.family = "modern")
      BY <1>2, <3>1, <3>3, FoundFacts
    <3>4. QED
      BY <3>2, <3>3
  <2>2. cons \in [1..N -> Records]
    BY <1>2, <2>1
  <2>3. QED
    BY <2>1, <2>2 DEF OfPaths
<1>5. ~(hs /\ s.family = "modern") => CorrectedSoFar(s, 0, cons)
  <2>1. ASSUME ~(hs /\ s.family = "modern"), NEW k \in 1..N
        PROVE  cons[k] = Found(s.objects[k]) /\ ~(k <= 0)
    <3>1. cons[k] = Found(s.objects[k])
      BY <1>2, <2>1, Zenon
    <3>2. ~(k <= 0)
      BY <1>1
    <3>3. QED
      BY <3>1, <3>2
  <2>2. QED
    BY <1>4, <2>1 DEF CorrectedSoFar
<1>6. hs /\ s.family = "modern" /\ dvi => Corrected(s, cons)
  BY <1>1, <1>2, <1>3 DEF Corrected, Known
<1>7. QED
  BY <1>4, <1>5, <1>6 DEF cons

-----------------------------------------------------------------------------
(* The priorities                                                          *)

\* A finite set of numbers has a largest one.
LEMMA LargestElement ==
  ASSUME NEW N \in Nat, NEW S \in SUBSET (1..N), S # {}
  PROVE  \E m \in S : \A n \in S : n <= m
<1> DEFINE T == {N - x : x \in S}
<1>0. \A x \in S : x \in Nat /\ N - x \in Nat
  OBVIOUS
<1>1. T \in SUBSET Nat /\ T # {}
  BY <1>0
<1>2. PICK m \in T : \A n \in T : m <= n
  BY <1>1, LeastElement, Zenon
<1>3. PICK y \in S : m = N - y
  OBVIOUS
<1>4. ASSUME NEW x \in S PROVE x <= y
  <2>1. m <= N - x
    BY <1>2
  <2>2. QED
    BY <1>0, <1>3, <2>1
<1>5. QED
  BY <1>4

\* What is known of a setup's numbers.
LEMMA SetupNumbers ==
  ASSUME NEW s \in Setups
  PROVE  /\ s.objects \in Seq(Objects) /\ s.priority \in Seq(0..16)
         /\ Len(s.objects) \in Nat /\ Len(s.objects) < ByteMod
         /\ DOMAIN s.objects = 1..Len(s.objects)
         /\ \A k \in 1..Len(s.objects) : s.objects[k] \in Objects
         /\ Len(s.priority) \in Nat /\ DOMAIN s.priority = 1..Len(s.priority)
         /\ typeNum = 5 /\ LastPass(s) = Len(s.priority) + 6
<1>1. s.objects \in Seq(Objects) /\ s.priority \in Seq(0..16) /\ Len(s.objects) < ByteMod
  BY SetupAssumption DEF SetupType
<1>2. typeNum = 5
  BY DEF typeNum, typeList
<1>3. QED
  BY <1>1, <1>2 DEF LastPass

\* What fits into a byte is not cut.
LEMMA SmallModulo == ASSUME NEW B \in Nat \ {0}, NEW x \in Nat, x < B PROVE x % B = x
OBVIOUS

\* The product of passes and connectors stays within a word.
LEMMA CounterFits ==
  ASSUME NEW a \in Nat, NEW b \in Nat, NEW N \in Nat, b <= N, N < ByteMod,
         a < ByteMod - 1, NEW c \in Nat, c <= 1 + a * N + b
  PROVE  c + 1 < WordMod /\ (c + 1) % WordMod = c + 1
<1> DEFINE B == ByteMod
<1>1. B \in Nat /\ WordMod = B * B
  BY WidthAssumption
<1> HIDE DEF B
<1>2. /\ a * N <= (B - 2) * N /\ (B - 2) * N <= (B - 2) * (B - 1)
      /\ a * N \in Nat /\ B >= 2
  <2>1. B >= 2 /\ a <= B - 2 /\ N <= B - 1
    BY <1>1 DEF B
  <2>2. \A x, y, z \in Nat : x <= y => x * z <= y * z
    OBVIOUS
  <2>3. \A x, y, z \in Nat : x <= y => z * x <= z * y
    OBVIOUS
  <2>4. B - 2 \in Nat /\ B - 1 \in Nat /\ a * N \in Nat
    BY <1>1, <2>1
  <2>5. QED
    BY <2>1, <2>2, <2>3, <2>4
<1>3. (B - 2) * (B - 1) = B * B - 3 * B + 2
  BY <1>1
<1>4. c + 1 < WordMod
  <2>1. c + 1 <= 2 + a * N + b /\ b <= B - 1
    BY <1>1 DEF B
  <2>2. a * N <= B * B - 3 * B + 2
    BY <1>1, <1>2, <1>3
  <2>3. B * B \in Nat
    BY <1>1
  <2>4. QED
    BY <1>1, <1>2, <2>1, <2>2, <2>3
<1>5. QED
  BY <1>4, WidthAssumption

\* When the loop begins no pass has come to any connector.
LEMMA BeginPrioritises ==
  ASSUME NEW s \in Setups, NEW cons, OfPaths(s, cons),
         \A k \in 1..Len(s.objects) : cons[k].priority = 0
  PROVE  Prioritised(s, 0, 0, 1, cons)
<1>1. Len(s.objects) \in Nat /\ LastPass(s) \in Nat /\ Len(s.priority) \in Nat
  BY SetupNumbers
<1>2. \A k \in 1..Len(s.objects) : HitsSoFar(s, 0, 0, k) = {}
  BY <1>1 DEF HitsSoFar, Hits
<1>3. 0 * Len(s.objects) = 0
  BY <1>1
<1>4. ASSUME NEW k \in 1..Len(s.objects), NEW p
      PROVE  ~Counts(Len(s.priority), HitsSoFar(s, 0, 0, k), p)
  BY <1>2, <1>4, Zenon DEF Counts
<1>5. QED
  BY <1>1, <1>2, <1>3, <1>4 DEF Prioritised

\* One pass more counts one for each connector.
LEMMA NextProduct ==
  ASSUME NEW a \in Nat, NEW N \in Nat, NEW c \in Nat, c <= 1 + a * N + N
  PROVE  c <= 1 + (a + 1) * N + 0
<1>1. (a + 1) * N = a * N + N
  OBVIOUS
<1>2. QED
  BY <1>1

\* A new pass comes to nothing at first.
LEMMA NextPassPrioritises ==
  ASSUME NEW s \in Setups, NEW cons, NEW a \in Nat, NEW b \in Nat, NEW c \in Nat,
         Prioritised(s, a, b, c, cons), a < LastPass(s), b >= Len(s.objects)
  PROVE  Prioritised(s, a + 1, 0, c, cons)
<1> DEFINE N == Len(s.objects)
           m == Len(s.priority)
<1>1. N \in Nat /\ LastPass(s) \in Nat /\ m \in Nat
  BY SetupNumbers
<1>2. b = N
  BY <1>1 DEF Prioritised
<1>3. \A k \in 1..N : HitsSoFar(s, a + 1, 0, k) = HitsSoFar(s, a, b, k)
  <2>1. ASSUME NEW k \in 1..N, NEW p \in Nat
        PROVE  p <= a + 1 \/ (p = a + 2 /\ k <= 0) <=> p <= a \/ (p = a + 1 /\ k <= b)
    BY <1>1, <1>2
  <2>2. \A k \in 1..N : Hits(s, k) \subseteq Nat
    BY <1>1 DEF Hits
  <2>3. QED
    BY <2>1, <2>2 DEF HitsSoFar
<1>4. c <= 1 + (a + 1) * N + 0
  <2>1. c <= 1 + a * N + N
    BY <1>2 DEF Prioritised
  <2>2. QED
    BY <1>1, <2>1, NextProduct, Zenon
<1>5. a + 1 \in 0..LastPass(s) /\ 0 \in 0..N
  BY <1>1
<1> DEFINE Old(l) == HitsSoFar(s, a, b, l)
           New(l) == HitsSoFar(s, a + 1, 0, l)
<1>6. /\ c >= 1
      /\ \A l \in 1..N : cons[l].priority < c /\ (cons[l].priority = 0 <=> Old(l) = {})
      /\ \A x, y \in 1..N : \A p, q \in 1..LastPass(s) :
           Counts(m, Old(x), p) /\ Counts(m, Old(y), q) /\ (p < q \/ (p = q /\ x < y))
           => cons[x].priority < cons[y].priority
  BY DEF Prioritised
<1>7. \A l \in 1..N : New(l) = Old(l)
  BY <1>3
<1> HIDE DEF Old, New
<1>8. /\ \A l \in 1..N : cons[l].priority < c /\ (cons[l].priority = 0 <=> New(l) = {})
      /\ \A x, y \in 1..N : \A p, q \in 1..LastPass(s) :
           Counts(m, New(x), p) /\ Counts(m, New(y), q) /\ (p < q \/ (p = q /\ x < y))
           => cons[x].priority < cons[y].priority
  BY <1>6, <1>7
<1>9. \A l \in 1..0 : s.objects[l].sense # s.priority[a + 2]
  OBVIOUS
<1>10. a + 1 + 1 = a + 2
  OBVIOUS
<1>11. QED
  BY <1>4, <1>5, <1>6, <1>8, <1>9, <1>10 DEF Prioritised, New

\* The pass that gives connector k a priority is the one that counts for it, and
\* the last to have come to any.
LEMMA HitPrioritises ==
  ASSUME NEW s \in Setups, NEW cons, NEW a \in Nat, NEW b \in Nat, NEW c \in Nat,
         Prioritised(s, a, b, c, cons), a < LastPass(s), b < Len(s.objects),
         \A l \in 1..Len(s.objects) : cons[l].priority \in Nat,
         NEW d \in Nat, b < d, d <= Len(s.objects),
         HitsSoFar(s, a, d, b + 1) = HitsSoFar(s, a, b, b + 1) \cup {a + 1},
         \A l \in 1..Len(s.objects) :
           l # b + 1 => HitsSoFar(s, a, d, l) = HitsSoFar(s, a, b, l),
         a < Len(s.priority) \/ HitsSoFar(s, a, b, b + 1) = {},
         a < Len(s.priority) => d = Len(s.objects),
         NEW new, new[b + 1].priority = c,
         \A l \in 1..Len(s.objects) :
           l # b + 1 => new[l].priority = cons[l].priority
  PROVE  Prioritised(s, a, d, c + 1, new)
<1> DEFINE N == Len(s.objects)
           m == Len(s.priority)
           k == b + 1
           Old(l) == HitsSoFar(s, a, b, l)
           New(l) == HitsSoFar(s, a, d, l)
<1>1. N \in Nat /\ LastPass(s) \in Nat /\ m \in Nat /\ k \in 1..N
  BY SetupNumbers
<1>2. \A l \in 1..N : \A q \in Old(l) : q \in Nat /\ q <= a + 1 /\ (q = a + 1 => l <= b)
  <2>1. ASSUME NEW l \in 1..N, NEW q \in Old(l)
        PROVE  q \in Nat /\ q <= a + 1 /\ (q = a + 1 => l <= b)
    <3>1. q \in 1..LastPass(s) /\ (q <= a \/ (q = a + 1 /\ l <= b))
      BY DEF HitsSoFar, Hits
    <3>2. QED
      BY <1>1, <3>1
  <2>2. QED
    BY <2>1
<1>3. /\ c >= 1 /\ c <= 1 + a * N + b
      /\ \A l \in 1..N : cons[l].priority < c /\ (cons[l].priority = 0 <=> Old(l) = {})
      /\ \A x, y \in 1..N : \A p, q \in 1..LastPass(s) :
           Counts(m, Old(x), p) /\ Counts(m, Old(y), q) /\ (p < q \/ (p = q /\ x < y))
           => cons[x].priority < cons[y].priority
  BY DEF Prioritised
<1>4. New(k) = Old(k) \cup {a + 1} /\ \A l \in 1..N : l # k => New(l) = Old(l)
  OBVIOUS
<1> HIDE DEF Old, New
<1>5. ASSUME NEW p \in Nat, Counts(m, New(k), p) PROVE p = a + 1
  <2>1. a + 1 \in New(k) /\ p \in New(k) /\ p <= a + 1
    BY <1>1, <1>2, <1>4, <1>5 DEF Counts
  <2>2. CASE a < m
    <3>1. p <= m
      BY <1>1, <2>1, <2>2
    <3>2. a + 1 <= p \/ a + 1 > m
      BY <1>5, <2>1, <3>1 DEF Counts
    <3>3. QED
      BY <1>1, <2>1, <2>2, <3>2
  <2>3. CASE Old(k) = {}
    BY <1>4, <2>1, <2>3
  <2>4. QED
    BY <2>2, <2>3 DEF Old
<1>6. ASSUME NEW x \in 1..N, NEW y \in 1..N,
             NEW p \in 1..LastPass(s), NEW q \in 1..LastPass(s),
             Counts(m, New(x), p), Counts(m, New(y), q), p < q \/ (p = q /\ x < y)
      PROVE  new[x].priority < new[y].priority
  <2>1. CASE x # k /\ y # k
    <3>1. Counts(m, Old(x), p) /\ Counts(m, Old(y), q)
      BY <1>4, <1>6, <2>1
    <3>2. cons[x].priority < cons[y].priority
      BY <1>3, <1>6, <3>1
    <3>3. QED
      BY <2>1, <3>2
  <2>2. CASE x # k /\ y = k
    BY <1>1, <1>3, <2>2
  <2>3. CASE x = k
    <3>1. p = a + 1
      BY <1>1, <1>5, <1>6, <2>3
    <3>2. q \in New(y)
      BY <1>6 DEF Counts
    <3>3. CASE y = k
      <4>1. q = a + 1
        BY <1>1, <1>5, <1>6, <3>3
      <4>2. QED
        BY <1>1, <1>6, <2>3, <3>1, <3>3, <4>1
    <3>4. CASE y # k
      <4>1. q <= a + 1 /\ (q = a + 1 => y <= b)
        BY <1>2, <1>4, <3>2, <3>4
      <4>2. QED
        BY <1>1, <1>6, <2>3, <3>1, <4>1
    <3>5. QED
      BY <3>3, <3>4
  <2>4. QED
    BY <2>1, <2>2, <2>3
<1>7. ASSUME NEW l \in 1..N
      PROVE  new[l].priority < c + 1 /\ (new[l].priority = 0 <=> New(l) = {})
  <2>1. CASE l = k
    <3>1. new[l].priority = c /\ c >= 1
      BY <1>3, <2>1
    <3>2. a + 1 \in New(l)
      BY <1>4, <2>1
    <3>3. QED
      BY <3>1, <3>2
  <2>2. CASE l # k
    <3>1. new[l].priority = cons[l].priority /\ New(l) = Old(l)
      BY <1>4, <2>2
    <3>2. cons[l].priority < c /\ (cons[l].priority = 0 <=> Old(l) = {})
      BY <1>3
    <3>3. QED
      BY <3>1, <3>2
  <2>3. QED
    BY <2>1, <2>2
<1>8. c + 1 >= 1 /\ c + 1 <= 1 + a * N + d
  <2>1. a * N \in Nat
    BY <1>1
  <2>2. QED
    BY <1>1, <1>3, <2>1
<1>9. a \in 0..LastPass(s) /\ d \in 0..N /\ ~(a < m /\ d < N)
  BY <1>1
<1>10. QED
  BY <1>6, <1>7, <1>8, <1>9 DEF Prioritised, New

\* A connector that a pass leaves alone keeps the pass that counts for it.
LEMMA MissPrioritises ==
  ASSUME NEW s \in Setups, NEW cons, NEW a \in Nat, NEW b \in Nat, NEW c \in Nat,
         Prioritised(s, a, b, c, cons), a < LastPass(s), b < Len(s.objects),
         \/ HitsSoFar(s, a, b + 1, b + 1) = HitsSoFar(s, a, b, b + 1)
         \/ /\ HitsSoFar(s, a, b + 1, b + 1) = HitsSoFar(s, a, b, b + 1) \cup {a + 1}
            /\ HitsSoFar(s, a, b, b + 1) # {} /\ a >= Len(s.priority),
         \A l \in 1..Len(s.objects) :
           l # b + 1 => HitsSoFar(s, a, b + 1, l) = HitsSoFar(s, a, b, l),
         a < Len(s.priority) => s.objects[b + 1].sense # s.priority[a + 1]
  PROVE  Prioritised(s, a, b + 1, c, cons)
<1> DEFINE N == Len(s.objects)
           m == Len(s.priority)
           k == b + 1
           Old(l) == HitsSoFar(s, a, b, l)
           New(l) == HitsSoFar(s, a, b + 1, l)
<1>1. N \in Nat /\ LastPass(s) \in Nat /\ m \in Nat /\ k \in 1..N
  BY SetupNumbers
<1>2. \A q \in Old(k) : q \in Nat /\ q <= a
  <2>1. ASSUME NEW q \in Old(k) PROVE q \in Nat /\ q <= a
    <3>1. q \in 1..LastPass(s) /\ (q <= a \/ (q = a + 1 /\ k <= b))
      BY DEF HitsSoFar, Hits
    <3>2. QED
      BY <1>1, <3>1
  <2>2. QED
    BY <2>1
<1>3. /\ c >= 1 /\ c <= 1 + a * N + b
      /\ \A l \in 1..N : cons[l].priority < c /\ (cons[l].priority = 0 <=> Old(l) = {})
      /\ \A x, y \in 1..N : \A p, q \in 1..LastPass(s) :
           Counts(m, Old(x), p) /\ Counts(m, Old(y), q) /\ (p < q \/ (p = q /\ x < y))
           => cons[x].priority < cons[y].priority
      /\ a < m => \A l \in 1..b : s.objects[l].sense # s.priority[a + 1]
  BY <1>1 DEF Prioritised
<1>4. /\ \/ New(k) = Old(k)
         \/ New(k) = Old(k) \cup {a + 1} /\ Old(k) # {} /\ a >= m
      /\ \A l \in 1..N : l # k => New(l) = Old(l)
  OBVIOUS
<1> HIDE DEF Old, New
<1>5. ASSUME NEW l \in 1..N, NEW p \in 1..LastPass(s), Counts(m, New(l), p)
      PROVE  Counts(m, Old(l), p)
  <2>1. CASE New(l) = Old(l)
    BY <1>5, <2>1
  <2>2. CASE New(l) # Old(l)
    <3>1. l = k /\ New(l) = Old(k) \cup {a + 1} /\ Old(k) # {} /\ a >= m
      BY <1>4, <2>2
    <3>2. PICK q : q \in Old(k)
      BY <3>1
    <3>3. q \in Nat /\ q <= a /\ q \in New(l)
      BY <1>2, <3>1, <3>2
    <3>4. p # a + 1
      <4>1. SUFFICES ASSUME p = a + 1 PROVE FALSE
        OBVIOUS
      <4>2. p > m
        BY <1>1, <3>1, <4>1
      <4>3. p <= q
        BY <1>1, <1>5, <3>3, <4>2 DEF Counts
      <4>4. QED
        BY <3>3, <4>1, <4>3
    <3>5. p \in Old(l) /\ Old(l) \subseteq New(l)
      BY <1>5, <3>1, <3>4 DEF Counts
    <3>6. QED
      BY <1>5, <3>5 DEF Counts
  <2>3. QED
    BY <2>1, <2>2
<1>6. ASSUME NEW x \in 1..N, NEW y \in 1..N,
             NEW p \in 1..LastPass(s), NEW q \in 1..LastPass(s),
             Counts(m, New(x), p), Counts(m, New(y), q), p < q \/ (p = q /\ x < y)
      PROVE  cons[x].priority < cons[y].priority
  BY <1>3, <1>5, <1>6
<1>7. \A l \in 1..N : cons[l].priority < c /\ (cons[l].priority = 0 <=> New(l) = {})
  <2>1. \A l \in 1..N : New(l) = {} <=> Old(l) = {}
    BY <1>4
  <2>2. QED
    BY <1>3, <2>1
<1>8. c <= 1 + a * N + (b + 1)
  <2>1. a * N \in Nat
    BY <1>1
  <2>2. QED
    BY <1>1, <1>3, <2>1
<1>9. a < m => \A l \in 1..(b + 1) : s.objects[l].sense # s.priority[a + 1]
  <2>1. \A l \in 1..(b + 1) : l \in 1..b \/ l = b + 1
    OBVIOUS
  <2>2. QED
    BY <1>3, <2>1
<1>10. a \in 0..LastPass(s) /\ b + 1 \in 0..N
  BY <1>1
<1>11. QED
  BY <1>3, <1>6, <1>7, <1>8, <1>9, <1>10 DEF Prioritised, New

\* The passes that have come to a connector, when the loop takes a step from
\* connector b to connector d of pass a + 1.
LEMMA HitsOfStep ==
  ASSUME NEW s \in Setups, NEW a \in Nat, NEW b \in Nat, NEW d \in Nat, b < d,
         d <= Len(s.objects), a < LastPass(s), NEW l \in 1..Len(s.objects)
  PROVE  HitsSoFar(s, a, d, l) =
           IF b < l /\ l <= d /\ a + 1 \in Hits(s, l)
           THEN HitsSoFar(s, a, b, l) \cup {a + 1} ELSE HitsSoFar(s, a, b, l)
<1>1. Len(s.objects) \in Nat /\ LastPass(s) \in Nat
  BY SetupNumbers
<1>2. Hits(s, l) \subseteq Nat
  BY <1>1 DEF Hits
<1>3. CASE b < l /\ l <= d /\ a + 1 \in Hits(s, l)
  <2>1. ASSUME NEW p \in Nat
        PROVE  p <= a \/ (p = a + 1 /\ l <= d) <=>
                 (p <= a \/ (p = a + 1 /\ l <= b)) \/ p = a + 1
    BY <1>3
  <2>2. QED
    BY <1>2, <1>3, <2>1 DEF HitsSoFar
<1>4. CASE ~(b < l /\ l <= d /\ a + 1 \in Hits(s, l))
  <2>1. ASSUME NEW p \in Hits(s, l)
        PROVE  p <= a \/ (p = a + 1 /\ l <= d) <=> p <= a \/ (p = a + 1 /\ l <= b)
    <3>1. CASE p = a + 1
      BY <1>1, <1>4, <3>1
    <3>2. CASE p # a + 1
      BY <3>2
    <3>3. QED
      BY <3>1, <3>2
  <2>2. QED
    BY <1>4, <2>1 DEF HitsSoFar
<1>5. QED
  BY <1>3, <1>4

\* What reprioritiseConnectors asks of a connector in pass a + 1.
InList(s, a, con) == a < Len(s.priority) /\ con.sense = s.priority[a + 1]

OfType(s, a, con) ==
  /\ a >= Len(s.priority) /\ a < LastPass(s) - 1 /\ con.priority = 0
  /\ con.type = typeList[a - Len(s.priority) + 1]

Remains(s, a, con) == a = LastPass(s) - 1 /\ con.priority = 0

\* When a pass comes to a connector that it may give a priority.
LEMMA HitsMember ==
  ASSUME NEW s, NEW l, NEW p \in 1..LastPass(s)
  PROVE  p \in Hits(s, l) <=>
           \/ /\ p <= Len(s.priority) /\ s.priority[p] = s.objects[l].sense
              /\ FirstOfSense(s, l)
           \/ /\ Len(s.priority) < p /\ p < LastPass(s)
              /\ typeList[p - Len(s.priority)] = s.objects[l].type
           \/ p = LastPass(s)
BY DEF Hits

\* The lambda for the next connector keeps what is said of the priorities.
LEMMA ReorderPrioritises ==
  ASSUME NEW s \in Setups, NEW cons, OfPaths(s, cons),
         NEW a \in Nat, NEW b \in Nat, NEW c \in Nat,
         Prioritised(s, a, b, c, cons), a < LastPass(s), b < Len(s.objects),
         NEW new, new[b + 1].priority = c,
         \A l \in 1..Len(s.objects) :
           l # b + 1 => new[l].priority = cons[l].priority
  PROVE  /\ InList(s, a, cons[b + 1]) => Prioritised(s, a, Len(s.objects), c + 1, new)
         /\ OfType(s, a, cons[b + 1]) \/ Remains(s, a, cons[b + 1]) =>
              Prioritised(s, a, b + 1, c + 1, new)
         /\ ~(InList(s, a, cons[b + 1]) \/ OfType(s, a, cons[b + 1])
              \/ Remains(s, a, cons[b + 1])) =>
              Prioritised(s, a, b + 1, c, cons)
<1> DEFINE N == Len(s.objects)
           m == Len(s.priority)
           k == b + 1
           con == cons[k]
           Old(l) == HitsSoFar(s, a, b, l)
<1>1. /\ N \in Nat /\ LastPass(s) = m + 6 /\ m \in Nat /\ k \in 1..N
      /\ typeNum = 5 /\ a + 1 \in 1..LastPass(s)
  BY SetupNumbers
<1>2. con.sense = s.objects[k].sense /\ con.type = s.objects[k].type
  BY <1>1 DEF OfPaths
<1>3. \A l \in 1..N : cons[l].priority \in Nat
  BY DEF OfPaths, Records
<1>4. con.priority = 0 <=> Old(k) = {}
  BY <1>1 DEF Prioritised
<1>5. a < m => \A l \in 1..b : s.objects[l].sense # s.priority[a + 1]
  BY <1>1 DEF Prioritised
<1>6. ASSUME NEW l \in 1..N
      PROVE  a + 1 \in Hits(s, l) <=>
               \/ /\ a + 1 <= m /\ s.priority[a + 1] = s.objects[l].sense
                  /\ FirstOfSense(s, l)
               \/ /\ m < a + 1 /\ a + 1 < LastPass(s)
                  /\ typeList[(a + 1) - m] = s.objects[l].type
               \/ a + 1 = LastPass(s)
  <2> DEFINE p == a + 1
  <2>1. p \in 1..LastPass(s)
    BY <1>1
  <2> HIDE DEF p
  <2>2. p \in Hits(s, l) <=>
          \/ p <= m /\ s.priority[p] = s.objects[l].sense /\ FirstOfSense(s, l)
          \/ m < p /\ p < LastPass(s) /\ typeList[p - m] = s.objects[l].type
          \/ p = LastPass(s)
    BY <2>1, HitsMember, Zenon
  <2>3. QED
    BY <2>2 DEF p
<1>7. \A d \in Nat : \A l \in 1..N : b < d /\ d <= N =>
        HitsSoFar(s, a, d, l) =
          IF b < l /\ l <= d /\ a + 1 \in Hits(s, l) THEN Old(l) \cup {a + 1} ELSE Old(l)
  <2>1. ASSUME NEW d \in Nat, NEW l \in 1..N, b < d, d <= N
        PROVE  HitsSoFar(s, a, d, l) =
                 IF b < l /\ l <= d /\ a + 1 \in Hits(s, l)
                 THEN HitsSoFar(s, a, b, l) \cup {a + 1} ELSE HitsSoFar(s, a, b, l)
    BY <2>1, HitsOfStep
  <2>2. QED
    BY <2>1
<1> HIDE DEF Old
<1>8. ASSUME InList(s, a, con)
      PROVE  Prioritised(s, a, N, c + 1, new)
  <2>1. a < m /\ s.objects[k].sense = s.priority[a + 1]
    BY <1>2, <1>8 DEF InList
  <2>2. FirstOfSense(s, k)
    <3>1. \A l \in 1..N : l < k => l \in 1..b
      BY <1>1
    <3>2. QED
      BY <1>5, <2>1, <3>1 DEF FirstOfSense
  <2>3. a + 1 \in Hits(s, k)
    <3>1. a + 1 <= m
      BY <1>1, <2>1
    <3>2. QED
      BY <1>1, <1>6, <2>1, <2>2, <3>1, Zenon
  <2>4. ASSUME NEW l \in 1..N, l # k, b < l PROVE a + 1 \notin Hits(s, l)
    <3>1. k < l /\ k \in 1..N
      BY <1>1, <2>4
    <3>2. ~(s.priority[a + 1] = s.objects[l].sense /\ FirstOfSense(s, l))
      BY <2>1, <3>1 DEF FirstOfSense
    <3>3. a + 1 <= m /\ ~(m < a + 1) /\ a + 1 # LastPass(s)
      BY <1>1, <2>1
    <3>4. QED
      BY <1>6, <3>2, <3>3
  <2>5. b < N /\ N <= N /\ k <= N /\ b < k
    BY <1>1
  <2>6. HitsSoFar(s, a, N, k) = Old(k) \cup {a + 1}
    BY <1>1, <1>7, <2>3, <2>5
  <2>7. \A l \in 1..N : l # k => HitsSoFar(s, a, N, l) = Old(l)
    BY <1>1, <1>7, <2>4, <2>5
  <2>8. /\ HitsSoFar(s, a, N, b + 1) = HitsSoFar(s, a, b, b + 1) \cup {a + 1}
        /\ \A l \in 1..N : l # b + 1 => HitsSoFar(s, a, N, l) = HitsSoFar(s, a, b, l)
    BY <2>6, <2>7 DEF Old
  <2>9. QED
    BY <1>1, <1>3, <2>1, <2>5, <2>8, HitPrioritises, Zenon
<1>9. b < k /\ k <= N /\ k \in Nat /\ k <= k
  BY <1>1
<1>10. \A l \in 1..N : l # k => HitsSoFar(s, a, k, l) = Old(l)
  <2>1. \A l \in 1..N : l # k => ~(b < l /\ l <= k)
    OBVIOUS
  <2>2. QED
    BY <1>7, <1>9, <2>1
<1>11. HitsSoFar(s, a, k, k) =
         IF a + 1 \in Hits(s, k) THEN Old(k) \cup {a + 1} ELSE Old(k)
  BY <1>1, <1>7, <1>9, Zenon
<1>12. ASSUME OfType(s, a, con) \/ Remains(s, a, con)
       PROVE  Prioritised(s, a, k, c + 1, new)
  <2>1. Old(k) = {} /\ ~(a < m)
    <3>1. con.priority = 0
      BY <1>12 DEF OfType, Remains
    <3>2. a >= m \/ a = (m + 6) - 1
      BY <1>1, <1>12 DEF OfType, Remains
    <3>3. QED
      BY <1>1, <1>4, <3>1, <3>2
  <2>2. a + 1 \in Hits(s, k)
    <3>1. CASE OfType(s, a, con)
      <4>1. (a + 1) - m = a - m + 1
        BY <1>1
      <4>2. m < a + 1 /\ a + 1 < LastPass(s)
        BY <1>1, <3>1 DEF OfType
      <4>3. typeList[(a + 1) - m] = s.objects[k].type
        BY <1>2, <3>1, <4>1 DEF OfType
      <4>4. QED
        BY <1>1, <1>6, <4>2, <4>3, Zenon
    <3>2. CASE Remains(s, a, con)
      BY <1>1, <1>6, <3>2 DEF Remains
    <3>3. QED
      BY <1>12, <3>1, <3>2
  <2>3. HitsSoFar(s, a, k, k) = Old(k) \cup {a + 1}
    BY <1>11, <2>2
  <2>4. /\ HitsSoFar(s, a, b + 1, b + 1) = HitsSoFar(s, a, b, b + 1) \cup {a + 1}
        /\ \A l \in 1..N :
             l # b + 1 => HitsSoFar(s, a, b + 1, l) = HitsSoFar(s, a, b, l)
        /\ HitsSoFar(s, a, b, b + 1) = {}
    BY <1>10, <2>1, <2>3 DEF Old
  <2>5. QED
    BY <1>3, <1>9, <2>1, <2>4, HitPrioritises, Zenon
<1>13. ASSUME ~(InList(s, a, con) \/ OfType(s, a, con) \/ Remains(s, a, con))
       PROVE  Prioritised(s, a, k, c, cons)
  <2>1. a < m => s.objects[k].sense # s.priority[a + 1]
    BY <1>2, <1>13 DEF InList
  <2>2. \/ HitsSoFar(s, a, k, k) = Old(k)
        \/ /\ HitsSoFar(s, a, k, k) = Old(k) \cup {a + 1}
           /\ Old(k) # {} /\ a >= m
    <3>1. CASE a + 1 \notin Hits(s, k)
      BY <1>11, <3>1
    <3>2. CASE a + 1 \in Hits(s, k)
      <4>1. a >= m
        <5>1. SUFFICES ASSUME a < m PROVE FALSE
          BY <1>1
        <5>2. a + 1 <= m /\ ~(m < a + 1) /\ a + 1 # LastPass(s)
          BY <1>1, <5>1
        <5>3. QED
          BY <1>1, <1>6, <2>1, <3>2, <5>1, <5>2, Zenon
      <4>2. con.priority # 0
        <5>1. CASE a + 1 = LastPass(s)
          BY <1>1, <1>13, <5>1 DEF Remains
        <5>2. CASE a + 1 # LastPass(s)
          <6>1. (a + 1) - m = a - m + 1 /\ a < LastPass(s) - 1
            BY <1>1, <5>2
          <6>2. typeList[(a + 1) - m] = s.objects[k].type
            <7>1. ~(a + 1 <= m)
              BY <1>1, <4>1
            <7>2. QED
              BY <1>1, <1>6, <3>2, <5>2, <7>1, Zenon
          <6>3. QED
            BY <1>2, <1>13, <4>1, <6>1, <6>2 DEF OfType
        <5>3. QED
          BY <5>1, <5>2
      <4>3. QED
        BY <1>4, <1>11, <3>2, <4>1, <4>2
    <3>3. QED
      BY <3>1, <3>2
  <2>3. QED
    <3>1. /\ \/ HitsSoFar(s, a, b + 1, b + 1) = HitsSoFar(s, a, b, b + 1)
             \/ /\ HitsSoFar(s, a, b + 1, b + 1) = HitsSoFar(s, a, b, b + 1) \cup {a + 1}
                /\ HitsSoFar(s, a, b, b + 1) # {} /\ a >= m
          /\ \A l \in 1..N :
               l # b + 1 => HitsSoFar(s, a, b + 1, l) = HitsSoFar(s, a, b, l)
      BY <1>10, <2>2 DEF Old
    <3>2. QED
      BY <2>1, <3>1, MissPrioritises, Zenon
<1>14. QED
  BY <1>8, <1>12, <1>13

\* After the last pass the one that counts for a connector is its place in the
\* lists of the user and of the types.
LEMMA PlaceCounts ==
  ASSUME NEW s \in Setups, NEW cons, OfPaths(s, cons), NEW k \in 1..Len(s.objects)
  PROVE  /\ Place(s, cons, k) \in 1..LastPass(s)
         /\ Counts(Len(s.priority), Hits(s, k), Place(s, cons, k))
<1> DEFINE N == Len(s.objects)
           m == Len(s.priority)
           named == {p \in DOMAIN s.priority : s.priority[p] = cons[k].sense}
           kinds == {p \in DOMAIN typeList : typeList[p] = cons[k].type}
           listed == named # {} /\ \A l \in 1..(k - 1) : cons[l].sense # cons[k].sense
           latest == CHOOSE p \in named : \A q \in named : q <= p
           kind == IF kinds = {} THEN typeNum + 1 ELSE CHOOSE p \in kinds : TRUE
<1>1. /\ N \in Nat /\ LastPass(s) = m + 6 /\ m \in Nat /\ typeNum = 5
      /\ DOMAIN s.priority = 1..m
  BY SetupNumbers
<1>2. \A l \in 1..N : cons[l].sense = s.objects[l].sense /\ cons[l].type = s.objects[l].type
  BY DEF OfPaths
<1>3. (\A l \in 1..(k - 1) : cons[l].sense # cons[k].sense) <=> FirstOfSense(s, k)
  <2>1. \A l \in 1..N : l < k <=> l \in 1..(k - 1)
    BY <1>1
  <2>2. 1..(k - 1) \subseteq 1..N
    BY <1>1
  <2>3. QED
    BY <1>2, <2>1, <2>2 DEF FirstOfSense
<1>4. Place(s, cons, k) = IF listed THEN latest ELSE m + kind
  BY Zenon DEF Place
<1>5. DOMAIN typeList = 1..5 /\ kinds \subseteq 1..5
  BY DEF typeList
<1>6. \A p, q \in 1..5 : typeList[p] = typeList[q] => p = q
  BY DEF typeList
<1>7. \A p \in 1..LastPass(s) : p \in Hits(s, k) <=>
        \/ p <= m /\ s.priority[p] = s.objects[k].sense /\ FirstOfSense(s, k)
        \/ m < p /\ p < LastPass(s) /\ typeList[p - m] = s.objects[k].type
        \/ p = LastPass(s)
  BY HitsMember, Zenon
<1>8. Hits(s, k) \subseteq 1..LastPass(s)
  BY DEF Hits
<1>9. \A p \in named : p \in 1..m /\ s.priority[p] = s.objects[k].sense
  BY <1>1, <1>2
<1>10. \A p \in 1..m : s.priority[p] = s.objects[k].sense => p \in named
  BY <1>1, <1>2
<1>11. kind \in 1..6
  BY <1>1, <1>5
<1>12. kinds # {} => kind \in kinds
  OBVIOUS
<1>13. kinds = {} => kind = 6
  BY <1>1
<1>14. \A p \in 1..5 : p \in kinds <=> typeList[p] = s.objects[k].type
  BY <1>2, <1>5
<1>15. listed => latest \in named /\ \A q \in named : q <= latest
  <2>1. named \in SUBSET (1..m)
    BY <1>1
  <2>2. named # {} => \E p \in named : \A q \in named : q <= p
    BY <1>1, <2>1, LargestElement, Zenon
  <2>3. QED
    BY <2>2, Zenon
<1>16. listed <=> named # {} /\ FirstOfSense(s, k)
  BY <1>3
<1> HIDE DEF named, kinds, kind, latest, listed
<1>17. CASE listed
  <2>1. latest \in 1..m /\ latest \in 1..LastPass(s)
    BY <1>1, <1>9, <1>15, <1>17
  <2>2. latest \in Hits(s, k)
    <3>1. latest <= m
      BY <1>1, <2>1
    <3>2. QED
      BY <1>7, <1>9, <1>15, <1>16, <1>17, <2>1, <3>1, Zenon
  <2>3. ASSUME NEW q \in Hits(s, k), ~(q > m) PROVE q <= latest
    <3>1. q \in 1..LastPass(s) /\ q \in 1..m /\ ~(m < q) /\ q # LastPass(s)
      BY <1>1, <1>8, <2>3
    <3>2. q \in named
      BY <1>7, <1>10, <2>3, <3>1, Zenon
    <3>3. QED
      BY <1>15, <1>17, <3>2
  <2>4. latest <= m
    BY <1>1, <2>1
  <2>5. Counts(m, Hits(s, k), latest)
    BY <2>2, <2>3, <2>4 DEF Counts
  <2>6. QED
    BY <1>4, <1>17, <2>1, <2>5
<1>18. CASE ~listed
  <2> DEFINE p == m + kind
  <2>1. p \in 1..LastPass(s) /\ ~(p <= m) /\ m < p /\ p - m = kind
    BY <1>1, <1>11
  <2>2. p \in Hits(s, k)
    <3>1. CASE kinds = {}
      <4>1. p = LastPass(s)
        BY <1>1, <1>13, <3>1
      <4>2. QED
        BY <1>7, <2>1, <4>1, Zenon
    <3>2. CASE kinds # {}
      <4>1. kind \in 1..5 /\ typeList[p - m] = s.objects[k].type
        BY <1>5, <1>12, <1>14, <2>1, <3>2
      <4>2. p < LastPass(s)
        BY <1>1, <4>1
      <4>3. QED
        BY <1>7, <2>1, <4>1, <4>2, Zenon
    <3>3. QED
      BY <3>1, <3>2
  <2>3. ASSUME NEW q \in Hits(s, k) PROVE p <= q
    <3>1. q \in 1..LastPass(s)
      BY <1>8
    <3>2. ~(s.priority[q] = s.objects[k].sense /\ FirstOfSense(s, k) /\ q <= m)
      <4>1. q <= m => q \in 1..m
        BY <1>1, <3>1
      <4>2. QED
        BY <1>10, <1>16, <1>18, <4>1
    <3>3. CASE q = LastPass(s)
      BY <1>1, <1>11, <3>3
    <3>4. CASE q # LastPass(s)
      <4>1. m < q /\ q < LastPass(s) /\ typeList[q - m] = s.objects[k].type
        BY <1>7, <3>1, <3>2, <3>4, Zenon
      <4>2. q - m \in 1..5 /\ q = m + (q - m)
        <5>1. \A x, y, z \in Nat : x < y /\ y < z /\ z = x + 6 => y - x \in 1..5
          OBVIOUS
        <5>2. q \in Nat /\ LastPass(s) \in Nat
          BY <1>1, <3>1
        <5>3. q - m \in 1..5
          BY <1>1, <4>1, <5>1, <5>2, Zenon
        <5>4. QED
          BY <1>1, <5>2, <5>3
      <4>3. q - m \in kinds
        BY <1>14, <4>1, <4>2
      <4>4. kind = q - m
        BY <1>5, <1>6, <1>12, <1>14, <4>1, <4>2, <4>3
      <4>5. QED
        BY <1>1, <3>1, <4>2, <4>4
    <3>5. QED
      BY <3>3, <3>4
  <2>4. Counts(m, Hits(s, k), p)
    BY <2>1, <2>2, <2>3 DEF Counts
  <2>5. QED
    BY <1>4, <1>18, <2>1, <2>4
<1>19. QED
  BY <1>17, <1>18

\* When all passes are done the priorities are those the lists ask for.
LEMMA PrioritisedAtEnd ==
  ASSUME NEW s \in Setups, NEW cons, OfPaths(s, cons),
         NEW a \in Nat, NEW b \in Nat, NEW c \in Nat, Prioritised(s, a, b, c, cons),
         LastPass(s) <= a, NEW k \in 1..Len(s.objects), NEW l \in 1..Len(s.objects)
  PROVE  /\ cons[k].priority > 0
         /\ \/ Place(s, cons, k) < Place(s, cons, l)
            \/ Place(s, cons, k) = Place(s, cons, l) /\ k < l
            => cons[k].priority < cons[l].priority
<1> DEFINE m == Len(s.priority)
<1>1. LastPass(s) \in Nat
  BY SetupNumbers
<1>2. \A x \in 1..Len(s.objects) : HitsSoFar(s, a, b, x) = Hits(s, x)
  <2>1. \A x \in 1..Len(s.objects) : \A p \in Hits(s, x) : p <= a
    BY <1>1 DEF Hits
  <2>2. QED
    BY <2>1 DEF HitsSoFar
<1>3. cons[k].priority \in Nat
  BY DEF OfPaths, Records
<1>4. Place(s, cons, k) \in 1..LastPass(s) /\ Counts(m, HitsSoFar(s, a, b, k), Place(s, cons, k))
  BY <1>2, PlaceCounts
<1>5. Place(s, cons, l) \in 1..LastPass(s) /\ Counts(m, HitsSoFar(s, a, b, l), Place(s, cons, l))
  BY <1>2, PlaceCounts
<1>6. cons[k].priority # 0
  <2>1. HitsSoFar(s, a, b, k) # {}
    BY <1>4 DEF Counts
  <2>2. QED
    BY <2>1 DEF Prioritised
<1>7. \A x, y \in 1..Len(s.objects) : \A p, q \in 1..LastPass(s) :
        /\ Counts(m, HitsSoFar(s, a, b, x), p) /\ Counts(m, HitsSoFar(s, a, b, y), q)
        /\ (p < q \/ (p = q /\ x < y))
        => cons[x].priority < cons[y].priority
  BY DEF Prioritised
<1>8. QED
  BY <1>3, <1>4, <1>5, <1>6, <1>7

-----------------------------------------------------------------------------
(* The answers                                                             *)

Counters ==
  /\ i \in [Threads -> Nat] /\ j \in [Threads -> Nat] /\ priCount \in [Threads -> Nat]

AnswerInv == IInv /\ Counters /\ \A t \in Threads : DetectedRight(t)

\* The user's list has less than 256 entries, so that its length fits the byte
\* that the code keeps it in.
ShortLists == \A s \in Setups : Len(s.priority) < ByteMod

\* Thread u's call does not change.
Unaware(u) ==
  /\ phase'[u] = phase[u] /\ asking'[u] = asking[u]
  /\ starting'[u] = starting[u] \/ phase[u] = "out"
  /\ connectors'[u] = connectors[u] /\ sz'[u] = sz[u]
  /\ i'[u] = i[u] /\ j'[u] = j[u] /\ priCount'[u] = priCount[u]

\* Then neither does what is known of its answer.
LEMMA UnawareKeeps ==
  ASSUME UNCHANGED machine, NEW u, Unaware(u)
  PROVE  (DetectedRight(u) => DetectedRight(u)') /\ (PrioritiesRight(u) => PrioritiesRight(u)')
<1>1. /\ setup' = setup /\ dviSingleLink' = dviSingleLink
      /\ Detecting(u)' => Detecting(u)
  BY DEF machine, Unaware, Detecting
<1>2. DetectedRight(u) => DetectedRight(u)'
  BY <1>1 DEF DetectedRight, Unaware, OfPaths, Corrected, Known
<1>3. PrioritiesRight(u) => PrioritiesRight(u)'
  BY <1>1 DEF PrioritiesRight, Unaware, Prioritised
<1>4. QED
  BY <1>2, <1>3

\* A thread that reorders has detected connectors, of its own controller.
LEMMA OrderingFacts ==
  ASSUME IInv, NEW t \in Threads, Detecting(t)
  PROVE  /\ asking[t] \in Controllers /\ setup[asking[t]] \in Setups
         /\ starting[t] = asking[t] /\ Provider(t) = asking[t]
<1>1. phase[t] # "out"
  BY DEF Detecting
<1>2. asking[t] \in Controllers /\ setup[asking[t]] \in Setups
  BY <1>1 DEF IInv, AsksOwn, Shapes
<1>3. QED
  BY <1>1, <1>2, ProviderIsOwn DEF Detecting

\* Whoever reorders is detecting.
LEMMA OrderingDetects ==
  ASSUME IInv, NEW t \in Threads, phase[t] = "ordering"
  PROVE  Detecting(t)
BY NoneAssumption DEF IInv, OrdersDetected, AsksOwn, Detecting

\* What updateConnectorsInfo makes of the driver's connectors.
LEMMA CorrectDetected ==
  ASSUME AnswerInv, NEW t \in Threads, CorrectConnectors(t)
  PROVE  DetectedRight(t)' /\ PrioritiesRight(t)'
<1> DEFINE c == asking[t]
           s == setup[c]
           found == Answer(highSierra, dviSingleLink, s)
           cons == IF (s.family = "legacy" \/ ~highSierra) /\ s.tablesAgree
                   THEN autocorrectConnectors(dviSingleLink, found, s.objects)
                   ELSE found
<1>1. /\ phase[t] = "asked" /\ Provider(t) = c /\ c \in Controllers /\ s \in Setups
      /\ connectors[t] = found /\ sz[t] = Len(s.objects) /\ s.kind = "none"
  BY ProviderIsOwn DEF CorrectConnectors, AnswerInv, IInv, AsksOwn, Fresh, Shapes
<1>2. /\ connectors' = [connectors EXCEPT ![t] = cons]
      /\ phase' = [phase EXCEPT ![t] = IF s.ordered THEN "ordering" ELSE "answered"]
      /\ i' = [i EXCEPT ![t] = 0] /\ j' = [j EXCEPT ![t] = 0]
      /\ priCount' = [priCount EXCEPT ![t] = 1]
      /\ UNCHANGED <<machine, starting, slot, asking, sz>>
  BY <1>1 DEF CorrectConnectors
<1>3. /\ connectors'[t] = cons /\ i'[t] = 0 /\ j'[t] = 0 /\ priCount'[t] = 1
      /\ phase'[t] = (IF s.ordered THEN "ordering" ELSE "answered")
      /\ asking'[t] = c /\ sz'[t] = Len(s.objects) /\ setup' = setup
      /\ dviSingleLink' = dviSingleLink
  BY <1>1, <1>2 DEF AnswerInv, Counters, IInv, Shapes, IsFunction, machine
<1>4. s.objects \in Seq(Objects) /\ s.family \in Families
  BY <1>1, SetupNumbers, SetupFacts
<1>5. /\ OfPaths(s, found) /\ \A k \in 1..Len(s.objects) : found[k].priority = 0
      /\ ~(highSierra /\ s.family = "modern") => CorrectedSoFar(s, 0, found)
      /\ highSierra /\ s.family = "modern" /\ dviSingleLink => Corrected(s, found)
  BY <1>4, AnswerFacts, Zenon
<1>6. s.family = "legacy" \/ ~highSierra <=> ~(highSierra /\ s.family = "modern")
  BY <1>4 DEF Families
<1> HIDE DEF found
<1>7. /\ OfPaths(s, cons) /\ \A k \in 1..Len(s.objects) : cons[k].priority = 0
      /\ dviSingleLink /\ s.tablesAgree => Corrected(s, cons)
  <2>1. CASE (s.family = "legacy" \/ ~highSierra) /\ s.tablesAgree
    <3>1. CorrectedSoFar(s, 0, found)
      BY <1>5, <1>6, <2>1
    <3>2. cons = autocorrectConnectors(dviSingleLink, found, s.objects)
      BY <2>1, Zenon
    <3>3. /\ OfPaths(s, autocorrectConnectors(dviSingleLink, found, s.objects))
          /\ \A k \in 1..Len(s.objects) :
               autocorrectConnectors(dviSingleLink, found, s.objects)[k].priority = 0
          /\ dviSingleLink =>
               Corrected(s, autocorrectConnectors(dviSingleLink, found, s.objects))
      BY <1>4, <3>1, CorrectAll, Zenon
    <3>4. QED
      BY <3>2, <3>3
  <2>2. CASE ~((s.family = "legacy" \/ ~highSierra) /\ s.tablesAgree)
    <3>1. cons = found
      BY <2>2, Zenon
    <3>2. QED
      BY <1>5, <1>6, <2>2, <3>1
  <2>3. QED
    BY <2>1, <2>2
<1> HIDE DEF cons
<1>8. DetectedRight(t)'
  BY <1>3, <1>7 DEF DetectedRight, OfPaths, Corrected, Known
<1>9. PrioritiesRight(t)'
  <2>1. Prioritised(s, 0, 0, 1, cons)
    BY <1>1, <1>7, BeginPrioritises, Zenon
  <2>2. Prioritised(s, i[t], j[t], priCount[t], connectors[t])'
    BY <1>3, <2>1 DEF Prioritised
  <2>3. 0 \in 0..(ByteMod - 1)
    BY WidthAssumption
  <2>4. s.ordered => phase'[t] # "answered"
    BY <1>3
  <2>5. QED
    BY <1>3, <2>2, <2>3, <2>4 DEF PrioritiesRight
<1>10. QED
  BY <1>8, <1>9

\* The lambda for one connector of one pass.
LEMMA ReorderDetected ==
  ASSUME AnswerInv, NEW t \in Threads, Reorder(t)
  PROVE  /\ DetectedRight(t)' /\ Counters'
         /\ ShortLists /\ PrioritiesRight(t) => PrioritiesRight(t)'
<1> DEFINE s == setup[asking[t]]
           N == Len(s.objects)
           k == j[t] + 1
           con == connectors[t][k]
           new == [connectors[t] EXCEPT ![k].priority = priCount[t]]
           hit == BySense(t, con) \/ ByType(t, con) \/ TheRest(t, con)
<1>1. Detecting(t) /\ phase[t] = "ordering" /\ i[t] < Passes(t) /\ j[t] < sz[t]
  BY OrderingDetects DEF Reorder, AnswerInv
<1>2. s \in Setups /\ Provider(t) = asking[t]
  BY <1>1, OrderingFacts DEF AnswerInv
<1>3. N \in Nat /\ sz[t] = N /\ OfPaths(s, connectors[t])
  BY <1>1, <1>2, SetupNumbers DEF AnswerInv, DetectedRight
<1>4. i[t] \in Nat /\ j[t] \in Nat /\ priCount[t] \in Nat /\ k \in 1..N
  BY <1>1, <1>3 DEF AnswerInv, Counters
<1>5. /\ connectors' = IF hit THEN [connectors EXCEPT ![t][k].priority = priCount[t]]
                       ELSE connectors
      /\ priCount' = IF hit THEN [priCount EXCEPT ![t] = (priCount[t] + 1) % WordMod]
                     ELSE priCount
      /\ j' = [j EXCEPT ![t] = IF BySense(t, con) THEN sz[t] ELSE k]
      /\ UNCHANGED <<machine, starting, slot, fbLimit, phase, asking, sz, i>>
  BY Zenon DEF Reorder
<1> HIDE DEF hit, con
<1>6. /\ connectors'[t] = (IF hit THEN new ELSE connectors[t])
      /\ priCount'[t] = (IF hit THEN (priCount[t] + 1) % WordMod ELSE priCount[t])
      /\ j'[t] = (IF BySense(t, con) THEN N ELSE k)
  BY <1>3, <1>5 DEF AnswerInv, IInv, Shapes, IsFunction, Counters
<1>7. (priCount[t] + 1) % WordMod \in Nat
  <2>1. ByteMod * ByteMod \in Nat \ {0}
    BY WidthAssumption
  <2>2. QED
    BY <1>4, <2>1, WidthAssumption
<1>8. Counters'
  BY <1>3, <1>4, <1>5, <1>7 DEF AnswerInv, Counters
<1>9. /\ OfPaths(s, new)
      /\ \A l \in 1..N : new[l].transmitter = connectors[t][l].transmitter
      /\ new[k].priority = priCount[t]
      /\ \A l \in 1..N : l # k => new[l].priority = connectors[t][l].priority
  <2>1. connectors[t] \in [1..N -> Records]
    BY <1>3 DEF OfPaths
  <2>2. \A l \in 1..N : new[l] = IF l = k THEN [connectors[t][l] EXCEPT !.priority = priCount[t]]
                                 ELSE connectors[t][l]
    BY <1>4, <2>1
  <2>3. ASSUME NEW l \in 1..N
        PROVE  /\ new[l] \in Records /\ new[l].type = connectors[t][l].type
               /\ new[l].sense = connectors[t][l].sense
               /\ new[l].transmitter = connectors[t][l].transmitter
               /\ new[l].priority = IF l = k THEN priCount[t] ELSE connectors[t][l].priority
    <3>1. connectors[t][l] \in Records
      BY <2>1
    <3>2. CASE l = k
      <4>1. new[l] = [connectors[t][l] EXCEPT !.priority = priCount[t]]
        BY <2>2, <3>2
      <4>2. QED
        BY <1>4, <3>1, <3>2, <4>1 DEF Records
    <3>3. CASE l # k
      <4>1. new[l] = connectors[t][l]
        BY <2>2, <3>3
      <4>2. QED
        BY <3>1, <3>3, <4>1
    <3>4. QED
      BY <3>2, <3>3
  <2>4. new \in [1..N -> Records]
    BY <2>1, <2>3
  <2>5. QED
    BY <1>3, <1>4, <2>3, <2>4 DEF OfPaths
<1> HIDE DEF new
<1>10. DetectedRight(t)'
  <2>1. /\ sz'[t] = N /\ setup' = setup /\ asking' = asking /\ phase' = phase
        /\ dviSingleLink' = dviSingleLink
    BY <1>3, <1>5 DEF machine
  <2>2. dviSingleLink /\ s.tablesAgree => Corrected(s, connectors[t])
    BY <1>1 DEF AnswerInv, DetectedRight
  <2>3. dviSingleLink /\ s.tablesAgree => Corrected(s, new)
    BY <1>9, <2>2 DEF Corrected
  <2>4. OfPaths(s, connectors'[t])
    BY <1>3, <1>6, <1>9
  <2>5. dviSingleLink /\ s.tablesAgree => Corrected(s, connectors'[t])
    BY <1>6, <2>2, <2>3
  <2>6. QED
    BY <2>1, <2>4, <2>5 DEF DetectedRight, OfPaths, Corrected, Known
<1>11. ASSUME ShortLists, PrioritiesRight(t), s.ordered, LastPass(s) < ByteMod
       PROVE  Prioritised(s, i[t], j'[t], priCount'[t], connectors'[t])
  <2>1. Prioritised(s, i[t], j[t], priCount[t], connectors[t])
    BY <1>1, <1>11 DEF PrioritiesRight
  <2>2. /\ senseNum(s) = Len(s.priority) /\ Len(s.priority) \in Nat
        /\ LastPass(s) = Passes(t) /\ LastPass(s) \in Nat
        /\ LastPass(s) = Len(s.priority) + 6 /\ typeNum = 5 /\ N < ByteMod
    <3>1. /\ Len(s.priority) \in Nat /\ LastPass(s) = Len(s.priority) + 6
          /\ typeNum = 5 /\ N < ByteMod
      BY <1>2, SetupNumbers
    <3>2. Len(s.priority) < ByteMod
      BY <1>2, <1>11 DEF ShortLists
    <3>3. senseNum(s) = Len(s.priority)
      BY <3>1, <3>2, WidthAssumption, SmallModulo DEF senseNum
    <3>4. Passes(t) = senseNum(s) + typeNum + 1
      BY <1>2 DEF Passes
    <3>5. QED
      BY <3>1, <3>3, <3>4
  <2>3. i[t] < LastPass(s) /\ j[t] < N
    BY <1>1, <1>3, <2>2
  <2>4. /\ BySense(t, con) <=> InList(s, i[t], con)
        /\ ByType(t, con) <=> OfType(s, i[t], con)
        /\ TheRest(t, con) <=> Remains(s, i[t], con)
    BY <1>2, <2>2 DEF BySense, ByType, TheRest, InList, OfType, Remains
  <2>5. (priCount[t] + 1) % WordMod = priCount[t] + 1
    <3>1. j[t] <= N /\ i[t] < ByteMod - 1 /\ priCount[t] <= 1 + i[t] * N + j[t]
      BY <1>4, <1>11, <2>1, <2>2, <2>3, WidthAssumption DEF Prioritised
    <3> HIDE DEF N
    <3>2. N \in Nat /\ N < ByteMod
      BY <1>3, <2>2
    <3>3. i[t] \in Nat /\ j[t] \in Nat /\ priCount[t] \in Nat
      BY <1>4
    <3>4. /\ priCount[t] + 1 < WordMod
          /\ (priCount[t] + 1) % WordMod = priCount[t] + 1
      BY <3>1, <3>2, <3>3, CounterFits, Zenon
    <3>5. QED
      BY <3>4
  <2>6. /\ InList(s, i[t], con) => Prioritised(s, i[t], N, priCount[t] + 1, new)
        /\ OfType(s, i[t], con) \/ Remains(s, i[t], con) =>
             Prioritised(s, i[t], k, priCount[t] + 1, new)
        /\ ~(InList(s, i[t], con) \/ OfType(s, i[t], con) \/ Remains(s, i[t], con)) =>
             Prioritised(s, i[t], k, priCount[t], connectors[t])
    BY <1>2, <1>3, <1>4, <1>9, <2>1, <2>3, ReorderPrioritises, Zenon DEF con
  <2>7. InList(s, i[t], con) => ~(OfType(s, i[t], con) \/ Remains(s, i[t], con))
    BY <1>4, <2>2 DEF InList, OfType, Remains
  <2>8. CASE InList(s, i[t], con)
    <3>1. hit /\ BySense(t, con)
      BY <2>4, <2>8 DEF hit
    <3>2. connectors'[t] = new /\ priCount'[t] = priCount[t] + 1 /\ j'[t] = N
      BY <1>6, <2>5, <3>1
    <3>3. QED
      BY <2>6, <2>8, <3>2
  <2>9. CASE OfType(s, i[t], con) \/ Remains(s, i[t], con)
    <3>1. hit /\ ~BySense(t, con)
      BY <2>4, <2>7, <2>9 DEF hit
    <3>2. connectors'[t] = new /\ priCount'[t] = priCount[t] + 1 /\ j'[t] = k
      BY <1>6, <2>5, <3>1
    <3>3. QED
      BY <2>6, <2>9, <3>2
  <2>10. CASE ~(InList(s, i[t], con) \/ OfType(s, i[t], con) \/ Remains(s, i[t], con))
    <3>1. ~hit /\ ~BySense(t, con)
      BY <2>4, <2>10 DEF hit
    <3>2. connectors'[t] = connectors[t] /\ priCount'[t] = priCount[t] /\ j'[t] = k
      BY <1>6, <3>1
    <3>3. QED
      BY <2>6, <2>10, <3>2
  <2>11. QED
    BY <2>8, <2>9, <2>10
<1>12. ASSUME ShortLists, PrioritiesRight(t) PROVE PrioritiesRight(t)'
  <2>1. /\ setup' = setup /\ asking' = asking /\ phase' = phase /\ i' = i
        /\ starting' = starting
    BY <1>5 DEF machine
  <2>2. s.ordered => i[t] \in 0..(ByteMod - 1)
    BY <1>1, <1>12 DEF PrioritiesRight
  <2>3. ASSUME s.ordered, LastPass(s) < ByteMod
        PROVE  Prioritised(s, i[t], j[t], priCount[t], connectors[t])'
    <3>1. Prioritised(s, i[t], j'[t], priCount'[t], connectors'[t])
      BY <1>11, <1>12, <2>3, Zenon
    <3>2. s' = s /\ i'[t] = i[t]
      BY <2>1
    <3>3. QED
      BY <3>1, <3>2 DEF Prioritised
  <2>4. QED
    BY <1>1, <2>1, <2>2, <2>3 DEF PrioritiesRight, LastPass
<1>13. QED
  BY <1>8, <1>10, <1>12

\* The head of the loop changes neither connectors nor priorities.
LEMMA NextPassDetected ==
  ASSUME AnswerInv, NEW t \in Threads, NextPass(t) \/ Ordered(t)
  PROVE  /\ DetectedRight(t)' /\ Counters'
         /\ ShortLists /\ PrioritiesRight(t) => PrioritiesRight(t)'
<1> DEFINE s == setup[asking[t]]
           N == Len(s.objects)
<1>1. /\ phase[t] = "ordering"
      /\ UNCHANGED <<machine, starting, slot, fbLimit, asking, connectors, sz, priCount>>
  BY DEF NextPass, Ordered, loop
<1>2. Detecting(t) /\ s \in Setups /\ Provider(t) = asking[t]
  BY <1>1, OrderingDetects, OrderingFacts DEF AnswerInv
<1>3. N \in Nat /\ sz[t] = N /\ OfPaths(s, connectors[t])
  BY <1>2, SetupNumbers DEF AnswerInv, DetectedRight
<1>4. i[t] \in Nat /\ j[t] \in Nat /\ priCount[t] \in Nat
  BY DEF AnswerInv, Counters
<1>5. setup' = setup /\ dviSingleLink' = dviSingleLink
  BY <1>1 DEF machine
<1>6. DetectedRight(t)'
  <2>1. dviSingleLink /\ s.tablesAgree => Corrected(s, connectors[t])
    BY <1>2 DEF AnswerInv, DetectedRight
  <2>2. OfPaths(s, connectors[t])' /\ Corrected(s, connectors[t])' = Corrected(s, connectors[t])
    BY <1>1, <1>3, <1>5 DEF OfPaths, Corrected, Known
  <2>3. QED
    BY <1>1, <1>3, <1>5, <2>1, <2>2 DEF DetectedRight
<1>7. CASE NextPass(t)
  <2>1. /\ i[t] < Passes(t) /\ j[t] >= sz[t]
        /\ i' = [i EXCEPT ![t] = (i[t] + 1) % ByteMod] /\ j' = [j EXCEPT ![t] = 0]
        /\ phase' = phase
    BY <1>7 DEF NextPass
  <2>2. (i[t] + 1) % ByteMod \in 0..(ByteMod - 1)
    BY <1>4, WidthAssumption
  <2>3. Counters' /\ i'[t] = (i[t] + 1) % ByteMod /\ j'[t] = 0
    BY <1>1, <2>1, <2>2 DEF AnswerInv, Counters
  <2>4. ASSUME ShortLists, PrioritiesRight(t), s.ordered, LastPass(s) < ByteMod
        PROVE  Prioritised(s, i'[t], 0, priCount[t], connectors[t])
    <3>1. Prioritised(s, i[t], j[t], priCount[t], connectors[t])
      BY <1>2, <2>4 DEF PrioritiesRight
    <3>2. /\ Len(s.priority) \in Nat /\ LastPass(s) = Len(s.priority) + 6
          /\ typeNum = 5
      BY <1>2, SetupNumbers
    <3>3. Len(s.priority) < ByteMod
      BY <1>2, <2>4 DEF ShortLists
    <3>4. senseNum(s) = Len(s.priority)
      BY <3>2, <3>3, WidthAssumption, SmallModulo DEF senseNum
    <3>5. Passes(t) = senseNum(s) + typeNum + 1
      BY <1>2 DEF Passes
    <3>6. i[t] < LastPass(s) /\ i[t] + 1 < ByteMod /\ j[t] >= Len(s.objects)
      BY <1>3, <1>4, <2>1, <2>4, <3>2, <3>4, <3>5, WidthAssumption
    <3>7. i'[t] = i[t] + 1
      BY <1>4, <2>3, <3>6, WidthAssumption, SmallModulo
    <3>8. Prioritised(s, i[t] + 1, 0, priCount[t], connectors[t])
      BY <1>2, <1>4, <3>1, <3>6, NextPassPrioritises, Zenon
    <3>9. QED
      BY <3>7, <3>8
  <2>5. ASSUME ShortLists, PrioritiesRight(t) PROVE PrioritiesRight(t)'
    <3>1. ASSUME s.ordered, LastPass(s) < ByteMod
          PROVE  Prioritised(s, i[t], j[t], priCount[t], connectors[t])'
      <4>1. Prioritised(s, i'[t], 0, priCount[t], connectors[t])
        BY <2>4, <2>5, <3>1, Zenon
      <4>2. QED
        BY <1>1, <1>5, <2>3, <4>1 DEF Prioritised
    <3>2. i'[t] \in 0..(ByteMod - 1)
      BY <2>2, <2>3
    <3>3. phase'[t] # "answered"
      BY <1>1, <2>1
    <3>4. QED
      BY <1>1, <1>2, <1>5, <3>1, <3>2, <3>3 DEF PrioritiesRight, LastPass, Detecting
  <2>6. QED
    BY <1>6, <2>3, <2>5
<1>8. CASE Ordered(t)
  <2>1. i[t] >= Passes(t) /\ i' = i /\ j' = j
    BY <1>8 DEF Ordered, loop
  <2>2. Counters'
    BY <1>1, <2>1 DEF AnswerInv, Counters
  <2>3. ASSUME ShortLists, PrioritiesRight(t) PROVE PrioritiesRight(t)'
    <3>1. /\ Len(s.priority) \in Nat /\ LastPass(s) = Len(s.priority) + 6
          /\ typeNum = 5
      BY <1>2, SetupNumbers
    <3>2. Len(s.priority) < ByteMod
      BY <1>2, <2>3 DEF ShortLists
    <3>3. senseNum(s) = Len(s.priority)
      BY <3>1, <3>2, WidthAssumption, SmallModulo DEF senseNum
    <3>4. Passes(t) = senseNum(s) + typeNum + 1
      BY <1>2 DEF Passes
    <3>5. LastPass(s) <= i[t]
      BY <1>4, <2>1, <3>1, <3>3, <3>4
    <3>6. s.ordered => i[t] \in 0..(ByteMod - 1)
      BY <1>2, <2>3 DEF PrioritiesRight
    <3>7. ASSUME s.ordered, LastPass(s) < ByteMod
          PROVE  Prioritised(s, i[t], j[t], priCount[t], connectors[t])'
      <4>1. Prioritised(s, i[t], j[t], priCount[t], connectors[t])
        BY <1>2, <2>3, <3>7 DEF PrioritiesRight
      <4>2. QED
        BY <1>1, <1>5, <2>1, <4>1 DEF Prioritised
    <3>8. QED
      BY <1>1, <1>5, <2>1, <3>5, <3>6, <3>7 DEF PrioritiesRight, LastPass
  <2>4. QED
    BY <1>6, <2>2, <2>3
<1>9. QED
  BY <1>7, <1>8

\* Every step is one of some thread; the others are not aware of it.
LEMMA AnswerStep ==
  ASSUME AnswerInv, [Next]_vars
  PROVE  /\ AnswerInv'
         /\ ShortLists /\ (\A t \in Threads : PrioritiesRight(t)) =>
              \A t \in Threads : PrioritiesRight(t)'
<1>1. IInv'
  BY NextInv DEF AnswerInv
<1> DEFINE Kept(t) == /\ DetectedRight(t)'
                      /\ ShortLists /\ PrioritiesRight(t) => PrioritiesRight(t)'
<1>2. SUFFICES Counters' /\ \A u \in Threads : Kept(u)
  BY <1>1 DEF AnswerInv
<1>3. UNCHANGED machine
  BY DEF Next, StartController, RefuseController, GetConnectorsInfo, ControllerStarted,
         updateConnectorsInfo, KeepConnectors, OverrideConnectors, CorrectConnectors,
         Reorder, NextPass, Ordered, Return, vars
<1>4. ASSUME NEW u \in Threads, Unaware(u) PROVE Kept(u)
  BY <1>3, <1>4, UnawareKeeps DEF AnswerInv
<1>5. ASSUME NEW u \in Threads, ~Detecting(u)' PROVE Kept(u)
  BY <1>5 DEF DetectedRight, PrioritiesRight
<1> HIDE DEF Kept
<1>6. CASE UNCHANGED vars
  <2>1. Counters' /\ \A u \in Threads : Unaware(u)
    BY <1>6 DEF vars, loop, AnswerInv, Counters, Unaware
  <2>2. QED
    BY <1>4, <2>1
<1>7. ASSUME NEW t \in Threads, NEW c \in Controllers,
             StartController(t, c) \/ RefuseController(t, c) \/ ControllerStarted(t)
      PROVE  Counters' /\ \A u \in Threads : Kept(u)
  <2>1. CASE RefuseController(t, c)
    <3>1. Counters' /\ \A u \in Threads : Unaware(u)
      BY <2>1 DEF RefuseController, vars, loop, AnswerInv, Counters, Unaware
    <3>2. QED
      BY <1>4, <3>1
  <2>2. CASE StartController(t, c) \/ ControllerStarted(t)
    <3>1. /\ phase[t] = "out" /\ UNCHANGED <<phase, asking, connectors, sz, loop>>
          /\ \E x : starting' = [starting EXCEPT ![t] = x]
      BY <2>2 DEF StartController, ControllerStarted
    <3>2. Counters' /\ \A u \in Threads : Unaware(u)
      BY <3>1 DEF loop, AnswerInv, IInv, Shapes, Counters, Unaware
    <3>3. QED
      BY <1>4, <3>2
  <2>3. QED
    BY <1>7, <2>1, <2>2
<1>8. ASSUME NEW t \in Threads, NEW c \in Controllers, GetConnectorsInfo(t, c)
      PROVE  Counters' /\ \A u \in Threads : Kept(u)
  <2>1. Counters' /\ \A u \in Threads \ {t} : Unaware(u)
    BY <1>8 DEF GetConnectorsInfo, loop, AnswerInv, IInv, Shapes, IsFunction, Counters,
                Unaware
  <2>2. ~Detecting(t)'
    BY <1>8 DEF GetConnectorsInfo, AnswerInv, IInv, Shapes, Detecting
  <2>3. QED
    BY <1>4, <1>5, <2>1, <2>2
<1>9. ASSUME NEW t \in Threads, KeepConnectors(t) \/ OverrideConnectors(t)
      PROVE  Counters' /\ \A u \in Threads : Kept(u)
  <2>1. /\ \E x : phase' = [phase EXCEPT ![t] = x]
        /\ connectors' = connectors \/ \E x : connectors' = [connectors EXCEPT ![t] = x]
        /\ sz' = sz \/ \E x : sz' = [sz EXCEPT ![t] = x]
        /\ UNCHANGED <<starting, asking, loop>>
    BY <1>9 DEF KeepConnectors, OverrideConnectors
  <2>2. Counters' /\ \A u \in Threads \ {t} : Unaware(u)
    BY <2>1 DEF loop, AnswerInv, IInv, Shapes, IsFunction, Counters, Unaware
  <2>3. ~Detecting(t)'
    <3>1. /\ phase[t] # "out"
          /\ Provider(t) = None \/ setup[Provider(t)].kind # "none"
          /\ setup' = setup
      BY <1>3, <1>9 DEF KeepConnectors, OverrideConnectors, machine
    <3>2. starting[t] = None \/ setup[asking[t]].kind # "none"
      BY <3>1, ProviderIsOwn DEF AnswerInv
    <3>3. QED
      BY <2>1, <3>1, <3>2 DEF Detecting
  <2>4. QED
    BY <1>4, <1>5, <2>2, <2>3
<1>10. ASSUME NEW t \in Threads,
              CorrectConnectors(t) \/ Reorder(t) \/ NextPass(t) \/ Ordered(t)
       PROVE  Counters' /\ \A u \in Threads : Kept(u)
  <2>1. /\ phase' = phase \/ \E x : phase' = [phase EXCEPT ![t] = x]
        /\ connectors' = connectors \/ \E x : connectors' = [connectors EXCEPT ![t] = x]
        /\ i' = i \/ \E x : i' = [i EXCEPT ![t] = x]
        /\ j' = j \/ \E x : j' = [j EXCEPT ![t] = x]
        /\ priCount' = priCount \/ \E x : priCount' = [priCount EXCEPT ![t] = x]
        /\ UNCHANGED <<starting, asking, sz>>
    BY <1>10 DEF CorrectConnectors, Reorder, NextPass, Ordered, loop
  <2>2. \A u \in Threads \ {t} : Unaware(u)
    BY <2>1 DEF AnswerInv, IInv, Shapes, IsFunction, Counters, Unaware
  <2>3. Counters'
    <3>1. CASE CorrectConnectors(t)
      BY <3>1 DEF CorrectConnectors, AnswerInv, Counters
    <3>2. CASE ~CorrectConnectors(t)
      BY <1>10, <3>2, ReorderDetected, NextPassDetected
    <3>3. QED
      BY <3>1, <3>2
  <2>4. Kept(t)
    BY <1>10, CorrectDetected, ReorderDetected, NextPassDetected DEF Kept
  <2>5. QED
    BY <1>4, <2>2, <2>3, <2>4
<1>11. ASSUME NEW t \in Threads, Return(t)
       PROVE  Counters' /\ \A u \in Threads : Kept(u)
  <2>1. Counters' /\ \A u \in Threads \ {t} : Unaware(u)
    BY <1>11 DEF Return, AnswerInv, IInv, Shapes, IsFunction, Counters, Unaware
  <2>2. ~Detecting(t)'
    BY <1>11 DEF Return, AnswerInv, IInv, Shapes, Detecting
  <2>3. QED
    BY <1>4, <1>5, <2>1, <2>2
<1>12. CASE Next
  <2>1. PICK t \in Threads :
          \/ \E c \in Controllers : \/ StartController(t, c) \/ RefuseController(t, c)
                                    \/ GetConnectorsInfo(t, c)
          \/ ControllerStarted(t) \/ updateConnectorsInfo(t) \/ Return(t)
    BY <1>12 DEF Next
  <2>2. CASE \E c \in Controllers : \/ StartController(t, c) \/ RefuseController(t, c)
                                    \/ GetConnectorsInfo(t, c)
    BY <1>7, <1>8, <2>2
  <2>3. CASE ControllerStarted(t)
    <3>1. starting[t] \in Controllers
      BY <2>3 DEF ControllerStarted, AnswerInv, IInv, Shapes
    <3>2. QED
      BY <1>7, <2>3, <3>1
  <2>4. CASE updateConnectorsInfo(t)
    BY <1>9, <1>10, <2>4 DEF updateConnectorsInfo
  <2>5. CASE Return(t)
    BY <1>11, <2>5
  <2>6. QED
    BY <2>1, <2>2, <2>3, <2>4, <2>5
<1>13. QED
  BY <1>6, <1>12

\* At the start nobody has asked.
LEMMA AnswerInit ==
  ASSUME Init PROVE AnswerInv /\ \A t \in Threads : PrioritiesRight(t)
<1>1. IInv
  BY InitInv
<1>2. Counters /\ \A t \in Threads : ~Detecting(t)
  BY DEF Init, Counters, Detecting
<1>3. QED
  BY <1>1, <1>2 DEF AnswerInv, DetectedRight, PrioritiesRight

-----------------------------------------------------------------------------
\* With -raddvi every detected connector with a sense id of its own has the
\* transmitter that its BIOS encoder stands for, for any BIOS, on every kernel and
\* for both families (autocorrectConnectors and the translation of 10.13).
THEOREM TransmittersAreRight == Spec => []TransmittersRight
<1>1. AnswerInv => TransmittersRight
  <2>1. SUFFICES ASSUME AnswerInv, NEW t \in Threads,
                        phase[t] = "answered", dviSingleLink, starting[t] # None,
                        setup[asking[t]].kind = "none", setup[asking[t]].tablesAgree
                 PROVE  LET s == setup[asking[t]]
                        IN  \A k \in DOMAIN s.objects :
                              /\ s.objects[k].sense # 0 /\ s.objects[k].encoder # "other"
                              /\ \A l \in DOMAIN s.objects \ {k} :
                                   s.objects[l].sense # s.objects[k].sense
                              => connectors[t][k].transmitter = getTxEnc(s.objects[k])
    BY DEF TransmittersRight
  <2>2. Detecting(t)
    BY <2>1 DEF Detecting
  <2>3. DOMAIN setup[asking[t]].objects = 1..Len(setup[asking[t]].objects)
    BY <2>1, <2>2, OrderingFacts, SetupNumbers DEF AnswerInv
  <2>4. Corrected(setup[asking[t]], connectors[t])
    BY <2>1, <2>2 DEF AnswerInv, DetectedRight
  <2>5. QED
    BY <2>3, <2>4 DEF Corrected, Known
<1>2. Spec => []AnswerInv
  BY AnswerInit, AnswerStep, PTL DEF Spec
<1>3. QED
  BY <1>1, <1>2, PTL

\* The connectors' priorities follow the user's list, then the types, then the
\* BIOS, whatever ids the lists repeat or the connectors share; no two are alike,
\* since the counter does not wrap (reprioritiseConnectors).
THEOREM PrioritiesFollowList == ASSUME ShortLists PROVE Spec => []PriorityFollowsList
<1> DEFINE Inv == AnswerInv /\ \A t \in Threads : PrioritiesRight(t)
<1>1. Init => Inv
  BY AnswerInit
<1>2. Inv /\ [Next]_vars => Inv'
  BY AnswerStep
<1>3. Inv => PriorityFollowsList
  <2>1. SUFFICES ASSUME Inv, NEW t \in Threads, phase[t] = "answered",
                        starting[t] # None, setup[asking[t]].kind = "none",
                        setup[asking[t]].ordered,
                        NEW k \in DOMAIN connectors[t], NEW l \in DOMAIN connectors[t]
                 PROVE  LET s == setup[asking[t]]
                            cons == connectors[t]
                        IN  /\ cons[k].priority > 0
                            /\ \/ Place(s, cons, k) < Place(s, cons, l)
                               \/ Place(s, cons, k) = Place(s, cons, l) /\ k < l
                               => cons[k].priority < cons[l].priority
    BY DEF PriorityFollowsList
  <2> DEFINE s == setup[asking[t]]
  <2>2. Detecting(t) /\ s \in Setups
    BY <2>1, OrderingFacts DEF Detecting, AnswerInv
  <2>3. OfPaths(s, connectors[t]) /\ DOMAIN connectors[t] = 1..Len(s.objects)
    BY <2>1, <2>2 DEF AnswerInv, DetectedRight, OfPaths
  <2>4. /\ i[t] \in 0..(ByteMod - 1) /\ LastPass(s) <= i[t]
        /\ LastPass(s) < ByteMod =>
             Prioritised(s, i[t], j[t], priCount[t], connectors[t])
    BY <2>1, <2>2 DEF PrioritiesRight
  <2>5. LastPass(s) < ByteMod /\ LastPass(s) \in Nat
    BY <2>2, <2>4, SetupNumbers, WidthAssumption
  <2>6. i[t] \in Nat /\ j[t] \in Nat /\ priCount[t] \in Nat
    BY <2>1 DEF AnswerInv, Counters
  <2>7. QED
    BY <2>2, <2>3, <2>4, <2>5, <2>6, PrioritisedAtEnd, Zenon
<1>4. Spec => []Inv
  BY <1>1, <1>2, PTL DEF Spec
<1>5. QED
  BY <1>3, <1>4, PTL
=============================================================================
