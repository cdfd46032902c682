-------------------------- MODULE RadeonConnectors --------------------------
(***************************************************************************)
(* Connectors of AMD GPUs. The drivers start several controllers on        *)
(* several threads; while a controller starts, its driver asks the video   *)
(* BIOS parser for the connectors, and RAD changes the answer as the       *)
(* properties of the controller's provider say: overrides, correction of   *)
(* transmitters and priorities. The parser does not know the provider, so  *)
(* RAD keeps it in a table indexed by the thread (Lilu's ThreadLocal).     *)
(*                                                                         *)
(* A thread starts one controller at a time, and the driver asks for the   *)
(* connectors of that controller as often as it likes. The parser may also *)
(* be asked outside of a start.                                            *)
(***************************************************************************)
EXTENDS SequencesExt

CONSTANTS Threads,
          Controllers,
          Slots,          \* entries of a ThreadLocal (8)
          Setups,         \* what a controller's BIOS and properties may be
          None,           \* no controller
          ByteMod,        \* uint8_t wraps here (256) ...
          WordMod         \* ... and uint16_t here (65536)

Families == {"modern", "legacy"}          \* AMDSupport and AMDLegacySupport
Types == {"LVDS", "DVI", "HDMI", "DP", "VGA", "SVID"}

\* Low bits of the transmitters that getTxEnc knows.
TxLow == [UNIPHY |-> 0, UNIPHY1 |-> 1, KLDSCP_DAC1 |-> 1, UNIPHY2 |-> 2]

\* One display path of the video BIOS with the connector at its end.
Objects == [type : Types, sense : 0..16, encoder : DOMAIN TxLow \cup {"other"},
            extra : BOOLEAN]

Connectors == [type : Types, sense : 0..16, transmitter : 0..255,
               priority : 0..(WordMod - 1)]

\* overrides, count, priority and limit are the properties "connectors",
\* "connector-count", "connector-priority" and "CFG,CFG_FB_LIMIT".
SetupType ==
  [family : Families,
   objects : Seq(Objects), tablesAgree : BOOLEAN,
   kind : {"none", "wrongType", "data"}, overrides : Seq(Connectors),
   count : Nat \cup {-1},
   ordered : BOOLEAN, priority : Seq(0..16),
   limit : Nat \cup {-1}]

\* A word has two bytes.
ASSUME WidthAssumption == ByteMod \in Nat \ {0} /\ WordMod = ByteMod * ByteMod
ASSUME NoneAssumption == None \notin Controllers
ASSUME SetupAssumption ==
  \A s \in Setups : /\ s \in SetupType
                    /\ Len(s.objects) < ByteMod
\* "8 for max GPUs at once"
ASSUME SlotsAssumption == /\ IsFiniteSet(Threads)
                          /\ Slots \in Nat
                          /\ Cardinality(Threads) <= Slots

VARIABLES setup,          \* setup[c]: what controller c comes with
          highSierra,     \* kernel 10.13 or newer
          dviSingleLink,  \* -raddvi
          forceVesaMode,  \* -radvesa
          starting,       \* starting[t]: controller that thread t starts
          slot,           \* slot[f][t]: currentPropProvider of family f
          fbLimit,        \* fbLimit[c]: CFG_FB_LIMIT as RAD set it, or -1
          phase,          \* phase[t]: where t is in a call of the parser
          asking,         \* asking[t]: controller whose parser t calls
          connectors, sz, \* the answer, while it is made and afterwards
          i, j, priCount  \* reprioritiseConnectors

machine == <<setup, highSierra, dviSingleLink, forceVesaMode>>
loop == <<i, j, priCount>>
vars == <<machine, starting, slot, fbLimit, phase, asking, connectors, sz, loop>>

-----------------------------------------------------------------------------
(* The video BIOS and the corrections                                      *)

\* getTxEnc, 0 for an encoder it does not know.
getTxEnc(o) ==
  IF o.encoder = "other" THEN 0
  ELSE (IF o.extra THEN 32 ELSE 16) + TxLow[o.encoder]

\* (t & 0xCF) == t
Masked(t) == (t \div 16) % 4 = 0

\* Connector types that lose bits of their transmitter in the driver.
Affected == {"DVI", "LVDS"}

\* What the driver itself finds: all priorities are equal.
Found(o) ==
  [type |-> o.type, sense |-> o.sense, priority |-> 0,
   transmitter |-> IF o.type \in Affected THEN getTxEnc(o) % 16 ELSE getTxEnc(o)]

\* autocorrectConnector, with the checks of its callers.
autocorrectConnector(dvi, cons, o) ==
  LET same == {k \in DOMAIN cons : cons[k].sense = o.sense}
      first == CHOOSE k \in same : \A l \in same : k <= l
  IN  IF /\ dvi
         /\ o.encoder # "other" /\ o.sense # 0 /\ o.type \in Affected
         /\ same # {} /\ Masked(cons[first].transmitter)
      THEN [cons EXCEPT ![first].transmitter = getTxEnc(o)]
      ELSE cons

\* Mutated form of autocorrectConnectors: it ends at a path without a sense id.
autocorrectConnectorsEnds(dvi, cons, objs) ==
  LET stop(acc, o) == IF acc[2] \/ o.sense = 0 THEN <<acc[1], TRUE>>
                      ELSE <<autocorrectConnector(dvi, acc[1], o), FALSE>>
  IN  FoldLeft(stop, <<cons, FALSE>>, objs)[1]

autocorrectConnectors(dvi, cons, objs) ==
  LET corrected[k \in 0..Len(objs)] ==
        IF k = 0 THEN cons
        ELSE autocorrectConnector(dvi, corrected[k - 1], objs[k])
  IN  corrected[Len(objs)]

\* The parser's answer for a controller. From 10.13 on its connectors are
\* translated one by one and RAD corrects each of them (AMDSupport only).
Answer(hs, dvi, s) ==
  [k \in DOMAIN s.objects |->
     LET o == s.objects[k]
     IN  IF hs /\ s.family = "modern"
         THEN autocorrectConnector(dvi, <<Found(o)>>, o)[1]
         ELSE Found(o)]

\* connector-priority: the sense ids come first, then the types, then the rest.
typeList == <<"LVDS", "DVI", "HDMI", "DP", "VGA">>
typeNum == Len(typeList)
senseNum(s) == Len(s.priority) % ByteMod

-----------------------------------------------------------------------------
Init ==
  /\ setup \in [Controllers -> Setups]
  /\ highSierra \in BOOLEAN /\ dviSingleLink \in BOOLEAN
  /\ forceVesaMode \in BOOLEAN
  /\ starting = [t \in Threads |-> None]
  /\ slot = [f \in Families |-> [t \in Threads |-> None]]
  /\ fbLimit = [c \in Controllers |-> -1]
  /\ phase = [t \in Threads |-> "out"]
  /\ asking = [t \in Threads |-> None]
  /\ connectors = [t \in Threads |-> <<>>]
  /\ sz = [t \in Threads |-> 0]
  /\ i = [t \in Threads |-> 0]
  /\ j = [t \in Threads |-> 0]
  /\ priCount = [t \in Threads |-> 1]

\* ThreadLocal::set: the thread's own entry, or a free one if there is any.
CanSet(f, t) ==
  \/ slot[f][t] # None
  \/ Cardinality({u \in Threads : slot[f][u] # None}) < Slots

\* The table that the wrappers of a controller's family use.
Family(c) == setup[c].family

\* wrapATIControllerStart and its legacy form, up to the original start.
StartController(t, c) ==
  /\ starting[t] = None /\ phase[t] = "out"
  /\ \A u \in Threads : starting[u] # c
  /\ ~forceVesaMode
  /\ starting' = [starting EXCEPT ![t] = c]
  /\ slot' = IF CanSet(Family(c), t)
             THEN [slot EXCEPT ![Family(c)][t] = c] ELSE slot
  /\ UNCHANGED <<machine, fbLimit, phase, asking, connectors, sz, loop>>

\* -radvesa: the controller does not start at all.
RefuseController(t, c) ==
  /\ starting[t] = None /\ phase[t] = "out"
  /\ forceVesaMode
  /\ UNCHANGED vars

\* The original start returned, with or without success.
ControllerStarted(t) ==
  /\ starting[t] # None /\ phase[t] = "out"
  /\ slot' = [slot EXCEPT ![Family(starting[t])][t] = None]
  /\ starting' = [starting EXCEPT ![t] = None]
  /\ UNCHANGED <<machine, fbLimit, phase, asking, connectors, sz, loop>>

\* The original getConnectorsInfo inside of a wrapper, when it succeeds.
GetConnectorsInfo(t, c) ==
  /\ phase[t] = "out" /\ starting[t] \in {c, None}
  /\ phase' = [phase EXCEPT ![t] = "asked"]
  /\ asking' = [asking EXCEPT ![t] = c]
  /\ connectors' = [connectors EXCEPT
                      ![t] = Answer(highSierra, dviSingleLink, setup[c])]
  /\ sz' = [sz EXCEPT ![t] = Len(setup[c].objects)]
  /\ UNCHANGED <<machine, starting, slot, fbLimit, loop>>

-----------------------------------------------------------------------------
(* updateConnectorsInfo                                                    *)

\* Mutated form of Provider: one provider for all threads.
ProviderOfAny(t) ==
  LET f == Family(asking[t])
      set == {u \in Threads : slot[f][u] # None}
  IN  IF set = {} THEN None ELSE slot[f][CHOOSE u \in set : TRUE]

Provider(t) == slot[Family(asking[t])][t]

\* The wrapper finds no provider for its thread: the answer stays as it is.
KeepConnectors(t) ==
  /\ phase[t] = "asked" /\ Provider(t) = None
  /\ phase' = [phase EXCEPT ![t] = "answered"]
  /\ UNCHANGED <<machine, starting, slot, fbLimit, asking, connectors, sz, loop>>

\* applyPropertyFixes: only if the user has not given a limit.
LimitedTo(c, n) ==
  IF highSierra /\ setup[c].limit = -1 THEN [fbLimit EXCEPT ![c] = n] ELSE fbLimit

ConnectorCount(s, n) ==
  IF s.kind = "data" /\ s.count # -1 THEN s.count % ByteMod ELSE n

\* The user's connectors, if there are as many as there should be. The number
\* is changed before that is known.
OverrideConnectors(t) ==
  LET c == Provider(t)
      s == setup[c]
      n == ConnectorCount(s, sz[t])
      accepted == s.kind = "data" /\ n > 0 /\ Len(s.overrides) = n
  IN  /\ phase[t] = "asked" /\ c # None /\ s.kind # "none"
      /\ sz' = [sz EXCEPT ![t] = n]
      /\ IF accepted
         THEN /\ connectors' = [connectors EXCEPT ![t] = s.overrides]
              /\ fbLimit' = LimitedTo(c, n)
         ELSE UNCHANGED <<connectors, fbLimit>>
      /\ phase' = [phase EXCEPT ![t] = "answered"]
      /\ UNCHANGED <<machine, starting, slot, asking, loop>>

\* The detected connectors. Without the translation of 10.13 they are
\* corrected here, if the two BIOS tables have the same size.
CorrectConnectors(t) ==
  LET c == Provider(t)
      s == setup[c]
      atomutils == setup[asking[t]].family = "legacy" \/ ~highSierra
  IN  /\ phase[t] = "asked" /\ c # None /\ s.kind = "none"
      /\ connectors' = [connectors EXCEPT ![t] =
           IF atomutils /\ s.tablesAgree
           THEN autocorrectConnectors(dviSingleLink, connectors[t],
                                      setup[asking[t]].objects)
           ELSE connectors[t]]
      /\ fbLimit' = LimitedTo(c, sz[t])
      /\ phase' = [phase EXCEPT ![t] = IF s.ordered THEN "ordering" ELSE "answered"]
      /\ i' = [i EXCEPT ![t] = 0] /\ j' = [j EXCEPT ![t] = 0]
      /\ priCount' = [priCount EXCEPT ![t] = 1]
      /\ UNCHANGED <<machine, starting, slot, asking, sz>>

-----------------------------------------------------------------------------
(* reprioritiseConnectors                                                  *)

Passes(t) == senseNum(setup[Provider(t)]) + typeNum + 1

BySense(t, con) ==
  /\ i[t] < senseNum(setup[Provider(t)])
  /\ con.sense = setup[Provider(t)].priority[i[t] + 1]

\* Mutated form of ByType: a priority that was given by sense is replaced.
ByTypeAgain(t, con) ==
  /\ i[t] >= senseNum(setup[Provider(t)]) /\ i[t] < Passes(t) - 1
  /\ con.type = typeList[i[t] - senseNum(setup[Provider(t)]) + 1]

ByType(t, con) ==
  /\ i[t] >= senseNum(setup[Provider(t)]) /\ i[t] < Passes(t) - 1
  /\ con.priority = 0
  /\ con.type = typeList[i[t] - senseNum(setup[Provider(t)]) + 1]

TheRest(t, con) == i[t] = Passes(t) - 1 /\ con.priority = 0

\* The lambda for connector j in pass i; a sense id ends its pass.
Reorder(t) ==
  LET con == connectors[t][j[t] + 1]
  IN  /\ phase[t] = "ordering" /\ i[t] < Passes(t) /\ j[t] < sz[t]
      /\ IF BySense(t, con) \/ ByType(t, con) \/ TheRest(t, con)
         THEN /\ connectors' =
                   [connectors EXCEPT ![t][j[t] + 1].priority = priCount[t]]
              /\ priCount' = [priCount EXCEPT ![t] = (priCount[t] + 1) % WordMod]
         ELSE UNCHANGED <<connectors, priCount>>
      /\ j' = [j EXCEPT ![t] = IF BySense(t, con) THEN sz[t] ELSE j[t] + 1]
      /\ UNCHANGED <<machine, starting, slot, fbLimit, phase, asking, sz, i>>

\* Mutated form of NextPass: the counters begin again with every pass.
NextPassRestarts(t) ==
  /\ phase[t] = "ordering" /\ i[t] < Passes(t) /\ j[t] >= sz[t]
  /\ i' = [i EXCEPT ![t] = 0] /\ j' = [j EXCEPT ![t] = 0]
  /\ priCount' = [priCount EXCEPT ![t] = 1]
  /\ UNCHANGED <<machine, starting, slot, fbLimit, phase, asking, connectors, sz>>

NextPass(t) ==
  /\ phase[t] = "ordering" /\ i[t] < Passes(t) /\ j[t] >= sz[t]
  /\ i' = [i EXCEPT ![t] = (i[t] + 1) % ByteMod]
  /\ j' = [j EXCEPT ![t] = 0]
  /\ UNCHANGED <<machine, starting, slot, fbLimit, phase, asking, connectors, sz,
                 priCount>>

Ordered(t) ==
  /\ phase[t] = "ordering" /\ i[t] >= Passes(t)
  /\ phase' = [phase EXCEPT ![t] = "answered"]
  /\ UNCHANGED <<machine, starting, slot, fbLimit, asking, connectors, sz, loop>>

\* The wrapper returns to the driver.
Return(t) ==
  /\ phase[t] = "answered"
  /\ phase' = [phase EXCEPT ![t] = "out"]
  /\ asking' = [asking EXCEPT ![t] = None]
  /\ connectors' = [connectors EXCEPT ![t] = <<>>]
  /\ sz' = [sz EXCEPT ![t] = 0]
  /\ i' = [i EXCEPT ![t] = 0] /\ j' = [j EXCEPT ![t] = 0]
  /\ priCount' = [priCount EXCEPT ![t] = 1]
  /\ UNCHANGED <<machine, starting, slot, fbLimit>>

updateConnectorsInfo(t) ==
  \/ KeepConnectors(t) \/ OverrideConnectors(t) \/ CorrectConnectors(t)
  \/ Reorder(t) \/ NextPass(t) \/ Ordered(t)

Next == \E t \in Threads :
          \/ \E c \in Controllers : \/ StartController(t, c)
                                    \/ RefuseController(t, c)
                                    \/ GetConnectorsInfo(t, c)
          \/ ControllerStarted(t)
          \/ updateConnectorsInfo(t)
          \/ Return(t)

\* A thread that is inside of RAD's code goes on.
Spec == /\ Init /\ [][Next]_vars
        /\ \A t \in Threads : WF_vars(updateConnectorsInfo(t))

-----------------------------------------------------------------------------
(* Properties                                                              *)

\* Every table entry, index and answer is of its kind, and an answer has as
\* many connectors as its driver or the user named.
TypeOK ==
  /\ setup \in [Controllers -> Setups]
  /\ highSierra \in BOOLEAN /\ dviSingleLink \in BOOLEAN
  /\ forceVesaMode \in BOOLEAN
  /\ starting \in [Threads -> Controllers \cup {None}]
  /\ slot \in [Families -> [Threads -> Controllers \cup {None}]]
  /\ fbLimit \in [Controllers -> Nat \cup {-1}]
  /\ phase \in [Threads -> {"out", "asked", "ordering", "answered"}]
  /\ asking \in [Threads -> Controllers \cup {None}]
  /\ sz \in [Threads -> 0..(ByteMod - 1)]
  /\ i \in [Threads -> 0..(ByteMod - 1)]
  /\ j \in [Threads -> 0..(ByteMod - 1)]
  /\ priCount \in [Threads -> 0..(WordMod - 1)]

\* What thread t's call answers if the properties of its own controller count.
OwnAnswer(t) ==
  LET c == asking[t]
      s == setup[c]
      n == IF s.count = -1 THEN Len(s.objects) ELSE s.count % ByteMod
  IN  IF starting[t] = None
      THEN /\ connectors[t] = Answer(highSierra, dviSingleLink, s)
           /\ sz[t] = Len(s.objects)
      ELSE (s.kind = "data" /\ n > 0 /\ Len(s.overrides) = n) =>
             /\ connectors[t] = s.overrides /\ sz[t] = n
             /\ (highSierra /\ s.limit = -1) => fbLimit[c] = n

\* The user's connectors of the very controller that starts are installed,
\* whatever other threads start at the same time, and the framebuffer limit
\* counts them; a parser that is asked outside of a start gives the BIOS's
\* connectors (wrapATIControllerStart, wrapGetConnectorsInfoV1, V2, legacy).
OwnOverrides == \A t \in Threads : phase[t] = "answered" => OwnAnswer(t)

\* With -raddvi each detected connector with a sense id of its own has the
\* transmitter its BIOS encoder stands for, on every kernel and for both
\* families, whatever BIOS paths are around it (autocorrectConnector).
TransmittersRight ==
  \A t \in Threads :
    LET s == setup[asking[t]]
    IN  /\ phase[t] = "answered" /\ dviSingleLink
        /\ starting[t] # None /\ s.kind = "none" /\ s.tablesAgree
        => \A k \in DOMAIN s.objects :
             /\ s.objects[k].sense # 0 /\ s.objects[k].encoder # "other"
             /\ \A l \in DOMAIN s.objects \ {k} :
                  s.objects[l].sense # s.objects[k].sense
             => connectors[t][k].transmitter = getTxEnc(s.objects[k])

\* The place of connector k in the user's list: the last time its sense id is
\* named. The list speaks of the first connector with that sense id only.
Place(s, cons, k) ==
  LET named == {p \in DOMAIN s.priority : s.priority[p] = cons[k].sense}
      listed == named # {} /\ \A l \in 1..(k - 1) : cons[l].sense # cons[k].sense
      kinds == {p \in DOMAIN typeList : typeList[p] = cons[k].type}
  IN  IF listed THEN CHOOSE p \in named : \A q \in named : q <= p
      ELSE Len(s.priority) + (IF kinds = {} THEN typeNum + 1
                              ELSE CHOOSE p \in kinds : TRUE)

\* Every connector has a priority, no two have the same one, and they follow
\* the user's list first, then the list of types, then the BIOS
\* (reprioritiseConnectors).
PriorityFollowsList ==
  \A t \in Threads :
    LET s == setup[asking[t]]
        cons == connectors[t]
    IN  /\ phase[t] = "answered" /\ starting[t] # None
        /\ s.kind = "none" /\ s.ordered
        => \A k, l \in DOMAIN cons :
             /\ cons[k].priority > 0
             /\ \/ Place(s, cons, k) < Place(s, cons, l)
                \/ Place(s, cons, k) = Place(s, cons, l) /\ k < l
                => cons[k].priority < cons[l].priority

\* A call of the wrapper ends, although reprioritiseConnectors counts its
\* passes in eight bits: the list must leave room for the types.
CallsEnd ==
  \A t \in Threads :
    (/\ phase[t] = "asked" /\ Provider(t) # None
     /\ Len(setup[Provider(t)].priority) + typeNum + 1 < ByteMod)
      ~> phase[t] = "answered"
=============================================================================
