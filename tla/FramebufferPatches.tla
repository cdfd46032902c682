-------------------------- MODULE FramebufferPatches --------------------------
(***************************************************************************)
(* The framebuffer patches of IGFX, from Sandy Bridge on.  Properties of   *)
(* the device describe fields and connectors of one frame of the driver's  *)
(* list (semantic patches) and words to find and replace (binary patches). *)
(* They are read at boot and applied to the list in memory each time the   *)
(* driver calls getOSInformation, once per framebuffer.  Without any, DP   *)
(* connectors become HDMI ones.                                            *)
(* The list is a sequence of words.  The layouts of the generations differ *)
(* here by the fields they have, not by where these are.                   *)
(***************************************************************************)
EXTENDS Integers, Sequences

CONSTANTS Machines,          \* system, list and properties, see MachineOK
          MaxConnectors,     \* connectors that can be patched (6)
          FrameConnectors,   \* connectors of a frame (3 to 6)
          Page,              \* words that are searched (PAGE_SIZE)
          ByteMod,           \* values of a byte
          DP, HDMI,          \* ConnectorDP, ConnectorHDMI
          Calls,             \* bound on the calls of getOSInformation
          Missing

ASSUME SizesAssumption ==
  /\ MaxConnectors \in Nat /\ FrameConnectors \in 0..MaxConnectors
  /\ Page \in Nat /\ ByteMod \in Nat \ {0}
  /\ DP \in Nat /\ HDMI \in Nat /\ Missing \notin Nat

VARIABLES setup,
          patchesPc,
          fields,            \* framebufferPatch, Missing where no flag is set
          connectors,        \* its connectors, likewise
          framebufferId,     \* the frame they are meant for
          patches,           \* framebufferPatches; find is Missing when released
          applyFramebufferPatch,
          hdmiAutopatch,
          routed,            \* is getOSInformation routed?
          table,             \* gPlatformInformationList
          applied,           \* numbers of the binary patches that were applied
          calls              \* times doFrameBufferStuff has been called
decided == <<fields, connectors, framebufferId, applyFramebufferPatch,
             hdmiAutopatch>>
patchesVars == <<setup, patchesPc, decided, patches, routed, table, applied, calls>>

Generations == {"SandyBridge", "IvyBridge", "Haswell", "Broadwell+", "IceLake"}

\* Fields of FramebufferSNB, FramebufferIVB, FramebufferHSW and the later ones.
FieldsOf(generation) ==
  CASE generation = "SandyBridge" -> {"portcount"}
    [] generation = "IvyBridge" -> {"portcount", "stolenmem"}
    [] generation = "Haswell" -> {"portcount", "stolenmem", "flags", "cursormem"}
    [] OTHER -> {"portcount", "stolenmem", "flags"}
Fields == FieldsOf("Haswell")
FieldOffset == [portcount |-> 1, stolenmem |-> 2, flags |-> 3, cursormem |-> 4]

ConnectorFields == {"index", "busid", "type", "flags"}
ConnectorOffset(j, f) ==
  5 + 4 * j + [index |-> 0, busid |-> 1, type |-> 2, flags |-> 3][f]
FrameSize == 5 + 4 * FrameConnectors

Indices == 0..(MaxConnectors - 1)
NoFields == [f \in Fields |-> Missing]
NoConnector == [f \in ConnectorFields |-> Missing]

\* The frame that the properties of a machine are meant for
TargetOf(s) == IF s.enable /\ s.id # Missing THEN s.id ELSE s.reported

\* Frames lie wholly in the driver's list: a word of the page that is the target's
\* id begins one.
FramesInside(s) ==
  IF s.generation = "SandyBridge" THEN FrameSize * Len(s.sandy) <= Len(s.table)
  ELSE \A p \in 1..Len(s.table) :
         p <= Page /\ s.table[p] = TargetOf(s) => p + FrameSize - 1 <= Len(s.table)

\* What a machine consists of.  named is the alldata property whose name holds
\* the id of the current framebuffer; patch lists framebuffer-patch0 and so on.
MachineOK(s) ==
  /\ s.generation \in Generations
  /\ s.yosemite \in BOOLEAN /\ s.connectorless \in BOOLEAN /\ s.nohdmi \in BOOLEAN
  /\ s.table \in Seq(Nat) /\ s.sandy \in Seq(Nat) /\ s.reported \in Nat
  /\ s.enable \in BOOLEAN /\ s.id \in Nat \cup {Missing}
  /\ s.fields \in [Fields -> Nat \cup {Missing}]
  /\ \A i \in Indices :
       /\ s.con[i].enable \in BOOLEAN
       /\ s.con[i].named = Missing \/ s.con[i].named \in Seq(Nat)
       /\ s.con[i].plain = Missing \/ s.con[i].plain \in Seq(Nat)
       /\ s.con[i].own \in [ConnectorFields -> Nat \cup {Missing}]
  /\ Len(s.patch) \in Nat /\ DOMAIN s.patch = 1..Len(s.patch)
  /\ \A i \in DOMAIN s.patch :
       /\ s.patch[i].enable \in {"missing", "off", "on"}
       /\ s.patch[i].id \in Nat \cup {Missing}
       /\ s.patch[i].find = Missing \/ s.patch[i].find \in Seq(Nat)
       /\ s.patch[i].replace = Missing \/ s.patch[i].replace \in Seq(Nat)
       /\ s.patch[i].count \in Nat
  /\ FramesInside(s)
ASSUME MachinesAssumption == \A s \in Machines : MachineOK(s)

PatchesInit ==
  /\ setup \in Machines
  /\ patchesPc = "kernel"
  /\ fields = NoFields
  /\ connectors = [i \in Indices |-> NoConnector]
  /\ framebufferId = setup.reported
  /\ patches = <<>>
  /\ applyFramebufferPatch = FALSE /\ hdmiAutopatch = FALSE
  /\ routed = FALSE
  /\ table = setup.table
  /\ applied = <<>>
  /\ calls = 0

-----------------------------------------------------------------------------
\* Reading the properties

\* new where it has a value, old elsewhere
Override(old, new) == [f \in DOMAIN old |-> IF new[f] = Missing THEN old[f] ELSE new[f]]

\* A ConnectorInfo has three words; the first one holds index and busId.
ReadConnector(words, j) ==
  [index |-> words[3 * j + 1] % ByteMod, busid |-> words[3 * j + 1] \div ByteMod,
   type |-> words[3 * j + 2], flags |-> words[3 * j + 3]]

AllData(i) == IF setup.con[i].named # Missing THEN setup.con[i].named
              ELSE setup.con[i].plain

\* alldata of connector i replaces it and the following ones, if it is complete
\* and does not reach beyond the array.
WithAllData(patch, i) ==
  LET count == Len(AllData(i)) \div 3 IN
  IF AllData(i) = Missing THEN patch
  ELSE IF Len(AllData(i)) % 3 # 0 \/ i + count > MaxConnectors THEN patch
  ELSE [j \in Indices |-> IF j \in i..(i + count - 1)
                          THEN ReadConnector(AllData(i), j - i) ELSE patch[j]]

\* Mutated form of WithConnector: the single properties come first.
WithConnectorFirst(patch, i) ==
  IF ~setup.con[i].enable THEN patch
  ELSE WithAllData([patch EXCEPT ![i] = Override(@, setup.con[i].own)], i)

\* One round of the loop over the connectors.
WithConnector(patch, i) ==
  IF ~setup.con[i].enable THEN patch
  ELSE [WithAllData(patch, i) EXCEPT ![i] = Override(@, setup.con[i].own)]

ConnectorsAfter[n \in 0..MaxConnectors] ==
  IF n = 0 THEN [i \in Indices |-> NoConnector] ELSE WithConnector(ConnectorsAfter[n - 1], n - 1)
ConnectorPatches == ConnectorsAfter[MaxConnectors]

\* The first patch without a status ends the list.
Listed == {n \in DOMAIN setup.patch :
             \A m \in 1..n : setup.patch[m].enable # "missing"}

\* A disabled or an incomplete one is skipped.
Complete(n) == /\ setup.patch[n].enable = "on"
               /\ setup.patch[n].find # Missing /\ setup.patch[n].replace # Missing

BinaryPatch(n) ==
  [number |-> n,
   id |-> IF setup.patch[n].id = Missing THEN setup.reported ELSE setup.patch[n].id,
   find |-> setup.patch[n].find, replace |-> setup.patch[n].replace,
   count |-> IF setup.patch[n].count = 0 THEN 1 ELSE setup.patch[n].count]

\* The patches that remain move up in the array.
WithListed(kept, n) ==
  IF n \in Listed /\ Complete(n) THEN Append(kept, BinaryPatch(n)) ELSE kept
PatchesAfter[n \in 0..Len(setup.patch)] ==
  IF n = 0 THEN <<>> ELSE WithListed(PatchesAfter[n - 1], n)
BinaryPatches == PatchesAfter[Len(setup.patch)]

loadPatchesFromDevice ==
  /\ patches' = BinaryPatches
  /\ IF setup.enable
     THEN /\ fields' = setup.fields
          /\ connectors' = ConnectorPatches
          /\ framebufferId' = IF setup.id = Missing THEN setup.reported ELSE setup.id
     ELSE UNCHANGED <<fields, connectors, framebufferId>>
  /\ applyFramebufferPatch' =
       \/ setup.enable /\ setup.id # Missing
       \/ fields' # NoFields
       \/ \E i \in Indices : /\ setup.enable /\ setup.con[i].enable
                             /\ connectors'[i] # NoConnector
       \/ patches' # <<>>

\* processKernel
PatchesProcessKernel ==
  /\ patchesPc = "kernel"
  /\ loadPatchesFromDevice
  /\ hdmiAutopatch' = (/\ ~applyFramebufferPatch' /\ ~setup.connectorless
                       /\ setup.yosemite /\ ~setup.nohdmi)
  /\ patchesPc' = "kext"
  /\ UNCHANGED <<setup, routed, table, applied, calls>>

-----------------------------------------------------------------------------
\* Finding frames in the list, and changing them

\* findFramebufferId: the first word of that value, or 0
FindFramebufferId(t, id) ==
  LET found == {p \in DOMAIN t : p <= Page /\ t[p] = id} IN
  IF found = {} THEN 0 ELSE CHOOSE p \in found : \A q \in found : p <= q

\* Where the frames of an id begin.  Those of Sandy Bridge hold no id: a list of
\* IGFX says which one has which (sandyPlatformId).
Frames(t, id) ==
  IF setup.generation = "SandyBridge"
  THEN {1 + FrameSize * (n - 1) : n \in {n \in DOMAIN setup.sandy : setup.sandy[n] = id}}
  ELSE {FindFramebufferId(t, id)} \ {0}

\* What the word at an offset of a frame is to become.
PatchedWord(offset) ==
  LET values ==
        {fields[f] : f \in {f \in FieldsOf(setup.generation) : FieldOffset[f] = offset}}
        \cup UNION {{connectors[j][f] : f \in {f \in ConnectorFields :
                                                ConnectorOffset(j, f) = offset}}
                    : j \in 0..(FrameConnectors - 1)}
  IN IF values = {} THEN Missing ELSE CHOOSE v \in values : TRUE

FrameWords(starts) == UNION {s..(s + FrameSize - 1) : s \in starts}
OffsetIn(starts, p) == p - (CHOOSE s \in starts : p \in s..(s + FrameSize - 1))

\* applyPlatformInformationListPatch, with the fields that only some generations
\* have (applyPlatformInformationPatchEx)
PatchedList(t) ==
  LET starts == Frames(t, framebufferId)
      words == [offset \in 0..(FrameSize - 1) |-> PatchedWord(offset)]
      inside == FrameWords(starts)
  IN [p \in DOMAIN t |->
        IF p \notin inside THEN t[p]
        ELSE IF words[OffsetIn(starts, p)] = Missing THEN t[p]
        ELSE words[OffsetIn(starts, p)]]

\* Before 10.10 the layout of the frames is another one.
SemanticList(t) == IF setup.yosemite THEN PatchedList(t) ELSE t

\* applyDPtoHDMIPatch
HDMIList(t) ==
  LET types == {s + ConnectorOffset(j, "type") :
                  s \in Frames(t, framebufferId), j \in 0..(FrameConnectors - 1)}
  IN [p \in DOMAIN t |-> IF p \in types /\ t[p] = DP THEN HDMI ELSE t[p]]

\* One round of the loop of applyPatch, at word n from the start.
WithWord(acc, t, patch, start, n) ==
  LET size == Len(patch.find)
      p == start + n - 1
      fits == /\ n <= Page - size /\ p + size - 1 <= Len(t)
              /\ \A i \in 1..size : t[p + i - 1] = patch.find[i]
  IN IF ~fits \/ p < acc.next \/ acc.left = 0 THEN acc
     ELSE [t |-> [q \in DOMAIN t |-> IF q \in p..(p + size - 1)
                                     THEN patch.replace[q - p + 1] ELSE acc.t[q]],
           next |-> p + size, left |-> acc.left - 1]

\* applyPatch: from word start on, replacements that do not overlap, up to count
\* of them; the last word of the page at which find would fit is not looked at.
ReplacedList(t, patch, start) ==
  LET After[n \in 0..Page] ==
        IF n = 0 THEN [t |-> t, next |-> start, left |-> patch.count]
        ELSE WithWord(After[n - 1], t, patch, start, n)
  IN After[Page].t

\* Mutated form of WithBinary: the patch is not given up after its application.
WithBinaryKept(acc, k) ==
  LET patch == acc.patches[k]
      start == FindFramebufferId(acc.t, patch.id) IN
  IF \/ patch.find = Missing \/ start = 0
     \/ Len(patch.find) # Len(patch.replace)
  THEN acc
  ELSE [acc EXCEPT !.t = ReplacedList(@, patch, start),
                   !.applied = Append(@, patch.number)]

\* One round of the loop over the binary patches.  One whose frame is not there,
\* or whose two lengths differ, is kept; any other one is released.  Looking for
\* the frame only when the id changes makes a difference once an earlier patch
\* has replaced the id; \at is the place found last.
WithBinary(acc, k) ==
  LET patch == acc.patches[k]
      start == IF patch.id = acc.id THEN acc.at ELSE FindFramebufferId(acc.t, patch.id)
  IN
  IF patch.find = Missing THEN acc
  ELSE IF start = 0 \/ Len(patch.find) # Len(patch.replace)
  THEN [acc EXCEPT !.id = patch.id, !.at = start]
  ELSE [acc EXCEPT !.id = patch.id, !.at = start,
                   !.t = ReplacedList(@, patch, start),
                   !.patches[k] = [@ EXCEPT !.find = Missing, !.replace = Missing],
                   !.applied = Append(@, patch.number)]

BeforeBinaries ==
  LET semantic == SemanticList(table)
  IN [t |-> semantic, patches |-> patches, applied |-> applied,
      id |-> framebufferId, at |-> FindFramebufferId(semantic, framebufferId)]
BinariesAfter[k \in 0..Len(patches)] ==
  IF k = 0 THEN BeforeBinaries ELSE WithBinary(BinariesAfter[k - 1], k)

\* Nothing is replaced unless the frame of the semantic patches is in the list.
applyFramebufferPatches ==
  LET end == BinariesAfter[IF BeforeBinaries.at = 0 THEN 0 ELSE Len(patches)]
  IN /\ table' = end.t
     /\ patches' = end.patches
     /\ applied' = end.applied

doFrameBufferStuff ==
  /\ calls' = calls + 1
  /\ IF applyFramebufferPatch THEN applyFramebufferPatches
     ELSE /\ table' = IF hdmiAutopatch THEN HDMIList(table) ELSE table
          /\ UNCHANGED <<patches, applied>>

\* The framebuffer kext is loaded.  If its list is found, getOSInformation is
\* routed, and when the kext had been loaded before IGFX, the list is patched at
\* once.
PatchesProcessKext ==
  /\ patchesPc = "kext"
  /\ patchesPc' = "running"
  /\ \/ /\ applyFramebufferPatch \/ hdmiAutopatch
        /\ routed' = TRUE
        /\ \/ UNCHANGED <<calls, table, patches, applied>>
           \/ doFrameBufferStuff
     \/ UNCHANGED <<routed, calls, table, patches, applied>>
  /\ UNCHANGED <<setup, decided>>

wrapGetOSInformation ==
  /\ patchesPc = "running" /\ routed
  /\ calls < Calls
  /\ doFrameBufferStuff
  /\ UNCHANGED <<setup, patchesPc, decided, routed>>

PatchesNext == PatchesProcessKernel \/ PatchesProcessKext \/ wrapGetOSInformation

PatchesSpec == PatchesInit /\ [][PatchesNext]_patchesVars

-----------------------------------------------------------------------------
\* Properties

\* The connectors that the alldata string of connector i describes, as the FAQ
\* says: Manual/FAQ.IntelHD.en.md:2337, 12 bytes each, and 24 bytes on Ice Lake.
Words == IF setup.generation = "IceLake" THEN 6 ELSE 3
Described(i) ==
  LET w == AllData(i) IN
  IF w = Missing THEN <<>>
  ELSE IF Len(w) % Words # 0 THEN <<>>
  ELSE [n \in 1..(Len(w) \div Words) |->
          IF setup.generation = "IceLake"
          THEN [index |-> w[6 * n - 5], busid |-> w[6 * n - 4],
                type |-> w[6 * n - 1], flags |-> w[6 * n]]
          ELSE ReadConnector(w, n - 1)]

\* The enabled connectors whose string describes connector j.
Describing(j) ==
  {i \in 0..j : /\ setup.con[i].enable /\ j < i + Len(Described(i))
                /\ i + Len(Described(i)) <= MaxConnectors}

\* What the user wants field f of connector j to be: the most specific property
\* says, that is its own one, or the string that begins nearest to it.
WantedOf(j, f) ==
  IF setup.con[j].enable /\ setup.con[j].own[f] # Missing THEN setup.con[j].own[f]
  ELSE IF Describing(j) = {} THEN Missing
  ELSE LET i == CHOOSE i \in Describing(j) : \A k \in Describing(j) : k <= i
       IN Described(i)[j - i + 1][f]

\* The user wants some patch of his own.
Custom ==
  \/ /\ setup.enable
     /\ \/ setup.id # Missing \/ setup.fields # NoFields
        \/ \E j \in Indices, f \in ConnectorFields : WantedOf(j, f) # Missing
  \/ \E n \in Listed : Complete(n)

Target == TargetOf(setup)

\* Word o of frame s is what is wanted of it, or what the driver's list has.
WordAsAsked(s, o) ==
  LET old == setup.table[s + o]
      IsField(f) == f \in FieldsOf(setup.generation) /\ FieldOffset[f] = o
      Asked(v) == IF setup.enable /\ setup.yosemite /\ v # Missing THEN v ELSE old
      IsConnector(j, f) == o = ConnectorOffset(j, f)
  IN /\ \A f \in Fields : IsField(f) => table[s + o] = Asked(setup.fields[f])
     /\ \/ \E f \in Fields : IsField(f)
        \/ \E j \in 0..(FrameConnectors - 1), f \in ConnectorFields : IsConnector(j, f)
        \/ table[s + o] = old
     /\ \A j \in 0..(FrameConnectors - 1), f \in ConnectorFields :
          IsConnector(j, f) =>
            table[s + o] = IF Custom THEN Asked(WantedOf(j, f))
                           ELSE IF /\ f = "type" /\ old = DP
                                   /\ ~setup.connectorless /\ ~setup.nohdmi
                                   /\ setup.yosemite
                                THEN HDMI ELSE old

\* However many calls there have been, and in whatever way the properties of the
\* connectors overlap: as long as no binary patch was applied, each word of the
\* frame is what the most specific property asks for, DP connectors are HDMI ones
\* only when the user asked for nothing, and no other word of the list, in other
\* frames or of fields that the generation does not have, has changed.
ListAsAsked ==
  calls > 0 /\ applied = <<>> =>
    LET starts == Frames(setup.table, Target) IN
    /\ \A s \in starts, o \in 0..(FrameSize - 1) : WordAsAsked(s, o)
    /\ \A p \in DOMAIN table \ FrameWords(starts) : table[p] = setup.table[p]

\* getOSInformation is called for each framebuffer, on a list that has been
\* patched before: calls after the first one change nothing (a binary patch with a
\* count would find further places), but for words of the frame that a semantic
\* patch and a binary one both write, which the semantic one takes back.  This is
\* for binary patches that leave the ids of frames alone: one that writes an id can
\* uncover a frame for a patch before it, which the second call then applies.
FirstCallIsFinal ==
  [][calls > 0 /\ calls' > calls =>
       LET starts == Frames(setup.table, Target) IN
       \A p \in DOMAIN table :
         \/ table'[p] = table[p]
         \/ /\ p \in FrameWords(starts)
            /\ table'[p] = PatchedWord(OffsetIn(starts, p))]_patchesVars
==============================================================================
