-------------------------------- MODULE MCWEG -------------------------------
(* Machines for TLC: one family for each group of decisions.               *)
EXTENDS WEG

Plain == [amd |-> TRUE, name |-> "other", preserve |-> FALSE, real |-> 1, acpi |-> 1,
          model |-> 0, optOut |-> FALSE, agdp |-> None, applbkl |-> None]

Machine == [kernel |-> 17, apple |-> FALSE, info |-> TRUE, rebuildTree |-> FALSE,
            compatibleBoard |-> FALSE, builtin |-> None, connectorLess |-> FALSE,
            externals |-> <<>>, vinfo |-> TRUE, verbose |-> FALSE, gfxrst |-> "NONE",
            agdpmod |-> None, applbkl |-> None,
            mode |-> [f \in Framebuffers |-> "same"],
            vram |-> [f \in Framebuffers |-> TRUE]]

\* Names, ids and opting out, on a PC and on a Mac.
Ids == {g \in [amd : BOOLEAN, name : {"GFX", "other"}, preserve : BOOLEAN, real : {1},
               acpi : {0, 1, 2}, model : {0}, optOut : BOOLEAN,
               agdp : {None}, applbkl : {None}] : ~g.preserve \/ g.name = "other"}
Second == {[Plain EXCEPT !.acpi = 3],
           [Plain EXCEPT !.acpi = 3, !.name = "GFX", !.amd = FALSE]}
Igpus == {None, [Plain EXCEPT !.acpi = 4, !.name = "IGPU"],
          [Plain EXCEPT !.acpi = 0, !.model = 4],
          [Plain EXCEPT !.acpi = 4, !.optOut = TRUE]}
IdMachines ==
  {[Machine EXCEPT !.builtin = igpu, !.externals = gpus, !.agdpmod = {}, !.applbkl = "OFF"] :
     igpu \in Igpus, gpus \in {<<g>> : g \in Ids} \cup {<<g, h>> : g \in Ids, h \in Second}
                                \cup {<<h, g>> : g \in Ids, h \in Second}}
  \cup {[Machine EXCEPT !.apple = TRUE, !.rebuildTree = rebuild,
                        !.externals = <<[Plain EXCEPT !.acpi = 2]>>] :
          rebuild \in BOOLEAN}

\* Who says what about the graphics policy.
PolicyMachines ==
  {[Machine EXCEPT !.kernel = kernel, !.apple = apple, !.info = info,
                   !.compatibleBoard = board, !.agdpmod = boot,
                   !.builtin = [Plain EXCEPT !.agdp = igpu], !.externals = gpus] :
     kernel \in {17, 18}, apple \in BOOLEAN, info \in BOOLEAN, board \in BOOLEAN,
     boot \in {None, {}, {"detect"}, {"ignore", "pikera"}, {"cfgmap", "vit9696"}},
     igpu \in {None, {"pikera"}},
     gpus \in {<<>>, <<Plain>>, <<Plain, [Plain EXCEPT !.agdp = {"cfgmap"}]>>,
               <<[Plain EXCEPT !.agdp = {"detect"}]>>}}

\* Who says what about the backlight.
BacklightMachines ==
  {[Machine EXCEPT !.apple = apple, !.applbkl = boot, !.externals = gpus, !.builtin = igpu] :
     apple \in BOOLEAN, boot \in BacklightModes \cup {None},
     igpu \in {None, Plain, [Plain EXCEPT !.applbkl = "ON"],
               [Plain EXCEPT !.applbkl = "OFF"]},
     gpus \in {<<>>, <<Plain>>, <<[Plain EXCEPT !.applbkl = "DETECT"],
                                   [Plain EXCEPT !.applbkl = "ON"]>>}}

\* Framebuffers of all kinds in all modes of the reset.
ScreenMachines ==
  {[Machine EXCEPT !.vinfo = vinfo, !.verbose = verbose,
                   !.gfxrst = reset, !.builtin = igpu, !.connectorLess = less,
                   !.externals = gpus, !.agdpmod = {}, !.applbkl = "OFF", !.mode = mode, !.vram = vram] :
     vinfo \in BOOLEAN, verbose \in BOOLEAN, less \in BOOLEAN,
     igpu \in {None, Plain}, gpus \in {<<>>, <<Plain>>},
     reset \in FramebufferFixModes \cup {"invalid", None},
     mode \in [Framebuffers -> {"same", "other"}]
                \cup {[f \in Framebuffers |-> "unknown"]},
     vram \in {[f \in Framebuffers |-> TRUE], [f \in Framebuffers |-> FALSE]}}

\* Before Yosemite the framebuffer is left alone, whatever the boot argument.
OldMachine == [Machine EXCEPT !.kernel = 13, !.gfxrst = "RESET"]

MCSetups == {OldMachine} \cup IdMachines \cup PolicyMachines \cup BacklightMachines \cup ScreenMachines
=============================================================================
