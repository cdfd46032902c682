------------------------- MODULE MCRadeonConnectors -------------------------
(* Controllers for TLC: a few boards with each set of properties.          *)
EXTENDS RadeonConnectors

Path(type, sense, encoder, extra) ==
  [type |-> type, sense |-> sense, encoder |-> encoder, extra |-> extra]

\* A path without a sense id comes before the DVI connector, and two
\* connectors share a sense id.
Board == <<Path("HDMI", 0, "UNIPHY2", FALSE), Path("DVI", 3, "UNIPHY", TRUE),
           Path("DP", 1, "UNIPHY1", FALSE)>>
Shared == <<Path("SVID", 2, "other", FALSE), Path("LVDS", 2, "KLDSCP_DAC1", FALSE),
            Path("VGA", 4, "UNIPHY2", FALSE)>>

User(type, sense) ==
  [type |-> type, sense |-> sense, transmitter |-> 17, priority |-> 0]

Plain == [family |-> "modern", objects |-> Board, tablesAgree |-> TRUE,
          kind |-> "none", overrides |-> <<>>, count |-> -1,
          ordered |-> FALSE, priority |-> <<>>, limit |-> -1]

\* A count of 12 keeps its low byte only, which is 2 if bytes wrap at 10.
MCSetups ==
  {Plain,
   [Plain EXCEPT !.family = "legacy", !.tablesAgree = FALSE, !.limit = 6],
   [Plain EXCEPT !.family = "legacy", !.ordered = TRUE, !.priority = <<1>>],
   [Plain EXCEPT !.objects = Shared, !.ordered = TRUE, !.priority = <<4, 2, 4>>],
   [Plain EXCEPT !.family = "legacy", !.kind = "data", !.count = 12,
                 !.overrides = <<User("DP", 1), User("DVI", 3)>>],
   [Plain EXCEPT !.kind = "data", !.overrides = <<User("DP", 1)>>],
   [Plain EXCEPT !.kind = "wrongType", !.count = 1]}
=============================================================================
