--------------------------- MODULE MCAppletManager --------------------------
(* Model checking of AppletManager: two panels on two monitors, each with an *)
(* instance of one applet; another applet, which is not enabled yet; and one  *)
(* that throws when it is added.                                              *)
EXTENDS AppletManager, TLC

CONSTANTS top, left, clock, chat, mail

MCPanels  == << [id |-> 1, place |-> <<0, top>>], [id |-> 2, place |-> <<1, top>>] >>
MCUuidOf  == <<clock, clock, chat, mail>>
MCFault   == <<"none", "none", "none", "added">>
MCApplets == << [id |-> 1, panel |-> 1, slot |-> 1], [id |-> 4, panel |-> 1, slot |-> 2],
                [id |-> 2, panel |-> 2, slot |-> 1] >>
=============================================================================
