------------------------------ MODULE MCPanels ------------------------------
(* Model checking of Panels: two panels, one of them on the second monitor. *)
EXTENDS Panels

CONSTANTS top, left

MCPanels == << [id |-> 1, place |-> <<0, top>>], [id |-> 2, place |-> <<1, top>>] >>
=============================================================================
