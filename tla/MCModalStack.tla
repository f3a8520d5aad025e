---------------------------- MODULE MCModalStack ----------------------------
(* Model checking of ModalStack: the owners that may be destroyed are alike,  *)
(* so are those that may not, and so are the widgets.                         *)
EXTENDS ModalStack

Symmetry ==
    Permutations(Owners \cap Destroyable) \cup Permutations(Owners \ Destroyable)
    \cup Permutations(Widgets \cap Destroyable) \cup Permutations(Widgets \ Destroyable)

=============================================================================
