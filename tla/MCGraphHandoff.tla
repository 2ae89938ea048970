--------------------------- MODULE MCGraphHandoff ---------------------------
(* Instances of GraphHandoff for TLC. *)
EXTENDS GraphHandoffInv

CONSTANTS a, b     \* node keys
=============================================================================
