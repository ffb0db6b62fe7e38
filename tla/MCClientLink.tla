---------------------------- MODULE MCClientLink ----------------------------
(* Instances of ClientLink for TLC. *)
EXTENDS ClientLink

CONSTANTS s1, s2
=============================================================================
