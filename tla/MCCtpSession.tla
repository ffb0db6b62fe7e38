----------------------------- MODULE MCCtpSession -----------------------------
(***************************************************************************)
(* Instances of CtpSession for TLC.                                        *)
(***************************************************************************)
EXTENDS CtpSession

CONSTANTS i1, i2, x

\* Two instruments, and last one that is filtered out.
MCListed == <<i1, i2, x>>
===============================================================================
