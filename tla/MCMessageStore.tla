---------------------------- MODULE MCMessageStore ----------------------------
(***************************************************************************)
(* Instances of MessageStore for TLC.                                      *)
(***************************************************************************)
EXTENDS MessageStore

CONSTANTS m1, m2, m3

\* The messages sent by HTTP are interchangeable.
MCSymmetry == Permutations({m2, m3})
================================================================================
