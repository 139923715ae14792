------------------------------ MODULE MCWebGate ------------------------------
(* The instance of WG_WebGate.cfg.                                          *)
EXTENDS WebGate, TLC

\* The workers of one service are interchangeable.
Symmetry == Permutations(Observers)
=============================================================================
