-------------------------- MODULE MCMarketSimulator --------------------------
(* Small instances of MarketSimulator.                                     *)
EXTENDS MarketSimulator, TLC

SlotSymmetry == Permutations(Slots)
=============================================================================
