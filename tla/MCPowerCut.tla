------------------------------ MODULE MCPowerCut ------------------------------
(* Small instances of PowerCut for TLC.                                     *)
EXTENDS PowerCut, TLC

Files == Permutations(File)

(* Two blocks: entries of even and of odd clusters.                         *)
TwoBlocks == [c \in Cluster |-> c % 2]
=============================================================================
