-------------------------------- MODULE MCEngine --------------------------------
EXTENDS Engine, TLC

Blocks == Permutations(Block)
================================================================================
