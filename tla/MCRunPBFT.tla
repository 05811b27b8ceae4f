------------------------------ MODULE MCRunPBFT ------------------------------
\* Instances of RunPBFT for TLC.
EXTENDS RunPBFTInv, TLC

\* A cluster of four (f = 1) with every vehicle taking part.
MCFour == 1 .. 4

\* The operations are interchangeable (used with invariants only).
MCSymmetry == Permutations(Ops)

MCOneLeader == {1}
MCTwoLeaders == {1, 2}
==============================================================================
