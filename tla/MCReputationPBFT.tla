--------------------------- MODULE MCReputationPBFT ---------------------------
\* Instances of ReputationPBFT for TLC.
EXTENDS ReputationPBFT

\* A cluster of four; a warm-up and two clients' calls, or three calls of the
\* benchmark.
MCFour == 1 .. 4
MCThreeCalls == 1 .. 3
MCProne == 2 .. 4

\* The flags' values, in tenths: alpha = 10 over the logarithm of 1 + excess
\* plus beta = 1, in steps.
MCReward ==
  [e \in 0 .. 300 |-> CASE e = 0   -> 100 [] e \in 1 .. 30   -> 44 [] e \in 31 .. 60 -> 36
                        [] e \in 61 .. 90 -> 32 [] e \in 91 .. 115 -> 29
                        [] e \in 116 .. 145 -> 28 [] e \in 146 .. 170 -> 26 [] OTHER -> 25]
==============================================================================
