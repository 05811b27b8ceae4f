-------------------------- MODULE MCGlobalTransition --------------------------
\* Instances of GlobalTransition for TLC.
EXTENDS GlobalTransition

\* p = 16: four clusters of four with one vehicle of each absent
\* (f_global = 5, two clusters are needed).
MCFourClusters == 1 .. 4
MCThreeEach == [c \in MCFourClusters |-> 1 .. 3]
==============================================================================
