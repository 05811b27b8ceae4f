------------------------------ MODULE MCNetPBFT ------------------------------
\* Instances of NetPBFT for TLC.
EXTENDS NetPBFT

\* A cluster of four with one vehicle absent, so that every quorum needs every
\* member.
MCThree == 1 .. 3
==============================================================================
