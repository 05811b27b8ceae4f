------------------------------ MODULE MCMobility ------------------------------
\* Instances of Mobility for TLC.
EXTENDS Mobility

MCVehicles == 1 .. 8
MCOps == 0 .. MaxOps

Cluster(l, s) == [leader |-> l, nodes |-> s]

\* Two clusters of four (p = 8).
MCFirst == <<Cluster(1, <<1, 2, 3, 4>>), Cluster(5, <<5, 6, 7, 8>>)>>

\* Two vehicles of each cluster have changed places, and one leads that did not
\* before; the other leader has moved to the other cluster.
MCMixed == <<Cluster(5, <<1, 2, 5, 6>>), Cluster(4, <<3, 4, 7, 8>>)>>

\* Both leaders stay in office and exchange a vehicle: calls on the old instances
\* go on as well as calls on the new ones.
MCExchanged == <<Cluster(1, <<1, 2, 3, 8>>), Cluster(5, <<4, 5, 6, 7>>)>>

MCLayouts == {MCMixed, MCExchanged}
==============================================================================
