--------------------------- MODULE MCSameSizeKMeans ---------------------------
\* Instances of SameSizeKMeans for TLC.
EXTENDS SameSizeKMeans

P(x, y) == [x |-> x, y |-> y]

\* p = 10: m = 2 clusters of n = 4, and two vehicles more.  Four vehicles stand
\* still; the others are, in any order, at four places: the corners of a
\* triangle, one of them shared with a vehicle that stands still, and its middle.
MCPlaces == {P(0, 0), P(4, 0), P(1, 3)}
MCFixed == <<P(0, 0), P(4, 1), P(2, 1), P(0, 3)>>
MCLayouts == {MCFixed \o l : l \in [1 .. 6 -> MCPlaces]}
==============================================================================
