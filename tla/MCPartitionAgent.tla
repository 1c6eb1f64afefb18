--------------------------- MODULE MCPartitionAgent ---------------------------
\* PartitionAgent with two parties and an outsider, and a machine whose hash
\* alternates: a signed hash is either the right one or a wrong one.
EXTENDS PartitionAgent

CONSTANTS ch, cl, other, h0, h1

AlternatingTrace == [t \in Times |-> IF t % 2 = 0 THEN h0 ELSE h1]
=============================================================================
