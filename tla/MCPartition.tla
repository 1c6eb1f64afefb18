----------------------------- MODULE MCPartition -----------------------------
\* Partition on a small instance: any two of the users dispute, anybody sends
\* anything. The arguments of instantiate include ones its requires refuse.
EXTENDS Partition, TLC

CONSTANTS u1, u2, h0, h1

\* Users and the hashes that are not the zero word are interchangeable.
Symmetry == Permutations(Users)
=============================================================================
