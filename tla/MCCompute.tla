------------------------------ MODULE MCCompute ------------------------------
\* Compute with a right and a wrong claim, two parties and an outsider.
EXTENDS Compute

CONSTANTS ch, cl, other, right, wrong
=============================================================================
