---------------------------- MODULE MCProofAgent ----------------------------
\* ProofAgent on a memory of four words and a step that reads and writes in both halves
\* of it, one word twice.
EXTENDS ProofAgent

CONSTANTS agent, other

Words == 0..3
Start == [p \in Words |-> IF p = 1 THEN 1 ELSE 0]
Step ==
  <<[wasRead |-> TRUE, position |-> 1, value |-> 1],
    [wasRead |-> FALSE, position |-> 2, value |-> 1],
    [wasRead |-> TRUE, position |-> 2, value |-> 1]>>
=============================================================================
