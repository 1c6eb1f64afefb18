-------------------------- MODULE MCVerificationGame --------------------------
\* VerificationGame on a machine with one word of memory, which every step reads and
\* flips. A hash is a memory, or Unknown.
EXTENDS VerificationGame

CONSTANTS ch, cl, word

Memory(value) == [position \in {word} |-> value]
AllHashes == {Memory(0), Memory(1), Unknown}
FlippingTrace == [t \in Times |-> Memory(t % 2)]
FlippingLog ==
  [memory \in {Memory(0), Memory(1)} |->
     <<[wasRead |-> TRUE, position |-> word, value |-> memory[word]],
       [wasRead |-> FALSE, position |-> word, value |-> 1 - memory[word]]>>]
=============================================================================
