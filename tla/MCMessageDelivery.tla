------------------------- MODULE MCMessageDelivery -------------------------
(* Instances of MessageDelivery for TLC. *)
EXTENDS MessageDelivery, TLC

\* Messages differ in nothing but their identity.
Interchangeable == Permutations(Msgs)

\* Three messages are explored with one fault and two messages with two:
\* what either would add to the other is left to its own instance.
FewFaultsOrFewSends ==
    faults + Cardinality({m \in Msgs : sender[m] # "new"}) <= 4
=============================================================================
