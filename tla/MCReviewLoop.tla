---------------------------- MODULE MCReviewLoop ----------------------------
EXTENDS ReviewLoop

\* Codes 1a and 1b differ in content alone, which only the digest can tell.
ThreeCodes == {[cheap |-> 1, content |-> "a"], [cheap |-> 1, content |-> "b"],
               [cheap |-> 2, content |-> "a"]}
TwoCodes == {[cheap |-> 1, content |-> "a"], [cheap |-> 2, content |-> "a"]}
=============================================================================
