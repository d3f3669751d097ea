------------------------------ MODULE MCParts -------------------------------
EXTENDS Parts, TLC

\* Both runners here are of one key; the other key is one of an org without any.
MCOwner == [d \in 1 .. 2 |-> "org"]
MCTokenKinds == {[fine |-> FALSE, grants |-> {1, 2}], [fine |-> TRUE, grants |-> {1}],
             [fine |-> TRUE, grants |-> {1, 2}]}
MCOrg == [r \in {"r1", "r2", "r3"} |-> IF r = "r3" THEN "beta" ELSE "acme"]

\* Two tools are interchangeable.
ToolSymmetry == Permutations(Tools)
=============================================================================
