----------------------- MODULE MCCoordinationMailbox -----------------------
EXTENDS CoordinationMailbox, TLC

\* A notice that stays and a request that expires at the second instant.
MCBodies == {[ack |-> FALSE, expires |-> NULL], [ack |-> TRUE, expires |-> 2]}

Symmetry == Permutations(Keys) \cup Permutations(Tasks)
=============================================================================
