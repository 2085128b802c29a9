----------------------- MODULE MCMachinePersistence ------------------------
\* A finite instance of MachinePersistence, in both deployments.
EXTENDS MachinePersistence

SixOrTwo == [d \in Deployments |-> IF d = "local" THEN 6 ELSE 2]
ThreeRuns == [d \in Deployments |-> 3]
=============================================================================
