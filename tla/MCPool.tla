------------------------------- MODULE MCPool -------------------------------
EXTENDS PlanPool

\* Every plan's box meets every tile.
MCWanted == [p \in Plans |-> Tiles]
=============================================================================
