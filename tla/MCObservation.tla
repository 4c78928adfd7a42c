--------------------------- MODULE MCObservation ---------------------------
EXTENDS Observation

MCPlan == <<"table", "page", "page">>
\* Room for init, a shell and two of the three pages of a child, or for two children.
MCMemories == {1 .. 8, 1 .. 12}
============================================================================
