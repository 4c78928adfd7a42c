---------------------------- MODULE MCLaboratory ----------------------------
EXTENDS Laboratory

\* Every process takes a root, a code page with a table for it, and a data
\* page: four allocations, each of which can be the first to fail.
MCPlan == <<"table", "page", "table", "page">>
\* One process only, and room for two and a bit, up to exactly three.
MCMemories == {1 .. n : n \in {3, 12, 13, 14, 15, 16}}
=============================================================================
