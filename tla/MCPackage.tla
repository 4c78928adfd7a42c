----------------------------- MODULE MCPackage -----------------------------
\* TLC instance of Package.
EXTENDS Package
MCLevels == <<0, 6>>
MCAttacks == <<3>>
MCFaults == <<2>>
MCMemories == <<64>>
============================================================================
