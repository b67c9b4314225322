--------------------------- MODULE MCInitialization ---------------------------
\* One governance file, a file of a profile and one that never replaces another.
EXTENDS Initialization, TLC
CONSTANTS g, a, make
OneGovernance == <<g>>
TwoFiles == <<a, make>>
ReleaseSymmetry == Permutations(Releases)
===============================================================================
