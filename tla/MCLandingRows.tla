--------------------------- MODULE MCLandingRows ---------------------------
EXTENDS LandingRows, TLC

Symmetric == Permutations(Rescans)
=============================================================================
