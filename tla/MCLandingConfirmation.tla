------------------------- MODULE MCLandingConfirmation -------------------------
EXTENDS LandingConfirmation
================================================================================
