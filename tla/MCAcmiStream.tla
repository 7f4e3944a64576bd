------------------------------ MODULE MCAcmiStream ------------------------------
EXTENDS AcmiStream, TLC
================================================================================
