---------------------------- MODULE MCExtentFile ----------------------------
EXTENDS ExtentFile

MCBlocks == 1..16
MCPhys(c) == IF c < 3 THEN 10 + c ELSE 20 + c
=============================================================================
