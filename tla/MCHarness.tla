------------------------------ MODULE MCHarness ------------------------------
EXTENDS Harness
=============================================================================
