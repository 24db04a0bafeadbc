---------------------------- MODULE MCLogrotateFs ---------------------------
EXTENDS LogrotateFs
=============================================================================
