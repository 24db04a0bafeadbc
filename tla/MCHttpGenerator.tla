--------------------------- MODULE MCHttpGenerator --------------------------
EXTENDS HttpGenerator
=============================================================================
