--------------------------- MODULE MCRadioOutput ---------------------------
EXTENDS RadioOutputRefinement
=============================================================================
