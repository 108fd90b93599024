------------------------- MODULE MCFullSystemBench -------------------------
EXTENDS FullSystemBench
=============================================================================
