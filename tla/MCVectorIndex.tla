--------------------------- MODULE MCVectorIndex ---------------------------
EXTENDS VectorIndex
=============================================================================
