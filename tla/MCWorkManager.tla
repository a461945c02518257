--------------------------- MODULE MCWorkManager ---------------------------
EXTENDS WorkManagerRefinement

\* The generation a direct caller of retain_for_flush() uses.
OneExtGen == {101}
=============================================================================
