---------------------------- MODULE MCEventPages ----------------------------
\* Small instances of EventPages.
EXTENDS EventPages

CONSTANTS e1, e2
=============================================================================
