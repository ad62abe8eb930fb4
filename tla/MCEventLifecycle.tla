-------------------------- MODULE MCEventLifecycle --------------------------
\* Small instances of EventLifecycle.  The jobs treat the matches they have read one
\* by one, and no row depends on another: one match meets every reading and write.
EXTENDS EventLifecycle, TLC

CONSTANT m1
=============================================================================
