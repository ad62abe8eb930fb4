------------------------------- MODULE MCChat -------------------------------
\* Small instances of Chat.
EXTENDS Chat

CONSTANTS u1, en, ru
=============================================================================
