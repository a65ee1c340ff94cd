------------------------------- MODULE MCBridge -------------------------------
\* Bridge on small instances: the cfg files bound the calls, the limits and the faults.
EXTENDS Bridge
=============================================================================
