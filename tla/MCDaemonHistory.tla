-------------------------- MODULE MCDaemonHistory --------------------------
EXTENDS MCTrayDaemon, DaemonHistory
=============================================================================
