---------------------------- MODULE MCDaemonHost ----------------------------
EXTENDS DaemonHost
=============================================================================
