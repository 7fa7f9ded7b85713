--------------------------- MODULE MCDaemonLaunch ---------------------------
EXTENDS DaemonLaunch
=============================================================================
