-------------------------- MODULE MCRemoteControl --------------------------
EXTENDS RemoteControl
=============================================================================
