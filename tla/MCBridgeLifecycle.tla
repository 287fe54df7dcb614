-------------------------- MODULE MCBridgeLifecycle --------------------------
EXTENDS BridgeLifecycle
=============================================================================
