----------------------------- MODULE MCPeerView -----------------------------
EXTENDS PeerView
=============================================================================
