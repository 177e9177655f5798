-------------------------- MODULE MCPeerDiscovery --------------------------
(* Small instances of PeerDiscovery.                                       *)
EXTENDS PeerDiscovery

\* Each server is configured with the next one.
Chain == {<<"a", "b">>, <<"b", "c">>}
=============================================================================
