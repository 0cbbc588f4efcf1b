----------------------------- MODULE MCDataPlane ----------------------------
EXTENDS DataPlane

AllKinds == {"proxyConn", "proxyConnUpgraded", "proxyHTTP"}
Connections == {"proxyConn"}
Requests == {"proxyHTTP"}
=============================================================================
