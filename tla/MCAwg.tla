-------------------------------- MODULE MCAwg --------------------------------
(* Two peers over two addresses: as many as it takes to give a suspended    *)
(* peer's address away.                                                     *)
EXTENDS AwgBackends

CONSTANTS p1, p2

MCPeers    == {p1, p2}
MCPorts    == {1, 2}
MCBackends == {"kernel", "singbox"}
=============================================================================
