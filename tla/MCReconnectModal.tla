--------------------------- MODULE MCReconnectModal ---------------------------
(* An instance of ReconnectModal with several calls awaited at a time.           *)
EXTENDS ReconnectModal

CONSTANTS c1, c2, c3
=============================================================================
