------------------------------ MODULE MCHosts ------------------------------
EXTENDS Hosts
CONSTANTS api, mcp, r1, r2, default, model, none
=============================================================================
