---------------------------- MODULE MCAcceptors ----------------------------
EXTENDS Acceptors, TLC

CONSTANTS gateway, api, c1, c2, c3

\* The MQTT server has workers, the HTTP API runs on the base loop.
MCThreads == (gateway :> 2) @@ (api :> 0)
=============================================================================
