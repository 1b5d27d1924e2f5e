---------------------------- MODULE MCRpcClient -----------------------------
(* RpcClient is instantiated by its cfg files alone.                       *)
EXTENDS RpcClient
=============================================================================
