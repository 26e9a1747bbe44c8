----------------------------- MODULE MCRpcClient -----------------------------
(* Two handlers that share the client. *)
EXTENDS RpcClient
CONSTANTS ann, ben
=============================================================================
