----------------------------- MODULE MCRpcCalls -----------------------------
(***************************************************************************)
(* RpcCalls over all generated stubs and handlers of the four backends.    *)
(***************************************************************************)
EXTENDS RpcCalls

\* The operations with a generated function on both sides.
MCOps == DOMAIN Stubs \cap DOMAIN handlers

\* A call that waits, one that posts and one that does either.
MCFollowers == {"cuStreamSynchronize", "cuMemsetD8Async", "ncclGroupStart"}
=============================================================================
