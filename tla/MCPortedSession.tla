-------------------------- MODULE MCPortedSession --------------------------
(* A Java and a Python client, in both roles.                              *)
EXTENDS PortedSession, TLC

CONSTANTS j, y

MCClient == {j, y}
MCId == {"rdma-1", "rdma-2"}
MCRequestId == j :> "rdma-1" @@ y :> "rdma-2"
=============================================================================
