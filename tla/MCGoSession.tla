---------------------------- MODULE MCGoSession ----------------------------
(* Two Go processes, each of which runs any of the programs.               *)
EXTENDS GoSession, TLC

CONSTANTS a, b

MCClient == {a, b}
MCId == {"rdma-1", "rdma-2"}
MCRequestId == a :> "rdma-1" @@ b :> "rdma-2"
=============================================================================
