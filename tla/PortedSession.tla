---------------------------- MODULE PortedSession ----------------------------
(***************************************************************************)
(* The session libraries of the Java and Python clients, RdmaSession.java  *)
(* with SyncWebSocket.java, and rdmalib.py, under the programs S3RdmaPut,  *)
(* S3RdmaGet, s3rdmaput.py and s3rdmaget.py.  They say that they mirror    *)
(* the C library, talk to the same control endpoint and differ in this:    *)
(*                                                                         *)
(*  - a failure is an exception.  The setup function catches it, closes    *)
(*    the WebSocket if the handshake has returned it, and cleans up;       *)
(*  - the buffer belongs to the session and is made after the handshake;   *)
(*  - in Java a listener thread receives, and the session waits at most 15 *)
(*    seconds for a message and 30 for the S3 answer; Python waits for     *)
(*    ever;                                                                *)
(*  - neither runtime dies of SIGPIPE, but a Java Error (out of memory)    *)
(*    passes every catch clause and ends the program.                      *)
(*                                                                         *)
(* Both reach libibverbs through a shim, verbs_shim.c, which is the same   *)
(* file twice.  State and control endpoint are those of RdmaSession; res   *)
(* has no struct.                                                          *)
(***************************************************************************)
EXTENDS RdmaSession

CONSTANT Java   \* the clients that run the Java programs; the others, Python

ASSUME JavaAssumption == Java \subseteq Client

VARIABLE queue  \* Java: the messages the listener has put into the queue

portedVars == <<vars, queue>>

PortedStep == {"start", "register", "registered", "open", "pd", "cq", "qp",
               "init", "query", "mtu", "qpinfo", "paired", "rtr", "rts", "buf", "mr",
               "token", "close", "ready", "copy", "destroy", "fail", "cleanup",
               "threw", "exit"}

\* The steps of handshake(), which returns the WebSocket at its end.
HandshakeStep == {"register", "registered", "open", "pd", "cq", "qp", "init",
                  "query", "mtu", "qpinfo", "paired", "rtr", "rts"}

PortedInit == Init /\ queue = [c \in Client |-> << >>]

----------------------------------------------------------------------------
(* Building blocks.                                                        *)

\* Fault: an exception after the handshake does not reach cleanup().
Raise_NoCleanup(c, at) ==
  Goto(c, at, IF at \in HandshakeStep THEN "cleanup" ELSE "threw")

\* An exception.  Inside handshake() the local variable ws is lost, and the
\* caller's is still null: nobody closes the connection.
Raise(c, at) ==
  Goto(c, at, IF at \in HandshakeStep THEN "cleanup" ELSE "fail")

\* A call of the shim that returns a handle or NULL.
Create(c, at, h, next) ==
  /\ \/ Goto(c, at, next) /\ res' = [res EXCEPT ![c] = @ \cup {h}]
     \/ Raise(c, at) /\ UNCHANGED res
  /\ UNCHANGED <<buf, ws, up, down, serverVars, queue>>

\* A call of the shim that changes the state of the queue pair, or fails.
ibv_modify_qp(c, at, state, next) ==
  /\ \/ Goto(c, at, next) /\ qp' = [qp EXCEPT ![c] = state]
     \/ Raise(c, at) /\ UNCHANGED qp
  /\ UNCHANGED <<res, access, buf, ws, up, down, serverVars, queue>>

\* A call of the shim that only asks.
Query(c, at, next) ==
  /\ Goto(c, at, next) \/ Raise(c, at)
  /\ UNCHANGED <<res, access, buf, qp, ws, up, down, serverVars, queue>>

sendJson(c, at, m, next) ==
  /\ \/ Goto(c, at, next) /\ Put(c, m)
     \/ Raise(c, at) /\ UNCHANGED up
  /\ UNCHANGED <<res, access, buf, qp, ws, down, serverVars, queue>>

\* Fault: recvText takes a null from poll for the message it waits for.
recvText_NullIsAnswer(c, at, m, next) ==
  /\ c \in Java
  /\ \/ /\ queue[c] # << >>
        /\ IF Head(queue[c]) = m THEN Goto(c, at, next) ELSE Raise(c, at)
        /\ queue' = [queue EXCEPT ![c] = Tail(@)]
     \/ queue[c] = << >> /\ Goto(c, at, next) /\ UNCHANGED queue
  /\ UNCHANGED <<res, access, buf, qp, ws, up, down, serverVars>>

\* Fault: take() instead of poll(), which has no timeout.
recvText_NoTimeout(c, at, m, next) ==
  /\ c \in Java
  /\ queue[c] # << >>
  /\ IF Head(queue[c]) = m THEN Goto(c, at, next) ELSE Raise(c, at)
  /\ queue' = [queue EXCEPT ![c] = Tail(@)]
  /\ UNCHANGED <<res, access, buf, qp, ws, up, down, serverVars>>

\* Java: the next message of the queue, or an exception after 15 seconds.
recvText(c, at, m, next) ==
  /\ c \in Java
  /\ \/ /\ queue[c] # << >>
        /\ IF Head(queue[c]) = m THEN Goto(c, at, next) ELSE Raise(c, at)
        /\ queue' = [queue EXCEPT ![c] = Tail(@)]
     \/ queue[c] = << >> /\ Raise(c, at) /\ UNCHANGED queue
  /\ UNCHANGED <<res, access, buf, qp, ws, up, down, serverVars>>

\* Python: ws.recv() waits for the next message.
recv(c, at, m, next) ==
  /\ c \notin Java
  /\ down[c] # << >>
  /\ IF Head(down[c]) = m THEN Goto(c, at, next) ELSE Raise(c, at)
  /\ down' = [down EXCEPT ![c] = Tail(@)]
  /\ UNCHANGED <<res, access, buf, qp, ws, up, serverVars, queue>>

recvJson(c, at, m, next) == recvText(c, at, m, next) \/ recv(c, at, m, next)

\* The shim's rdma_dereg_mr, rdma_destroy_qp, rdma_destroy_cq, rdma_dealloc_pd
\* and rdma_close_device: what is held of them, in this order.
ReleaseHandle(c, h) ==
  /\ h \in res[c] /\ \A g \in res[c] : CleanupRank[h] <= CleanupRank[g]
  /\ res' = [res EXCEPT ![c] = @ \ {h}]
  /\ access' = [access EXCEPT ![c] = IF h = "mr" THEN {} ELSE @]
  /\ qp' = [qp EXCEPT ![c] = IF h = "qp" THEN "none" ELSE @]

\* One handle at a time, and the buffer after them.
Release(c, at, next) ==
  /\ \/ pc[c] = at /\ (\E h \in Handle : ReleaseHandle(c, h)) /\ UNCHANGED <<pc, buf>>
     \/ /\ res[c] = {} /\ Goto(c, at, next)
        /\ buf' = [buf EXCEPT ![c] = "none"]
        /\ UNCHANGED <<res, access, qp>>
  /\ UNCHANGED <<ws, up, down, serverVars, queue>>

----------------------------------------------------------------------------
(* The session.                                                            *)

\* Reading the file or the HEAD request fails, or the WebSocket connection
\* does.  Java stops waiting for the connection after 15 seconds, and it may
\* be established after that.
Connect(c) ==
  /\ \/ /\ Goto(c, "start", "register")
        /\ ws' = [ws EXCEPT ![c] = "open"]
        /\ srv' = [srv EXCEPT ![c] = "connected"]
     \/ Goto(c, "start", "cleanup") /\ UNCHANGED <<ws, srv>>
     \/ /\ c \in Java /\ Goto(c, "start", "cleanup")
        /\ ws' = [ws EXCEPT ![c] = "open"]
        /\ srv' = [srv EXCEPT ![c] = "connected"]
     \/ Goto(c, "start", "exit") /\ UNCHANGED <<ws, srv>>
  /\ UNCHANGED <<res, access, buf, qp, up, down, owner, queue>>

Register(c) ==
  \/ sendJson(c, "register", "register_request", "registered")
  \/ recvJson(c, "registered", "register_ok", "open")

\* verbs_shim.c, one definition per function the handshake calls.
rdma_open_device(c)  == Create(c, "open", "ctx", "pd") /\ UNCHANGED <<access, qp>>
rdma_alloc_pd(c)     == Create(c, "pd", "pd", "cq") /\ UNCHANGED <<access, qp>>
rdma_create_cq(c)    == Create(c, "cq", "cq", "qp") /\ UNCHANGED <<access, qp>>
rdma_create_rc_qp(c) ==
  /\ Create(c, "qp", "qp", "init") /\ UNCHANGED access
  /\ qp' = [qp EXCEPT ![c] = IF "qp" \in res'[c] THEN "RESET" ELSE @]
rdma_qp_to_init(c)   == ibv_modify_qp(c, "init", "INIT", "query")
rdma_query_gid(c)    == Query(c, "query", "mtu")
rdma_query_port_mtu_enum(c) == Query(c, "mtu", "qpinfo")
rdma_qp_to_rtr(c)    == ibv_modify_qp(c, "rtr", "RTR", "rts")
rdma_qp_to_rts(c)    == ibv_modify_qp(c, "rts", "RTS", "buf")

CreateVerbs(c) ==
  rdma_open_device(c) \/ rdma_alloc_pd(c) \/ rdma_create_cq(c) \/ rdma_create_rc_qp(c)

Pair(c) ==
  \/ rdma_qp_to_init(c) \/ rdma_query_gid(c) \/ rdma_query_port_mtu_enum(c)
  \/ sendJson(c, "qpinfo", "qpinfo_client", "paired")
  \/ recvJson(c, "paired", "qpinfo_server", "rtr")
  \/ rdma_qp_to_rtr(c) \/ rdma_qp_to_rts(c)

\* allocateDirect, mmap.mmap, and the copy of the data to send.
Allocate(c) ==
  /\ \/ Goto(c, "buf", "mr") /\ buf' = [buf EXCEPT ![c] = "mapped"]
     \/ Raise(c, "buf") /\ UNCHANGED buf
  /\ UNCHANGED <<res, access, qp, ws, up, down, serverVars, queue>>

\* ibv_reg_mr of the shim, with the rights it grants the server.
RegMr(c, rights) ==
  /\ Create(c, "mr", "mr", "token")
  /\ access' = [access EXCEPT ![c] = IF "mr" \in res'[c] THEN rights ELSE @]
  /\ UNCHANGED qp

\* Fault: a right that no transfer uses is granted too.
rdma_reg_mr_dst_Atomic(c) == c \in Receivers /\ RegMr(c, Right \cup {"remote_atomic"})

\* The receiver lets the server read and write, the sender only read.
rdma_reg_mr_dst(c) == c \in Receivers /\ RegMr(c, Right)
rdma_reg_mr_src(c) == c \notin Receivers /\ RegMr(c, {"remote_read"})

\* Fault: the token goes out before the region is registered.
TokenAndMr_TokenFirst(c) ==
  \/ sendJson(c, "mr", "token", "token")
  \/ /\ Create(c, "token", "mr", "close")
     /\ access' = [access EXCEPT ![c] = IF "mr" \in res'[c] THEN Right ELSE @]
     /\ UNCHANGED qp

\* The end of the setup: register, then tell the server.
TokenAndMr(c) ==
  rdma_reg_mr_dst(c) \/ rdma_reg_mr_src(c) \/ sendJson(c, "token", "token", "close")

\* ws.close(), at the end of the setup and in the catch clause.
CloseWs(c) ==
  /\ Goto(c, "close", "ready") \/ Goto(c, "fail", "cleanup")
  /\ Put(c, "closeframe")
  /\ ws' = [ws EXCEPT ![c] = "closed"]
  /\ UNCHANGED <<res, access, buf, qp, down, serverVars, queue>>

\* The setup function rethrows, and main ends the program.
SetupFailed(c) ==
  /\ Goto(c, "threw", "exit")
  /\ ws' = [ws EXCEPT ![c] = IF @ = "open" THEN "closed" ELSE @]
  /\ IF ws[c] = "open" THEN Put(c, "closeframe") ELSE UNCHANGED up
  /\ UNCHANGED <<res, access, buf, qp, down, serverVars, queue>>

\* The S3 call returns; a get copies the data out before it destroys the
\* session.
S3Call(c) ==
  /\ \/ Goto(c, "ready", "destroy")
     \/ c \in Receivers /\ Goto(c, "ready", "copy")
     \/ Goto(c, "copy", "destroy")
  /\ UNCHANGED <<res, access, buf, qp, ws, up, down, serverVars, queue>>

CleanUp(c) == Release(c, "cleanup", "threw") \/ Release(c, "destroy", "exit")

\* Java: out of memory, or no shim library.  The process ends, and the
\* system takes back what it held.
Error(c) ==
  /\ c \in Java /\ pc[c] \in {"open", "buf", "copy"}
  /\ pc'     = [pc EXCEPT ![c] = "exit"]
  /\ res'    = [res EXCEPT ![c] = {}]
  /\ access' = [access EXCEPT ![c] = {}]
  /\ buf'    = [buf EXCEPT ![c] = "none"]
  /\ qp'     = [qp EXCEPT ![c] = "none"]
  /\ ws'     = [ws EXCEPT ![c] = "closed"]
  /\ IF ws[c] = "open" THEN Put(c, "closeframe") ELSE UNCHANGED up
  /\ UNCHANGED <<down, serverVars, queue>>

\* Java: onText, onClose and onError, on the thread of the HttpClient.
Listener(c) ==
  /\ c \in Java /\ ws[c] = "open" /\ down[c] # << >>
  /\ queue' = [queue EXCEPT ![c] = Append(@, Head(down[c]))]
  /\ down' = [down EXCEPT ![c] = Tail(@)]
  /\ UNCHANGED <<clientVars, up, serverVars>>

----------------------------------------------------------------------------

PortedProcess(c) ==
  \/ Connect(c) \/ Register(c) \/ CreateVerbs(c) \/ Pair(c) \/ Allocate(c)
  \/ TokenAndMr(c) \/ CloseWs(c) \/ SetupFailed(c) \/ S3Call(c) \/ CleanUp(c)

PortedNext ==
  \/ \E c \in Client : \/ PortedProcess(c) \/ Error(c) \/ Listener(c)
                       \/ (Control(c) \/ SrvHangup(c)) /\ UNCHANGED queue
  \/ Terminated /\ UNCHANGED queue

PortedSpec == PortedInit /\ [][PortedNext]_portedVars

\* Every process runs.  The server has to answer a Python client, which has
\* no timeout; it owes a Java client nothing.
PortedFairness ==
  \A c \in Client :
    /\ WF_portedVars(PortedProcess(c))
    /\ c \notin Java => WF_portedVars(Control(c) /\ UNCHANGED queue)

PortedFairSpec == PortedSpec /\ PortedFairness

----------------------------------------------------------------------------
(* Properties.                                                             *)

\* Type correctness of the session and of the listener's queue.
PortedTypeOK ==
  /\ pc     \in [Client -> PortedStep]
  /\ res    \in [Client -> SUBSET (Handle \ {"s"})]
  /\ access \in [Client -> SUBSET Right]
  /\ buf    \in [Client -> {"none", "mapped"}]
  /\ qp     \in [Client -> {"none", "RESET", "INIT", "RTR", "RTS"}]
  /\ ws     \in [Client -> {"none", "open", "closed"}]
  /\ up     \in [Client -> Seq(UpMsg)]
  /\ down   \in [Client -> Seq(DownMsg)]
  /\ queue  \in [Client -> Seq(DownMsg)]
  /\ srv    \in [Client -> {"none", "connected", "registered", "paired",
                            "armed", "gone"}]
  /\ owner  \in [Id -> Client \cup {NoClient}]

\* On every path through exceptions and cleanup, a handle is held only
\* together with the handles it was made from, and a region only over a
\* buffer that exists.
HandlesNested ==
  \A c \in Client : \A h \in res[c] :
    /\ Parents[h] \ {"s"} \subseteq res[c]
    /\ h = "mr" => buf[c] = "mapped"

\* A setup that throws has given back every verbs handle and its buffer,
\* whichever call failed or timed out.
FailedSetupReleases ==
  \A c \in Client : pc[c] = "threw" => res[c] = {} /\ buf[c] = "none"

\* When the server has the token, the region is registered for the transfer
\* and the queue pair is ready, until the program destroys the session.
PortedTokenUsable ==
  \A c \in Client :
    srv[c] = "armed" =>
      \/ /\ "mr" \in res[c] /\ qp[c] = "RTS"
         /\ (IF c \in Receivers THEN "remote_write" ELSE "remote_read") \in access[c]
      \/ pc[c] \in {"destroy", "exit"}

=============================================================================
