---------------------------- MODULE RdmaSession ----------------------------
(***************************************************************************)
(* The session layer of the C client, examples/rdma/c/rdmalib.c: what      *)
(* rdma_send_setup, rdma_recv_setup and rdma_session_destroy do to the     *)
(* resources of one client process, against the control endpoint of the    *)
(* storefs server (external: the server is not part of the repository and  *)
(* is modelled from how the clients use it).                               *)
(*                                                                         *)
(* Every client process makes one session.  The code is a straight ladder  *)
(* of calls in which every call can fail, so the state is a program        *)
(* counter named after the call to be made next, the set of handles the    *)
(* struct rdma_session holds, the queue pair's state, the client's end of  *)
(* the WebSocket, and the two directions of that connection.               *)
(***************************************************************************)
EXTENDS Naturals, Sequences

CONSTANTS
  Client,      \* client processes, on any number of hosts
  Receivers,   \* the clients that call rdma_recv_setup (s3rdmaget)
  Id,          \* request identifiers
  RequestId,   \* [Client -> Id]: the id each process generates
  NoClient     \* "no client", in the server's table of request ids

ASSUME ReceiversAssumption == Receivers \subseteq Client
ASSUME RequestIdAssumption == RequestId \in [Client -> Id]
ASSUME NoClientAssumption  == NoClient \notin Client

VARIABLES
  pc,      \* the call each client makes next
  res,     \* what its struct rdma_session holds
  access,  \* the remote access rights its memory region grants
  buf,     \* the transfer buffer: none, or mapped
  qp,      \* the state of its queue pair
  ws,      \* its end of the control WebSocket
  up,      \* control messages client -> server, in flight
  down,    \* control messages server -> client, in flight
  srv,     \* the server's state of each control connection
  owner    \* the server's table: the client registered under each id

clientVars == <<pc, res, access, buf, qp, ws>>
serverVars == <<srv, owner>>
vars == <<pc, res, access, buf, qp, ws, up, down, srv, owner>>

----------------------------------------------------------------------------

\* Fault: the completion queue is released before the queue pair using it.
CleanupRank_CqFirst == [mr |-> 1, qp |-> 3, cq |-> 2, pd |-> 4, ctx |-> 5, s |-> 6]

\* The handles, in the order in which cleanup() releases them; "s" is the
\* struct rdma_session itself.
CleanupRank == [mr |-> 1, qp |-> 2, cq |-> 3, pd |-> 4, ctx |-> 5, s |-> 6]

Handle == {"s", "ctx", "pd", "cq", "qp", "mr"}

\* The handles a handle was made from (its arguments in rdma_handshake and
\* the two setup functions).  The verbs library refuses to release a handle
\* that another one still uses, and cleanup() ignores the refusal.
Parents == [s |-> {}, ctx |-> {"s"}, pd |-> {"s", "ctx"}, cq |-> {"s", "ctx"},
            qp |-> {"s", "pd", "cq"}, mr |-> {"s", "pd"}]

SetupStep == {"start", "calloc", "dial", "register", "registered", "open",
              "pd", "cq", "qp", "init", "query", "qpinfo", "paired", "rtr",
              "rts", "mr", "token", "close", "ready"}

Step == SetupStep \cup {"fail", "cleanup", "munmap", "exit"}

UpMsg   == {"register_request", "qpinfo_client", "token", "closeframe"}
DownMsg == {"register_ok", "register_failed", "qpinfo_server", "error",
            "closeframe"}

Right   == {"remote_read", "remote_write"}

Init ==
  /\ pc     = [c \in Client |-> "start"]
  /\ res    = [c \in Client |-> {}]
  /\ access = [c \in Client |-> {}]
  /\ buf    = [c \in Client |-> "none"]
  /\ qp     = [c \in Client |-> "none"]
  /\ ws     = [c \in Client |-> "none"]
  /\ up     = [c \in Client |-> << >>]
  /\ down   = [c \in Client |-> << >>]
  /\ srv    = [c \in Client |-> "none"]
  /\ owner  = [i \in Id |-> NoClient]

----------------------------------------------------------------------------
(* Building blocks.                                                        *)

Goto(c, from, to) ==
  /\ pc[c] = from
  /\ pc' = [pc EXCEPT ![c] = to]

\* A message written to the socket is lost when the server is gone.
Put(c, m) ==
  up' = [up EXCEPT ![c] = IF srv[c] = "gone" THEN @ ELSE Append(@, m)]

\* A verbs call that creates a handle, or returns NULL.
Obtain(c, at, h, next) ==
  /\ \/ /\ Goto(c, at, next)
        /\ res' = [res EXCEPT ![c] = @ \cup {h}]
     \/ Goto(c, at, "fail") /\ UNCHANGED res
  /\ UNCHANGED <<buf, ws, up, down, serverVars>>

\* ibv_modify_qp: the queue pair moves to the next state, or the call fails.
Modify(c, at, state, next) ==
  /\ \/ /\ Goto(c, at, next)
        /\ qp' = [qp EXCEPT ![c] = state]
     \/ Goto(c, at, "fail") /\ UNCHANGED qp
  /\ UNCHANGED <<res, access, buf, ws, up, down, serverVars>>

\* ws_send_text: the frame is handed to the socket, or the write fails.
ws_send_text(c, at, m, next) ==
  /\ \/ Goto(c, at, next) /\ Put(c, m)
     \/ Goto(c, at, "fail") /\ UNCHANGED up
  /\ UNCHANGED <<res, access, buf, qp, ws, down, serverVars>>

\* ws_recv_text blocks until a frame is there; anything but the expected
\* answer ends the handshake.
ws_recv_text(c, at, m, next) ==
  /\ down[c] # << >>
  /\ Goto(c, at, IF Head(down[c]) = m THEN next ELSE "fail")
  /\ down' = [down EXCEPT ![c] = Tail(@)]
  /\ UNCHANGED <<res, access, buf, qp, ws, up, serverVars>>

----------------------------------------------------------------------------
(* The client process.                                                     *)

\* The program makes its buffer before it calls the library, or gives up:
\* mmap, and fread in s3rdmaput.
MapBuffer(c) ==
  /\ \/ Goto(c, "start", "calloc") /\ buf' = [buf EXCEPT ![c] = "mapped"]
     \/ Goto(c, "start", "exit")   /\ UNCHANGED buf
  /\ UNCHANGED <<res, access, qp, ws, up, down, serverVars>>

\* Fault: the program does not munmap when the setup returns NULL early.
AllocSession_NoMunmap(c) ==
  /\ \/ Goto(c, "calloc", "dial") /\ res' = [res EXCEPT ![c] = {"s"}]
     \/ Goto(c, "calloc", "exit") /\ UNCHANGED res
  /\ UNCHANGED <<access, buf, qp, ws, up, down, serverVars>>

\* rdma_send_setup, rdma_recv_setup: calloc of the struct.
AllocSession(c) ==
  /\ \/ Goto(c, "calloc", "dial") /\ res' = [res EXCEPT ![c] = {"s"}]
     \/ Goto(c, "calloc", "munmap") /\ UNCHANGED res
  /\ UNCHANGED <<access, buf, qp, ws, up, down, serverVars>>

\* ws_dial: connect and upgrade; on failure it has closed its own socket.
ws_dial(c) ==
  /\ \/ /\ Goto(c, "dial", "register")
        /\ ws' = [ws EXCEPT ![c] = "open"]
        /\ srv' = [srv EXCEPT ![c] = "connected"]
     \/ Goto(c, "dial", "cleanup") /\ UNCHANGED <<ws, srv>>
  /\ UNCHANGED <<res, access, buf, qp, up, down, owner>>

send_register_request(c) ==
  ws_send_text(c, "register", "register_request", "registered")

recv_register_response(c) ==
  ws_recv_text(c, "registered", "register_ok", "open")

v_open_device(c) == Obtain(c, "open", "ctx", "pd") /\ UNCHANGED <<access, qp>>

ibv_alloc_pd(c) == Obtain(c, "pd", "pd", "cq") /\ UNCHANGED <<access, qp>>

ibv_create_cq(c) == Obtain(c, "cq", "cq", "qp") /\ UNCHANGED <<access, qp>>

ibv_create_qp(c) ==
  /\ Obtain(c, "qp", "qp", "init")
  /\ qp' = [qp EXCEPT ![c] = IF "qp" \in res'[c] THEN "RESET" ELSE @]
  /\ UNCHANGED access

v_qp_to_init(c) == Modify(c, "init", "INIT", "query")

\* Fault: the error path leaves the connection open.
v_query_port_NoClose(c) ==
  /\ Goto(c, "query", "qpinfo") \/ Goto(c, "query", "cleanup")
  /\ UNCHANGED <<res, access, buf, qp, ws, up, down, serverVars>>

\* Fault: a failed query is tried again, without a limit.
v_query_port_Retry(c) ==
  /\ Goto(c, "query", "qpinfo") \/ Goto(c, "query", "init")
  /\ UNCHANGED <<res, access, buf, qp, ws, up, down, serverVars>>

\* v_query_gid and v_query_mtu_enum change nothing; either can fail.
v_query_port(c) ==
  /\ Goto(c, "query", "qpinfo") \/ Goto(c, "query", "fail")
  /\ UNCHANGED <<res, access, buf, qp, ws, up, down, serverVars>>

send_qpinfo_client(c) ==
  ws_send_text(c, "qpinfo", "qpinfo_client", "paired")

recv_qpinfo_server(c) ==
  ws_recv_text(c, "paired", "qpinfo_server", "rtr")

v_qp_to_rtr(c) == Modify(c, "rtr", "RTR", "rts")

v_qp_to_rts(c) == Modify(c, "rts", "RTS", "mr")

\* Fault: the receiver registers its buffer like the sender.
ibv_reg_mr_ReadOnly(c) ==
  /\ Obtain(c, "mr", "mr", "token")
  /\ access' = [access EXCEPT ![c] = IF "mr" \in res'[c] THEN {"remote_read"} ELSE @]
  /\ UNCHANGED qp

\* Fault: the sender registers its buffer like the receiver.
ibv_reg_mr_Writable(c) ==
  /\ Obtain(c, "mr", "mr", "token")
  /\ access' = [access EXCEPT ![c] = IF "mr" \in res'[c] THEN Right ELSE @]
  /\ UNCHANGED qp

\* Fault: a right that no transfer uses is granted too.
ibv_reg_mr_Atomic(c) ==
  /\ Obtain(c, "mr", "mr", "token")
  /\ access' = [access EXCEPT ![c] =
                  IF "mr" \in res'[c] THEN Right \cup {"remote_atomic"} ELSE @]
  /\ UNCHANGED qp

\* ibv_reg_mr: rdma_recv_setup also lets the server write.
ibv_reg_mr(c) ==
  /\ Obtain(c, "mr", "mr", "token")
  /\ access' = [access EXCEPT ![c] =
                  IF "mr" \notin res'[c] THEN @
                  ELSE IF c \in Receivers THEN Right ELSE {"remote_read"}]
  /\ UNCHANGED qp

send_token(c) == ws_send_text(c, "token", "token", "close")

\* ws_close: a close frame, then close(2).  The setup then returns the
\* session, or on the failure path goes on to cleanup().
ws_close(c) ==
  /\ \/ Goto(c, "close", "ready")
     \/ Goto(c, "fail", "cleanup")
  /\ Put(c, "closeframe")
  /\ ws' = [ws EXCEPT ![c] = "closed"]
  /\ UNCHANGED <<res, access, buf, qp, down, serverVars>>

\* Fault: the buffer is unmapped before the session is destroyed.
S3Returned_UnmapFirst(c) ==
  /\ Goto(c, "ready", "cleanup")
  /\ buf' = [buf EXCEPT ![c] = "none"]
  /\ UNCHANGED <<res, access, qp, ws, up, down, serverVars>>

\* The S3 call made with the session has returned, with success or not:
\* the program calls rdma_session_destroy.
S3Returned(c) ==
  /\ Goto(c, "ready", "cleanup")
  /\ UNCHANGED <<res, access, buf, qp, ws, up, down, serverVars>>

\* cleanup(): release what is held, in the order mr, qp, cq, pd, ctx, struct.
cleanup(c) ==
  /\ \E h \in res[c] :
       /\ \A g \in res[c] : CleanupRank[h] <= CleanupRank[g]
       /\ res' = [res EXCEPT ![c] = @ \ {h}]
       /\ access' = [access EXCEPT ![c] = IF h = "mr" THEN {} ELSE @]
       /\ qp' = [qp EXCEPT ![c] = IF h = "qp" THEN "none" ELSE @]
       /\ Goto(c, "cleanup", IF res[c] = {h} THEN "munmap" ELSE "cleanup")
  /\ UNCHANGED <<buf, ws, up, down, serverVars>>

\* The program's last step, on every path that mapped the buffer.
Munmap(c) ==
  /\ Goto(c, "munmap", "exit")
  /\ buf' = [buf EXCEPT ![c] = "none"]
  /\ UNCHANGED <<res, access, qp, ws, up, down, serverVars>>

\* A process can be killed at any moment, during the S3 call too, and the
\* kernel takes everything back: by a signal from outside, or by SIGPIPE, which
\* no client ignores, when ws_send_text or ws_close writes to a connection the
\* server has reset.
Killed(c) ==
  /\ pc[c] # "exit"
  /\ pc'     = [pc EXCEPT ![c] = "exit"]
  /\ res'    = [res EXCEPT ![c] = {}]
  /\ access' = [access EXCEPT ![c] = {}]
  /\ buf'    = [buf EXCEPT ![c] = "none"]
  /\ qp'     = [qp EXCEPT ![c] = "none"]
  /\ ws'     = [ws EXCEPT ![c] = "closed"]
  /\ UNCHANGED <<up, down, serverVars>>

----------------------------------------------------------------------------
(* The server's control endpoint (external).  A connection becomes         *)
(* connected, registered, paired and armed; an armed one has the client's  *)
(* token, and outlives the WebSocket, which the client closes at once.     *)

Receive(c, m) ==
  /\ up[c] # << >>
  /\ Head(up[c]) = m
  /\ up' = [up EXCEPT ![c] = Tail(@)]

Reply(c, m) == down' = [down EXCEPT ![c] = Append(@, m)]

\* The clients are told that ids must be unique, not what a duplicate
\* does: the server may refuse any registration, or let it replace an older one.
SrvRegister(c) ==
  /\ srv[c] = "connected"
  /\ Receive(c, "register_request")
  /\ \/ /\ Reply(c, "register_ok")
        /\ srv' = [srv EXCEPT ![c] = "registered"]
        /\ owner' = [owner EXCEPT ![RequestId[c]] = c]
     \/ Reply(c, "register_failed") /\ UNCHANGED <<srv, owner>>
  /\ UNCHANGED clientVars

SrvPair(c) ==
  /\ srv[c] = "registered"
  /\ Receive(c, "qpinfo_client")
  /\ \/ Reply(c, "qpinfo_server") /\ srv' = [srv EXCEPT ![c] = "paired"]
     \/ Reply(c, "error") /\ UNCHANGED srv
  /\ UNCHANGED <<clientVars, owner>>

SrvToken(c) ==
  /\ srv[c] = "paired"
  /\ Receive(c, "token")
  /\ srv' = [srv EXCEPT ![c] = "armed"]
  /\ UNCHANGED <<clientVars, down, owner>>

SrvClosed(c) ==
  /\ Receive(c, "closeframe")
  /\ srv' = [srv EXCEPT ![c] = IF @ = "armed" THEN @ ELSE "gone"]
  /\ UNCHANGED <<clientVars, down, owner>>

\* The server goes away, or resets the connection, at any moment.
SrvHangup(c) ==
  /\ srv[c] \in {"connected", "registered", "paired", "armed"}
  /\ srv' = [srv EXCEPT ![c] = "gone"]
  /\ up' = [up EXCEPT ![c] = << >>]
  /\ Reply(c, "closeframe")
  /\ UNCHANGED <<clientVars, owner>>

----------------------------------------------------------------------------

\* The steps of rdma_send_setup / rdma_recv_setup.
Setup(c) ==
  \/ AllocSession(c) \/ ws_dial(c)
  \/ send_register_request(c) \/ recv_register_response(c)
  \/ v_open_device(c) \/ ibv_alloc_pd(c) \/ ibv_create_cq(c) \/ ibv_create_qp(c)
  \/ v_qp_to_init(c) \/ v_query_port(c)
  \/ send_qpinfo_client(c) \/ recv_qpinfo_server(c)
  \/ v_qp_to_rtr(c) \/ v_qp_to_rts(c)
  \/ ibv_reg_mr(c) \/ send_token(c) \/ ws_close(c)

Process(c) ==
  \/ MapBuffer(c) \/ Setup(c) \/ S3Returned(c) \/ cleanup(c) \/ Munmap(c)

Control(c) ==
  SrvRegister(c) \/ SrvPair(c) \/ SrvToken(c) \/ SrvClosed(c)

\* Every process has exited.
Terminated == (\A c \in Client : pc[c] = "exit") /\ UNCHANGED vars

Next ==
  \/ \E c \in Client : Process(c) \/ Killed(c) \/ Control(c) \/ SrvHangup(c)
  \/ Terminated

Spec == Init /\ [][Next]_vars

\* A running process keeps running, and the server answers what it receives
\* (or hangs up, which the code also survives).
Fairness == \A c \in Client : WF_vars(Process(c)) /\ WF_vars(Control(c))

FairSpec == Spec /\ Fairness

----------------------------------------------------------------------------
(* Properties.                                                             *)

\* Type correctness of the session state and of the server's tables.
TypeOK ==
  /\ pc     \in [Client -> Step]
  /\ res    \in [Client -> SUBSET Handle]
  /\ access \in [Client -> SUBSET Right]
  /\ buf    \in [Client -> {"none", "mapped"}]
  /\ qp     \in [Client -> {"none", "RESET", "INIT", "RTR", "RTS"}]
  /\ ws     \in [Client -> {"none", "open", "closed"}]
  /\ up     \in [Client -> Seq(UpMsg)]
  /\ down   \in [Client -> Seq(DownMsg)]
  /\ srv    \in [Client -> {"none", "connected", "registered", "paired",
                            "armed", "gone"}]
  /\ owner  \in [Id -> Client \cup {NoClient}]

\* No handle is ever held without the handles it was made from: whichever call
\* of the ladder fails, cleanup() never releases a parent before a child, so no
\* ibv_ release is refused (its return code is ignored) and nothing leaks.
DependencyClosed ==
  \A c \in Client : \A h \in res[c] : Parents[h] \subseteq res[c]

\* However a process ends, on whichever of the error paths, it has
\* released every handle, unmapped its buffer and closed its socket.
NoLeakAtExit ==
  \A c \in Client :
    pc[c] = "exit" => res[c] = {} /\ buf[c] = "none" /\ ws[c] # "open"

\* Memory the NIC may still touch is mapped: the region is deregistered
\* before the program munmaps the buffer, also on the error paths.
RegisteredIsMapped ==
  \A c \in Client : "mr" \in res[c] => buf[c] = "mapped"

\* The server never holds a token that is not usable yet: from the moment the
\* token can reach it, until the client starts to release, the region is
\* registered with the right the transfer needs and the queue pair is in RTS.
TokenIsUsable ==
  \A c \in Client :
    srv[c] = "armed" =>
      \/ /\ "mr" \in res[c] /\ qp[c] = "RTS"
         /\ (IF c \in Receivers THEN "remote_write" ELSE "remote_read") \in access[c]
      \/ pc[c] \in {"cleanup", "munmap", "exit"}

\* The client drives its queue pair towards a peer only after the server has
\* accepted its registration and answered with its own QP parameters.
PeerBeforeRtr ==
  \A c \in Client :
    qp[c] \in {"RTR", "RTS"} => srv[c] \in {"paired", "armed", "gone"}

\* Handles are given back only after the control connection is closed, so
\* the server is told before the queue pair it talks to disappears.
ReleaseAfterClose ==
  [][\A c \in Client : ~(res[c] \subseteq res'[c]) => ws'[c] # "open"]_vars

\* All client processes end, whatever fails on the way.
EveryClientExits == <>(\A c \in Client : pc[c] = "exit")

=============================================================================
