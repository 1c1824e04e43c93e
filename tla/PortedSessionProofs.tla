------------------------ MODULE PortedSessionProofs ------------------------
(***************************************************************************)
(* Proofs about PortedSession, for any set of clients, any of them Java    *)
(* and the others Python.                                                  *)
(*                                                                         *)
(* As for the C library, what an exception leaves behind depends on how    *)
(* far the setup came, and whether the server has the token, or the client *)
(* the server's answer, on the messages in flight.  In Java those include  *)
(* the listener's queue, and a connection can be established that the      *)
(* session has stopped waiting for.                                        *)
(***************************************************************************)
EXTENDS PortedSession, RdmaSessionProofs

----------------------------------------------------------------------------
(* The inductive invariant.                                                *)

\* The steps with a paired queue pair and a session that is being used.
PortedUsed == {"close", "ready", "copy"}

\* What the session holds on the way up; after an exception, and while it is
\* cleaned up, only that no handle lacks the ones it needs.
PortedHold(c) ==
  /\ pc[c] \in {"start", "register", "registered", "open", "threw", "exit"} =>
       res[c] = {}
  /\ pc[c] = "pd" => res[c] = {"ctx"}
  /\ pc[c] = "cq" => res[c] = {"ctx", "pd"}
  /\ pc[c] = "qp" => res[c] = {"ctx", "pd", "cq"}
  /\ pc[c] \in {"init", "query", "mtu", "qpinfo", "paired", "rtr", "rts",
                "buf", "mr"} => res[c] = {"ctx", "pd", "cq", "qp"}
  /\ pc[c] \in {"token"} \cup PortedUsed => res[c] = {"ctx", "pd", "cq", "qp", "mr"}
  /\ \A h \in res[c] : Parents[h] \ {"s"} \subseteq res[c]

\* The buffer is there from its allocation to the end of the cleanup.
PortedBuf(c) ==
  /\ pc[c] \in {"start", "threw", "exit"} => buf[c] = "none"
  /\ pc[c] \in {"mr", "token"} \cup PortedUsed => buf[c] = "mapped"
  /\ "mr" \in res[c] => buf[c] = "mapped"

PortedQp(c) ==
  /\ pc[c] = "start" => qp[c] = "none"
  /\ pc[c] \in {"buf", "mr", "token"} \cup PortedUsed => qp[c] = "RTS"

PortedAccess(c) ==
  pc[c] \in {"token"} \cup PortedUsed =>
    (IF c \in Receivers THEN "remote_write" ELSE "remote_read") \in access[c]

\* A session that is used, or was, has given up its connection.
PortedWs(c) ==
  /\ pc[c] = "start" => ws[c] = "none"
  /\ pc[c] \in {"ready", "copy", "destroy", "exit"} => ws[c] # "open"

PortedToken(c) ==
  srv[c] = "armed" \/ In("token", up[c]) =>
    pc[c] \in PortedUsed \cup {"destroy", "exit"}

PortedPeer(c) ==
  /\ pc[c] = "start" => /\ srv[c] = "none" /\ up[c] = << >>
                        /\ down[c] = << >> /\ queue[c] = << >>
  /\ (\/ In("qpinfo_server", down[c]) \/ In("qpinfo_server", queue[c])
      \/ pc[c] \in {"rtr", "rts", "buf", "mr", "token"} \cup PortedUsed
      \/ qp[c] \in {"RTR", "RTS"}) => srv[c] \in Answered

PortedCInv(c) ==
  /\ PortedHold(c) /\ PortedBuf(c) /\ PortedQp(c) /\ PortedAccess(c)
  /\ PortedWs(c) /\ PortedToken(c) /\ PortedPeer(c)

PortedInv == PortedTypeOK /\ \A c \in Client : PortedCInv(c)

----------------------------------------------------------------------------
(* The frame of a step of one client.                                      *)

\* Only the state of client d changes, and no table of the server.
PortedOnly(d) ==
  /\ pc' = [pc EXCEPT ![d] = pc'[d]]       /\ res' = [res EXCEPT ![d] = res'[d]]
  /\ access' = [access EXCEPT ![d] = access'[d]]
  /\ buf' = [buf EXCEPT ![d] = buf'[d]]    /\ qp' = [qp EXCEPT ![d] = qp'[d]]
  /\ ws' = [ws EXCEPT ![d] = ws'[d]]       /\ up' = [up EXCEPT ![d] = up'[d]]
  /\ down' = [down EXCEPT ![d] = down'[d]] /\ srv' = [srv EXCEPT ![d] = srv'[d]]
  /\ queue' = [queue EXCEPT ![d] = queue'[d]]
  /\ owner' = owner

PortedStepOf(d) == PortedProcess(d) \/ Error(d) \/ Listener(d)

\* A step of a client, or of its listener, touches no other client.
LEMMA PortedFrame ==
  ASSUME PortedTypeOK, NEW d \in Client, PortedStepOf(d)
  PROVE  PortedOnly(d)
<1> USE DEF PortedTypeOK, PortedOnly, Goto, Raise, serverVars, clientVars, Put
<1>1. CASE Connect(d)
  BY <1>1 DEF Connect
<1>2. CASE Register(d)
  BY <1>2 DEF Register, sendJson, recvJson, recvText, recv
<1>3. CASE CreateVerbs(d)
  BY <1>3 DEF CreateVerbs, rdma_open_device, rdma_alloc_pd, rdma_create_cq,
              rdma_create_rc_qp, Create
<1>4. CASE Pair(d)
  <2>1. CASE rdma_qp_to_init(d) \/ rdma_query_gid(d) \/ rdma_query_port_mtu_enum(d)
             \/ rdma_qp_to_rtr(d) \/ rdma_qp_to_rts(d)
    BY <2>1 DEF rdma_qp_to_init, rdma_query_gid, rdma_query_port_mtu_enum,
                rdma_qp_to_rtr, rdma_qp_to_rts, ibv_modify_qp, Query
  <2>2. CASE \/ sendJson(d, "qpinfo", "qpinfo_client", "paired")
             \/ recvJson(d, "paired", "qpinfo_server", "rtr")
    BY <2>2 DEF sendJson, recvJson, recvText, recv
  <2> QED BY <1>4, <2>1, <2>2 DEF Pair
<1>5. CASE Allocate(d)
  BY <1>5 DEF Allocate
<1>6. CASE TokenAndMr(d)
  BY <1>6 DEF TokenAndMr, rdma_reg_mr_dst, rdma_reg_mr_src, RegMr, Create, sendJson
<1>7. CASE CloseWs(d) \/ SetupFailed(d) \/ S3Call(d)
  BY <1>7 DEF CloseWs, SetupFailed, S3Call
<1>8. CASE CleanUp(d)
  BY <1>8 DEF CleanUp, Release, ReleaseHandle
<1>9. CASE Error(d)
  BY <1>9 DEF Error
<1>10. CASE Listener(d)
  BY <1>10 DEF Listener
<1> QED BY <1>1, <1>2, <1>3, <1>4, <1>5, <1>6, <1>7, <1>8, <1>9, <1>10
        DEF PortedStepOf, PortedProcess

\* The types of one client's state.
PortedCType(c) ==
  /\ pc[c] \in PortedStep /\ res[c] \subseteq Handle \ {"s"}
  /\ access[c] \subseteq Right /\ buf[c] \in {"none", "mapped"}
  /\ qp[c] \in {"none", "RESET", "INIT", "RTR", "RTS"}
  /\ ws[c] \in {"none", "open", "closed"}
  /\ up[c] \in Seq(UpMsg) /\ down[c] \in Seq(DownMsg) /\ queue[c] \in Seq(DownMsg)
  /\ srv[c] \in {"none", "connected", "registered", "paired", "armed", "gone"}

\* The types of the other clients are kept.
LEMMA PortedTypeStep ==
  ASSUME PortedTypeOK, NEW d \in Client, PortedOnly(d), PortedCType(d)'
  PROVE  PortedTypeOK'
<1>1. pc' \in [Client -> PortedStep]
  BY DEF PortedTypeOK, PortedOnly, PortedCType
<1>2. res' \in [Client -> SUBSET (Handle \ {"s"})]
  <2>1. res'[d] \in SUBSET (Handle \ {"s"})
    BY DEF PortedCType
  <2> QED BY <2>1 DEF PortedTypeOK, PortedOnly
<1>3. access' \in [Client -> SUBSET Right]
  <2>1. access'[d] \in SUBSET Right
    BY DEF PortedCType
  <2> QED BY <2>1 DEF PortedTypeOK, PortedOnly
<1>4. buf' \in [Client -> {"none", "mapped"}]
  BY DEF PortedTypeOK, PortedOnly, PortedCType
<1>5. qp' \in [Client -> {"none", "RESET", "INIT", "RTR", "RTS"}]
  BY DEF PortedTypeOK, PortedOnly, PortedCType
<1>6. ws' \in [Client -> {"none", "open", "closed"}]
  BY DEF PortedTypeOK, PortedOnly, PortedCType
<1>7. /\ up' \in [Client -> Seq(UpMsg)] /\ down' \in [Client -> Seq(DownMsg)]
      /\ queue' \in [Client -> Seq(DownMsg)]
  BY DEF PortedTypeOK, PortedOnly, PortedCType
<1>8. srv' \in [Client -> {"none", "connected", "registered", "paired",
                          "armed", "gone"}]
  BY DEF PortedTypeOK, PortedOnly, PortedCType
<1>9. owner' \in [Id -> Client \cup {NoClient}]
  BY DEF PortedTypeOK, PortedOnly
<1> QED BY <1>1, <1>2, <1>3, <1>4, <1>5, <1>6, <1>7, <1>8, <1>9 DEF PortedTypeOK

\* A client whose state does not change keeps its invariant.
LEMMA PortedSame ==
  ASSUME NEW c \in Client, PortedCInv(c), Same(c), queue'[c] = queue[c]
  PROVE  PortedCInv(c)'
BY DEF Same, PortedCInv, PortedHold, PortedBuf, PortedQp, PortedAccess, PortedWs,
       PortedToken, PortedPeer

----------------------------------------------------------------------------
(* What the building blocks do to the client that calls them.              *)

\* PortedTypeOK has the endpoint's types and those of each client.
LEMMA PortedParts ==
  ASSUME PortedTypeOK
  PROVE  EndpointTypeOK /\ \A c \in Client : PortedCType(c)
BY DEF PortedTypeOK, EndpointTypeOK, PortedCType

\* Where an exception leads.
Handler(at) == IF at \in HandshakeStep THEN "cleanup" ELSE "fail"

\* The channels and the connection of d are left alone.
NoTraffic(d) == /\ ws'[d] = ws[d] /\ up'[d] = up[d] /\ down'[d] = down[d]
                /\ srv'[d] = srv[d] /\ queue'[d] = queue[d]

\* A call of the shim obtains one handle, or nothing and throws.
LEMMA CreateEffect ==
  ASSUME PortedTypeOK, NEW d \in Client, NEW at, NEW h, NEW next,
         Create(d, at, h, next)
  PROVE  /\ pc[d] = at
         /\ \/ pc'[d] = next /\ res'[d] = res[d] \cup {h}
            \/ pc'[d] = Handler(at) /\ res'[d] = res[d]
         /\ buf'[d] = buf[d] /\ NoTraffic(d)
BY DEF PortedTypeOK, Create, Goto, Raise, Handler, NoTraffic, serverVars

MrRegistered(d) ==
  /\ pc[d] = "mr"
  /\ \/ /\ pc'[d] = "token" /\ res'[d] = res[d] \cup {"mr"}
        /\ access'[d] = IF d \in Receivers THEN Right ELSE {"remote_read"}
     \/ /\ pc'[d] = "fail" /\ res'[d] = res[d]
        /\ access'[d] \in {access[d], Right, {"remote_read"}}
  /\ buf'[d] = buf[d] /\ qp'[d] = qp[d] /\ NoTraffic(d)

\* The region is registered with the rights of the transfer, or the call throws.
LEMMA RegEffect ==
  ASSUME PortedTypeOK, NEW d \in Client, rdma_reg_mr_dst(d) \/ rdma_reg_mr_src(d)
  PROVE  MrRegistered(d)
<1>1. Handler("mr") = "fail"
  BY DEF Handler, HandshakeStep
<1>2. CASE rdma_reg_mr_dst(d)
  <2>1. /\ d \in Receivers /\ Create(d, "mr", "mr", "token") /\ qp'[d] = qp[d]
        /\ access'[d] = IF "mr" \in res'[d] THEN Right ELSE access[d]
    BY <1>2 DEF rdma_reg_mr_dst, RegMr, PortedTypeOK
  <2> QED BY <1>1, <2>1, CreateEffect DEF MrRegistered
<1>3. CASE rdma_reg_mr_src(d)
  <2>1. /\ d \notin Receivers /\ Create(d, "mr", "mr", "token") /\ qp'[d] = qp[d]
        /\ access'[d] = IF "mr" \in res'[d] THEN {"remote_read"} ELSE access[d]
    BY <1>3 DEF rdma_reg_mr_src, RegMr, PortedTypeOK
  <2> QED BY <1>1, <2>1, CreateEffect DEF MrRegistered
<1> QED BY <1>2, <1>3

\* A call of the shim moves the queue pair, or throws.
LEMMA ModifyEffect ==
  ASSUME PortedTypeOK, NEW d \in Client, NEW at, NEW state, NEW next,
         ibv_modify_qp(d, at, state, next)
  PROVE  /\ pc[d] = at
         /\ \/ pc'[d] = next /\ qp'[d] = state
            \/ pc'[d] = Handler(at) /\ qp'[d] = qp[d]
         /\ res'[d] = res[d] /\ access'[d] = access[d] /\ buf'[d] = buf[d]
         /\ NoTraffic(d)
BY DEF PortedTypeOK, ibv_modify_qp, Goto, Raise, Handler, NoTraffic, serverVars

Sent(d, at, m, next) ==
  /\ pc[d] = at
  /\ \/ pc'[d] = next /\ (In("token", up'[d]) => In("token", up[d]) \/ m = "token")
     \/ pc'[d] = Handler(at) /\ up'[d] = up[d]
  /\ up'[d] \in Seq(UpMsg)
  /\ res'[d] = res[d] /\ access'[d] = access[d] /\ buf'[d] = buf[d]
  /\ qp'[d] = qp[d] /\ ws'[d] = ws[d] /\ down'[d] = down[d]
  /\ srv'[d] = srv[d] /\ queue'[d] = queue[d]

\* A message is sent, or is lost at a server that is gone, or the call throws.
LEMMA SendEffect ==
  ASSUME PortedTypeOK, NEW d \in Client, NEW at, NEW m \in UpMsg, NEW next,
         sendJson(d, at, m, next)
  PROVE  Sent(d, at, m, next)
<1>1. EndpointTypeOK
  BY PortedParts
<1>2. /\ pc[d] = at
      /\ \/ pc'[d] = next /\ up'[d] \in {up[d], Append(up[d], m)}
         \/ pc'[d] = Handler(at) /\ up'[d] = up[d]
      /\ res'[d] = res[d] /\ access'[d] = access[d] /\ buf'[d] = buf[d]
      /\ qp'[d] = qp[d] /\ ws'[d] = ws[d] /\ down'[d] = down[d]
      /\ srv'[d] = srv[d] /\ queue'[d] = queue[d]
  BY DEF PortedTypeOK, sendJson, Put, Goto, Raise, Handler, serverVars
<1>3. up[d] \in Seq(UpMsg) /\ Append(up[d], m) \in Seq(UpMsg)
  BY DEF PortedTypeOK
<1> QED BY <1>1, <1>2, <1>3, ChannelFacts DEF Sent

Received(d, at, m, next) ==
  /\ pc[d] = at
  /\ \/ pc'[d] = next /\ (In(m, down[d]) \/ In(m, queue[d]))
     \/ pc'[d] = Handler(at)
  /\ \A x : /\ In(x, down'[d]) => In(x, down[d])
            /\ In(x, queue'[d]) => In(x, queue[d])
  /\ down'[d] \in Seq(DownMsg) /\ queue'[d] \in Seq(DownMsg)
  /\ res'[d] = res[d] /\ access'[d] = access[d] /\ buf'[d] = buf[d]
  /\ qp'[d] = qp[d] /\ ws'[d] = ws[d] /\ up'[d] = up[d] /\ srv'[d] = srv[d]

\* The next message is taken from the queue or from the connection, or in Java
\* none comes in time.
LEMMA RecvEffect ==
  ASSUME PortedTypeOK, NEW d \in Client, NEW at, NEW m, NEW next,
         recvJson(d, at, m, next)
  PROVE  Received(d, at, m, next)
<1>1. down[d] \in Seq(DownMsg) /\ queue[d] \in Seq(DownMsg)
  BY DEF PortedTypeOK
<1>2. CASE recvText(d, at, m, next)
  <2>1. /\ pc[d] = at /\ down'[d] = down[d]
        /\ \/ /\ queue[d] # << >> /\ queue'[d] = Tail(queue[d])
              /\ pc'[d] = IF Head(queue[d]) = m THEN next ELSE Handler(at)
           \/ pc'[d] = Handler(at) /\ queue'[d] = queue[d]
        /\ res'[d] = res[d] /\ access'[d] = access[d] /\ buf'[d] = buf[d]
        /\ qp'[d] = qp[d] /\ ws'[d] = ws[d] /\ up'[d] = up[d] /\ srv'[d] = srv[d]
    BY <1>2 DEF PortedTypeOK, recvText, Goto, Raise, Handler, serverVars
  <2>2. queue[d] # << >> => /\ Tail(queue[d]) \in Seq(DownMsg)
                            /\ In(Head(queue[d]), queue[d])
                            /\ \A x : In(x, Tail(queue[d])) => In(x, queue[d])
    BY <1>1, HeadTailProperties, InHead, InTail
  <2> QED BY <1>1, <2>1, <2>2 DEF Received
<1>3. CASE recv(d, at, m, next)
  <2>1. /\ pc[d] = at /\ queue'[d] = queue[d]
        /\ down[d] # << >> /\ down'[d] = Tail(down[d])
        /\ pc'[d] = IF Head(down[d]) = m THEN next ELSE Handler(at)
        /\ res'[d] = res[d] /\ access'[d] = access[d] /\ buf'[d] = buf[d]
        /\ qp'[d] = qp[d] /\ ws'[d] = ws[d] /\ up'[d] = up[d] /\ srv'[d] = srv[d]
    BY <1>3 DEF PortedTypeOK, recv, Goto, Raise, Handler, serverVars
  <2>2. /\ Tail(down[d]) \in Seq(DownMsg)
        /\ In(Head(down[d]), down[d])
        /\ \A x : In(x, Tail(down[d])) => In(x, down[d])
    BY <1>1, <2>1, HeadTailProperties, InHead, InTail
  <2> QED BY <1>1, <2>1, <2>2 DEF Received
<1> QED BY <1>2, <1>3 DEF recvJson

----------------------------------------------------------------------------
(* Every step of a client keeps its invariant.                             *)

\* Of the handles held, the one the cleanup takes next is nobody's parent.
LEMMA LowestIsNoParent ==
  ASSUME PortedTypeOK, NEW d \in Client, NEW h \in res[d],
         \A g \in res[d] : CleanupRank[h] <= CleanupRank[g]
  PROVE  \A g \in res[d] : h \notin Parents[g]
<1>1. res[d] \subseteq Handle /\ "s" \notin res[d]
  BY DEF PortedTypeOK
<1>2. /\ CleanupRank["mr"] = 1 /\ CleanupRank["qp"] = 2 /\ CleanupRank["cq"] = 3
      /\ CleanupRank["pd"] = 4 /\ CleanupRank["ctx"] = 5
  BY DEF CleanupRank
<1> QED BY <1>1, <1>2, ParentsValues DEF Handle

\* The setup up to the registration of the memory.
LEMMA PortedHandshakeInv ==
  ASSUME PortedTypeOK, NEW d \in Client, PortedCInv(d),
         Connect(d) \/ Register(d) \/ CreateVerbs(d) \/ Pair(d)
  PROVE  PortedCInv(d)' /\ PortedCType(d)'
<1>0. PortedCType(d)
  BY PortedParts
<1>b. {"register_request", "qpinfo_client"} \subseteq UpMsg
  BY DEF UpMsg
<1> USE <1>0, ParentsValues DEF PortedCInv, PortedHold, PortedBuf, PortedQp,
      PortedAccess, PortedWs, PortedToken, PortedPeer, PortedCType, PortedUsed,
      Answered, PortedStep, HandshakeStep, Handle, Handler, NoTraffic
<1>1. CASE Connect(d)
  <2>1. /\ pc[d] = "start"
        /\ \/ /\ pc'[d] \in {"register", "cleanup"}
              /\ ws'[d] = "open" /\ srv'[d] = "connected"
           \/ /\ pc'[d] \in {"cleanup", "exit"}
              /\ ws'[d] = ws[d] /\ srv'[d] = srv[d]
        /\ res'[d] = res[d] /\ access'[d] = access[d] /\ buf'[d] = buf[d]
        /\ qp'[d] = qp[d] /\ up'[d] = up[d] /\ down'[d] = down[d]
        /\ queue'[d] = queue[d]
    BY <1>1 DEF Connect, Goto, PortedTypeOK
  <2> QED BY <2>1, InEmpty
<1>2. CASE Register(d)
  <2>1. CASE Sent(d, "register", "register_request", "registered")
    BY <2>1 DEF Sent
  <2>2. CASE Received(d, "registered", "register_ok", "open")
    BY <2>2 DEF Received
  <2> QED BY <1>2, <1>b, <2>1, <2>2, SendEffect, RecvEffect DEF Register
<1>3. CASE rdma_open_device(d)
  <2>1. access'[d] = access[d] /\ qp'[d] = qp[d]
    BY <1>3 DEF rdma_open_device
  <2> QED BY <1>3, <2>1, CreateEffect DEF rdma_open_device
<1>4. CASE rdma_alloc_pd(d)
  <2>1. access'[d] = access[d] /\ qp'[d] = qp[d]
    BY <1>4 DEF rdma_alloc_pd
  <2> QED BY <1>4, <2>1, CreateEffect DEF rdma_alloc_pd
<1>5. CASE rdma_create_cq(d)
  <2>1. access'[d] = access[d] /\ qp'[d] = qp[d]
    BY <1>5 DEF rdma_create_cq
  <2> QED BY <1>5, <2>1, CreateEffect DEF rdma_create_cq
<1>6. CASE rdma_create_rc_qp(d)
  <2>1. access'[d] = access[d] /\ qp'[d] \in {qp[d], "RESET"}
    BY <1>6 DEF rdma_create_rc_qp, PortedTypeOK
  <2> QED BY <1>6, <2>1, CreateEffect DEF rdma_create_rc_qp
<1>7. CASE rdma_qp_to_init(d) \/ rdma_qp_to_rtr(d) \/ rdma_qp_to_rts(d)
  BY <1>7, ModifyEffect DEF rdma_qp_to_init, rdma_qp_to_rtr, rdma_qp_to_rts
<1>8. CASE rdma_query_gid(d) \/ rdma_query_port_mtu_enum(d)
  <2>1. /\ \/ pc[d] = "query" /\ pc'[d] \in {"mtu", "cleanup"}
           \/ pc[d] = "mtu" /\ pc'[d] \in {"qpinfo", "cleanup"}
        /\ res'[d] = res[d] /\ access'[d] = access[d] /\ buf'[d] = buf[d]
        /\ qp'[d] = qp[d] /\ NoTraffic(d)
    BY <1>8 DEF rdma_query_gid, rdma_query_port_mtu_enum, Query, Goto, Raise,
                serverVars, PortedTypeOK
  <2> QED BY <2>1
<1>9. CASE sendJson(d, "qpinfo", "qpinfo_client", "paired")
  <2>1. Sent(d, "qpinfo", "qpinfo_client", "paired")
    BY <1>9, <1>b, SendEffect
  <2> QED BY <2>1 DEF Sent
<1>10. CASE recvJson(d, "paired", "qpinfo_server", "rtr")
  <2>1. Received(d, "paired", "qpinfo_server", "rtr")
    BY <1>10, RecvEffect
  <2> QED BY <2>1 DEF Received
<1> QED BY <1>1, <1>2, <1>3, <1>4, <1>5, <1>6, <1>7, <1>8, <1>9, <1>10
        DEF CreateVerbs, Pair

\* From the buffer to the end of the program, and the listener.
LEMMA PortedSessionInv ==
  ASSUME PortedTypeOK, NEW d \in Client, PortedCInv(d),
         \/ Allocate(d) \/ TokenAndMr(d) \/ CloseWs(d) \/ SetupFailed(d)
         \/ S3Call(d) \/ CleanUp(d) \/ Error(d) \/ Listener(d)
  PROVE  PortedCInv(d)' /\ PortedCType(d)'
<1>0. PortedCType(d) /\ EndpointTypeOK
  BY PortedParts
<1>b. "token" \in UpMsg
  BY DEF UpMsg
<1>a. \A m \in UpMsg : up'[d] = Append(up[d], m) =>
        up'[d] \in Seq(UpMsg) /\ (m # "token" /\ In("token", up'[d]) => In("token", up[d]))
  BY <1>0, ChannelFacts DEF PortedCType
<1> USE <1>0, ParentsValues DEF PortedCInv, PortedHold, PortedBuf, PortedQp,
      PortedAccess, PortedWs, PortedToken, PortedPeer, PortedCType, PortedUsed,
      Answered, PortedStep, HandshakeStep, Handle, Handler, NoTraffic
<1>1. CASE Allocate(d)
  <2>1. /\ pc[d] = "buf"
        /\ \/ pc'[d] = "mr" /\ buf'[d] = "mapped"
           \/ pc'[d] = "fail" /\ buf'[d] = buf[d]
        /\ res'[d] = res[d] /\ access'[d] = access[d] /\ qp'[d] = qp[d]
        /\ NoTraffic(d)
    BY <1>1 DEF Allocate, Goto, Raise, serverVars, PortedTypeOK
  <2> QED BY <2>1
<1>2. CASE rdma_reg_mr_dst(d) \/ rdma_reg_mr_src(d)
  <2>1. MrRegistered(d)
    BY <1>2, RegEffect
  <2> QED BY <2>1 DEF MrRegistered, Right
<1>3. CASE sendJson(d, "token", "token", "close")
  <2>1. Sent(d, "token", "token", "close")
    BY <1>3, <1>b, SendEffect
  <2> QED BY <2>1 DEF Sent
<1>4. CASE CloseWs(d)
  <2>1. /\ \/ pc[d] = "close" /\ pc'[d] = "ready"
           \/ pc[d] = "fail" /\ pc'[d] = "cleanup"
        /\ up'[d] \in {up[d], Append(up[d], "closeframe")} /\ ws'[d] = "closed"
        /\ res'[d] = res[d] /\ access'[d] = access[d] /\ buf'[d] = buf[d]
        /\ qp'[d] = qp[d] /\ down'[d] = down[d] /\ srv'[d] = srv[d]
        /\ queue'[d] = queue[d]
    BY <1>4 DEF CloseWs, Put, Goto, serverVars, PortedTypeOK
  <2> QED BY <1>a, <2>1 DEF UpMsg
<1>5. CASE SetupFailed(d)
  <2>1. /\ pc[d] = "threw" /\ pc'[d] = "exit"
        /\ up'[d] \in {up[d], Append(up[d], "closeframe")}
        /\ ws'[d] = IF ws[d] = "open" THEN "closed" ELSE ws[d]
        /\ res'[d] = res[d] /\ access'[d] = access[d] /\ buf'[d] = buf[d]
        /\ qp'[d] = qp[d] /\ down'[d] = down[d] /\ srv'[d] = srv[d]
        /\ queue'[d] = queue[d]
    BY <1>5 DEF SetupFailed, Put, Goto, serverVars, PortedTypeOK
  <2> QED BY <1>a, <2>1 DEF UpMsg
<1>6. CASE S3Call(d)
  <2>1. /\ \/ pc[d] = "ready" /\ pc'[d] \in {"destroy", "copy"}
           \/ pc[d] = "copy" /\ pc'[d] = "destroy"
        /\ res'[d] = res[d] /\ access'[d] = access[d] /\ buf'[d] = buf[d]
        /\ qp'[d] = qp[d] /\ NoTraffic(d)
    BY <1>6 DEF S3Call, Goto, serverVars, PortedTypeOK
  <2> QED BY <2>1
<1>7. CASE CleanUp(d)
  <2>1. CASE res[d] = {} /\ res'[d] = {}
    <3>1. /\ \/ pc[d] = "cleanup" /\ pc'[d] = "threw"
             \/ pc[d] = "destroy" /\ pc'[d] = "exit"
          /\ buf'[d] = "none" /\ access'[d] = access[d] /\ qp'[d] = qp[d]
          /\ NoTraffic(d)
      BY <1>7, <2>1 DEF CleanUp, Release, ReleaseHandle, Goto, serverVars, PortedTypeOK
    <3> QED BY <2>1, <3>1
  <2>2. CASE \E h \in Handle : ReleaseHandle(d, h)
    <3>1. PICK h \in Handle : ReleaseHandle(d, h)
      BY <2>2
    <3>2. /\ h \in res[d] /\ res'[d] = res[d] \ {h}
          /\ access'[d] \in {access[d], {}} /\ qp'[d] \in {qp[d], "none"}
          /\ pc[d] \in {"cleanup", "destroy"} /\ pc'[d] = pc[d]
          /\ buf'[d] = buf[d] /\ NoTraffic(d)
      BY <1>7, <3>1 DEF CleanUp, Release, ReleaseHandle, Goto, serverVars, PortedTypeOK
    <3>3. \A g \in res[d] : h \notin Parents[g]
      BY <3>1, LowestIsNoParent DEF ReleaseHandle
    <3> QED BY <3>2, <3>3
  <2> QED BY <1>7, <2>1, <2>2 DEF CleanUp, Release
<1>8. CASE Error(d)
  <2>1. /\ pc[d] \in {"open", "buf", "copy"} /\ pc'[d] = "exit"
        /\ res'[d] = {} /\ access'[d] = {} /\ buf'[d] = "none"
        /\ qp'[d] = "none" /\ ws'[d] = "closed"
        /\ up'[d] \in {up[d], Append(up[d], "closeframe")}
        /\ down'[d] = down[d] /\ srv'[d] = srv[d] /\ queue'[d] = queue[d]
    BY <1>8 DEF Error, Put, serverVars, PortedTypeOK
  <2> QED BY <1>a, <2>1 DEF UpMsg
<1>9. CASE Listener(d)
  <2>1. /\ down[d] # << >> /\ down'[d] = Tail(down[d])
        /\ queue'[d] = Append(queue[d], Head(down[d])) /\ ws[d] = "open"
        /\ pc'[d] = pc[d] /\ res'[d] = res[d] /\ access'[d] = access[d]
        /\ buf'[d] = buf[d] /\ qp'[d] = qp[d] /\ ws'[d] = ws[d]
        /\ up'[d] = up[d] /\ srv'[d] = srv[d]
    BY <1>9 DEF Listener, clientVars, serverVars, PortedTypeOK
  <2>2. /\ Tail(down[d]) \in Seq(DownMsg) /\ Head(down[d]) \in DownMsg
        /\ In(Head(down[d]), down[d])
    BY <2>1, HeadTailProperties, InHead
  <2>3. /\ down'[d] \in Seq(DownMsg) /\ queue'[d] \in Seq(DownMsg)
        /\ In("qpinfo_server", down'[d]) => In("qpinfo_server", down[d])
        /\ In("qpinfo_server", queue'[d]) =>
             In("qpinfo_server", queue[d]) \/ In("qpinfo_server", down[d])
    BY <2>1, <2>2, InTail, InAppend
  <2> QED BY <2>1, <2>3
<1> QED BY <1>1, <1>2, <1>3, <1>4, <1>5, <1>6, <1>7, <1>8, <1>9 DEF TokenAndMr

----------------------------------------------------------------------------
(* The invariant.                                                          *)

\* A step of the control endpoint keeps the invariant of its client.
LEMMA PortedControlInv ==
  ASSUME PortedTypeOK, NEW d \in Client, PortedCInv(d),
         Control(d) \/ SrvHangup(d), UNCHANGED queue
  PROVE  PortedCInv(d)'
<1>1. EndpointTypeOK
  BY PortedParts
<1>2. /\ pc'[d] = pc[d] /\ res'[d] = res[d] /\ access'[d] = access[d]
      /\ buf'[d] = buf[d] /\ qp'[d] = qp[d] /\ ws'[d] = ws[d] /\ queue'[d] = queue[d]
  BY <1>1, ControlEffect DEF clientVars
<1>3. /\ PortedHold(d)' /\ PortedBuf(d)' /\ PortedQp(d)' /\ PortedAccess(d)'
      /\ PortedWs(d)'
  BY <1>2 DEF PortedCInv, PortedHold, PortedBuf, PortedQp, PortedAccess, PortedWs
<1>4. PortedToken(d)'
  BY <1>1, <1>2, ControlEffect DEF PortedCInv, PortedToken
<1>5. PortedPeer(d)'
  BY <1>1, <1>2, ControlEffect DEF PortedCInv, PortedPeer
<1> QED BY <1>3, <1>4, <1>5 DEF PortedCInv

\* PortedInv is inductive: it holds at the start and every step of a client, of
\* a listener thread and of the server keeps it.
THEOREM PortedInvariance == PortedSpec => []PortedInv
<1>1. PortedInit => PortedInv
  <2> SUFFICES ASSUME PortedInit PROVE PortedInv
    OBVIOUS
  <2>1. PortedTypeOK
    BY EmptySeq DEF PortedInit, Init, PortedTypeOK, PortedStep, Handle, Right
  <2>2. ASSUME NEW c \in Client PROVE PortedCInv(c)
    BY InEmpty DEF PortedInit, Init, PortedCInv, PortedHold, PortedBuf, PortedQp,
       PortedAccess, PortedWs, PortedToken, PortedPeer, PortedUsed
  <2> QED BY <2>1, <2>2 DEF PortedInv
<1>2. PortedInv /\ [PortedNext]_portedVars => PortedInv'
  <2> SUFFICES ASSUME PortedInv, [PortedNext]_portedVars PROVE PortedInv'
    OBVIOUS
  <2>0. PortedTypeOK /\ \A c \in Client : PortedCInv(c)
    BY DEF PortedInv
  <2>1. ASSUME NEW d \in Client, PortedStepOf(d) PROVE PortedInv'
    <3>1. PortedOnly(d)
      BY <2>0, <2>1, PortedFrame
    <3>2. PortedCInv(d)' /\ PortedCType(d)'
      BY <2>0, <2>1, PortedHandshakeInv, PortedSessionInv DEF PortedStepOf, PortedProcess
    <3>3. ASSUME NEW c \in Client, c # d PROVE PortedCInv(c)'
      <4>1. Same(c) /\ queue'[c] = queue[c]
        BY <2>0, <3>1, <3>3 DEF PortedOnly, Same, PortedTypeOK
      <4> QED BY <2>0, <4>1, PortedSame
    <3> QED BY <2>0, <3>1, <3>2, <3>3, PortedTypeStep DEF PortedInv
  <2>2. ASSUME NEW d \in Client, Control(d) \/ SrvHangup(d), UNCHANGED queue
        PROVE  PortedInv'
    <3>1. EndpointTypeOK
      BY <2>0, PortedParts
    <3>2. UNCHANGED clientVars /\ EndpointTypeOK'
      BY <2>2, <3>1, ControlEffect
    <3>3. PortedTypeOK'
      BY <2>0, <2>2, <3>2 DEF PortedTypeOK, EndpointTypeOK, clientVars
    <3>4. PortedCInv(d)'
      BY <2>0, <2>2, PortedControlInv
    <3>5. ASSUME NEW c \in Client, c # d PROVE PortedCInv(c)'
      <4>1. Same(c) /\ queue'[c] = queue[c]
        BY <2>2, <3>1, <3>2, <3>5, ControlEffect DEF Same, clientVars
      <4> QED BY <2>0, <4>1, PortedSame
    <3> QED BY <3>3, <3>4, <3>5 DEF PortedInv
  <2>3. CASE UNCHANGED portedVars
    <3>1. PortedTypeOK'
      BY <2>0, <2>3 DEF PortedTypeOK, portedVars, vars
    <3>2. ASSUME NEW c \in Client PROVE PortedCInv(c)'
      <4>1. Same(c) /\ queue'[c] = queue[c]
        BY <2>3 DEF portedVars, vars, Same
      <4> QED BY <2>0, <4>1, PortedSame
    <3> QED BY <3>1, <3>2 DEF PortedInv
  <2> QED BY <2>1, <2>2, <2>3 DEF PortedNext, PortedStepOf, Terminated, portedVars
<1> QED BY <1>1, <1>2, PTL DEF PortedSpec

----------------------------------------------------------------------------
(* What the invariant gives.                                               *)

\* The state of the Java and Python sessions stays within its types.
THEOREM PortedTypes == PortedSpec => []PortedTypeOK
<1>1. PortedInv => PortedTypeOK
  BY DEF PortedInv
<1> QED BY <1>1, PortedInvariance, PTL

\* Whichever call throws, cleanup() never releases a handle that another one
\* still uses, nor the buffer under a registered region.
THEOREM PortedCleanupOrder == PortedSpec => []HandlesNested
<1>1. PortedInv => HandlesNested
  BY DEF PortedInv, PortedCInv, PortedHold, PortedBuf, HandlesNested
<1> QED BY <1>1, PortedInvariance, PTL

\* A setup function that throws leaves no handle and no buffer behind.
THEOREM PortedSetupReleases == PortedSpec => []FailedSetupReleases
<1>1. PortedInv => FailedSetupReleases
  BY DEF PortedInv, PortedCInv, PortedHold, PortedBuf, FailedSetupReleases
<1> QED BY <1>1, PortedInvariance, PTL

\* A token the server holds names a usable region until the session is
\* destroyed.
THEOREM PortedTokens == PortedSpec => []PortedTokenUsable
<1>1. ASSUME PortedInv, NEW c \in Client, srv[c] = "armed",
             pc[c] \notin {"destroy", "exit"}
      PROVE  /\ "mr" \in res[c] /\ qp[c] = "RTS"
             /\ (IF c \in Receivers THEN "remote_write" ELSE "remote_read") \in access[c]
  BY <1>1 DEF PortedInv, PortedCInv, PortedHold, PortedQp, PortedAccess,
              PortedToken, PortedUsed
<1>2. PortedInv => PortedTokenUsable
  BY <1>1 DEF PortedTokenUsable
<1> QED BY <1>2, PortedInvariance, PTL

\* The queue pair is driven to RTR only towards a peer that has answered, also
\* when the answer went through the listener's queue.
THEOREM PortedPeerAnswered == PortedSpec => []PeerBeforeRtr
<1>1. PortedInv => PeerBeforeRtr
  BY DEF PortedInv, PortedCInv, PortedPeer, PeerBeforeRtr, Answered
<1> QED BY <1>1, PortedInvariance, PTL

\* However a Java or Python program ends, it holds nothing: also when the
\* connection is established after the session has given it up.
THEOREM PortedNoLeak == PortedSpec => []NoLeakAtExit
<1>1. PortedInv => NoLeakAtExit
  BY DEF PortedInv, PortedCInv, PortedHold, PortedBuf, PortedWs, NoLeakAtExit
<1> QED BY <1>1, PortedInvariance, PTL

=============================================================================
