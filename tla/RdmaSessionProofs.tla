------------------------- MODULE RdmaSessionProofs -------------------------
(***************************************************************************)
(* Proofs about RdmaSession, for any set of clients and any assignment of  *)
(* request ids to them.                                                    *)
(*                                                                         *)
(* The safety properties are not inductive: what a client holds when a     *)
(* call fails depends on how far it came, and whether the server can have  *)
(* its token depends on the messages still in flight.  IInv adds both.     *)
(***************************************************************************)
EXTENDS RdmaSession, SequenceTheorems, TLAPS

----------------------------------------------------------------------------
(* The inductive invariant.                                                *)

In(m, s) == \E i \in 1 .. Len(s) : s[i] = m

PreDial == {"start", "calloc", "dial"}

WsOpenStep == (SetupStep \ ({"ready"} \cup PreDial)) \cup {"fail"}

Released == {"cleanup", "munmap", "exit"}

TokenSent == {"close", "ready"}

\* What the struct holds while the ladder is being climbed; after a failure,
\* and while cleanup() runs, only that no handle lacks the ones it needs.
HoldInv(c) ==
  /\ pc[c] \in {"start", "calloc", "munmap", "exit"} => res[c] = {}
  /\ pc[c] \in {"dial", "register", "registered", "open"} => res[c] = {"s"}
  /\ pc[c] = "pd" => res[c] = {"s", "ctx"}
  /\ pc[c] = "cq" => res[c] = {"s", "ctx", "pd"}
  /\ pc[c] = "qp" => res[c] = {"s", "ctx", "pd", "cq"}
  /\ pc[c] \in {"init", "query", "qpinfo", "paired", "rtr", "rts", "mr"} =>
       res[c] = {"s", "ctx", "pd", "cq", "qp"}
  /\ pc[c] \in {"token", "close", "ready"} => res[c] = Handle
  /\ \A h \in res[c] : Parents[h] \subseteq res[c]

BufInv(c) == buf[c] = "mapped" <=> pc[c] \notin {"start", "exit"}

WsInv(c) == ws[c] = "open" <=> pc[c] \in WsOpenStep

QpInv(c) ==
  /\ pc[c] \in PreDial => qp[c] = "none"
  /\ pc[c] \in {"mr", "token"} \cup TokenSent => qp[c] = "RTS"

AccessInv(c) ==
  pc[c] \in {"token"} \cup TokenSent =>
    access[c] = IF c \in Receivers THEN Right ELSE {"remote_read"}

TokenInv(c) ==
  srv[c] = "armed" \/ In("token", up[c]) => pc[c] \in TokenSent \cup Released

PeerInv(c) ==
  /\ pc[c] \in PreDial => srv[c] = "none" /\ up[c] = << >> /\ down[c] = << >>
  /\ (\/ In("qpinfo_server", down[c])
      \/ pc[c] \in {"rtr", "rts", "mr", "token"} \cup TokenSent
      \/ qp[c] \in {"RTR", "RTS"}) => srv[c] \in {"paired", "armed", "gone"}

CInv(c) == /\ HoldInv(c) /\ BufInv(c) /\ WsInv(c) /\ QpInv(c)
           /\ AccessInv(c) /\ TokenInv(c) /\ PeerInv(c)

IInv == TypeOK /\ \A c \in Client : CInv(c)

----------------------------------------------------------------------------
(* Lemmas about messages in a channel.                                     *)

\* What Append puts into a channel is what was there and the new message.
LEMMA InAppend ==
  ASSUME NEW S, NEW s \in Seq(S), NEW m \in S, NEW x, In(x, Append(s, m))
  PROVE  In(x, s) \/ x = m
<1>1. Append(s, m) \in Seq(S) /\ Len(Append(s, m)) = Len(s) + 1
  OBVIOUS
<1>2. PICK i \in 1 .. Len(Append(s, m)) : Append(s, m)[i] = x
  BY DEF In
<1>3. CASE i = Len(s) + 1
  BY <1>2, <1>3
<1>4. CASE i # Len(s) + 1
  <2>1. i \in 1 .. Len(s)
    BY <1>1, <1>2, <1>4
  <2>2. Append(s, m)[i] = s[i]
    BY <2>1
  <2> QED BY <1>2, <2>1, <2>2 DEF In
<1> QED BY <1>3, <1>4

\* Receiving takes a message away and adds none.
LEMMA InTail ==
  ASSUME NEW S, NEW s \in Seq(S), s # << >>, NEW x, In(x, Tail(s))
  PROVE  In(x, s)
<1>1. PICK i \in 1 .. Len(Tail(s)) : Tail(s)[i] = x
  BY DEF In
<1>2. Tail(s)[i] = s[i + 1] /\ i + 1 \in 1 .. Len(s)
  BY <1>1, HeadTailProperties
<1> QED BY <1>1, <1>2 DEF In

\* The message received was in the channel.
LEMMA InHead ==
  ASSUME NEW S, NEW s \in Seq(S), s # << >>
  PROVE  In(Head(s), s)
<1>1. Len(s) \in Nat \ {0}
  BY EmptySeq
<1> QED BY <1>1 DEF In

\* Nothing is in the empty channel.
LEMMA InEmpty == ASSUME NEW x PROVE ~In(x, << >>)
BY DEF In

----------------------------------------------------------------------------
(* The control endpoint, which serves clients of every kind.               *)

\* The types of the two directions of a connection and of the server's tables.
EndpointTypeOK ==
  /\ up    \in [Client -> Seq(UpMsg)]
  /\ down  \in [Client -> Seq(DownMsg)]
  /\ srv   \in [Client -> {"none", "connected", "registered", "paired",
                           "armed", "gone"}]
  /\ owner \in [Id -> Client \cup {NoClient}]

\* The server has answered with its own queue pair, or is no longer there.
Answered == {"paired", "armed", "gone"}

\* A write to the socket keeps the channel a sequence of client messages.
LEMMA PutType ==
  ASSUME EndpointTypeOK, NEW d \in Client, NEW m \in UpMsg, Put(d, m)
  PROVE  up' \in [Client -> Seq(UpMsg)]
BY DEF EndpointTypeOK, Put

\* So does the server's answer for the other direction.
LEMMA ReplyType ==
  ASSUME EndpointTypeOK, NEW d \in Client, NEW m \in DownMsg, Reply(d, m)
  PROVE  down' \in [Client -> Seq(DownMsg)]
BY DEF EndpointTypeOK, Reply

\* Receiving a message leaves a sequence of messages.
LEMMA ReceiveType ==
  ASSUME EndpointTypeOK, NEW d \in Client, NEW m, Receive(d, m)
  PROVE  up' \in [Client -> Seq(UpMsg)]
<1>1. Tail(up[d]) \in Seq(UpMsg)
  BY HeadTailProperties DEF EndpointTypeOK, Receive
<1> QED BY <1>1 DEF EndpointTypeOK, Receive

\* The control endpoint keeps its types.
LEMMA EndpointType ==
  ASSUME EndpointTypeOK, NEW d \in Client, Control(d) \/ SrvHangup(d)
  PROVE  EndpointTypeOK'
<1>a. {"register_ok", "register_failed", "qpinfo_server", "error",
       "closeframe"} = DownMsg
  BY DEF DownMsg
<1>1. CASE SrvRegister(d)
  <2>1. up' \in [Client -> Seq(UpMsg)]
    BY <1>1, ReceiveType DEF SrvRegister
  <2>2. down' \in [Client -> Seq(DownMsg)]
    BY <1>1, <1>a, ReplyType DEF SrvRegister
  <2>3. owner' \in [Id -> Client \cup {NoClient}]
    BY <1>1, RequestIdAssumption DEF EndpointTypeOK, SrvRegister
  <2>4. srv' \in [Client -> {"none", "connected", "registered", "paired",
                            "armed", "gone"}]
    <3>1. srv' = [srv EXCEPT ![d] = "registered"] \/ srv' = srv
      BY <1>1 DEF SrvRegister
    <3> QED BY <3>1 DEF EndpointTypeOK
  <2> QED BY <1>1, <2>1, <2>2, <2>3, <2>4 DEF EndpointTypeOK, SrvRegister, clientVars
<1>2. CASE SrvPair(d)
  <2>1. up' \in [Client -> Seq(UpMsg)]
    BY <1>2, ReceiveType DEF SrvPair
  <2>2. down' \in [Client -> Seq(DownMsg)]
    BY <1>2, <1>a, ReplyType DEF SrvPair
  <2> QED BY <1>2, <2>1, <2>2 DEF EndpointTypeOK, SrvPair, clientVars
<1>3. CASE SrvToken(d) \/ SrvClosed(d)
  <2>1. up' \in [Client -> Seq(UpMsg)]
    BY <1>3, ReceiveType DEF SrvToken, SrvClosed
  <2> QED BY <1>3, <2>1 DEF EndpointTypeOK, SrvToken, SrvClosed, clientVars
<1>4. CASE SrvHangup(d)
  <2>1. down' \in [Client -> Seq(DownMsg)]
    BY <1>4, <1>a, ReplyType DEF SrvHangup
  <2> QED BY <1>4, <2>1, EmptySeq DEF EndpointTypeOK, SrvHangup, clientVars
<1> QED BY <1>1, <1>2, <1>3, <1>4 DEF Control

\* What a step of a client or of the server may add to the channels.
LEMMA ChannelFacts ==
  ASSUME EndpointTypeOK, NEW d \in Client
  PROVE  /\ \A m \in UpMsg : In("token", Append(up[d], m)) => In("token", up[d]) \/ m = "token"
         /\ \A m \in DownMsg : In("qpinfo_server", Append(down[d], m)) =>
                                 In("qpinfo_server", down[d]) \/ m = "qpinfo_server"
         /\ up[d] # << >> => (In("token", Tail(up[d])) => In("token", up[d]))
                               /\ In(Head(up[d]), up[d])
         /\ down[d] # << >> =>
              (In("qpinfo_server", Tail(down[d])) => In("qpinfo_server", down[d]))
                /\ In(Head(down[d]), down[d])
BY InAppend, InTail, InHead DEF EndpointTypeOK

\* Sending anything but a token puts no token into the channel.
LEMMA NoTokenSent ==
  ASSUME EndpointTypeOK, NEW d \in Client, NEW m \in UpMsg, m # "token",
         up'[d] \in {up[d], Append(up[d], m)}
  PROVE  In("token", up'[d]) => In("token", up[d])
<1>1. CASE up'[d] = up[d]
  BY <1>1
<1>2. CASE up'[d] = Append(up[d], m)
  BY <1>2, ChannelFacts
<1> QED BY <1>1, <1>2

\* What a step of the control endpoint does for its client, whichever program
\* the client runs: no token appears in the channel, the connection is armed by
\* a token of the channel, and qpinfo_server is sent once it is paired.
LEMMA ControlEffect ==
  ASSUME EndpointTypeOK, NEW d \in Client, Control(d) \/ SrvHangup(d)
  PROVE  /\ UNCHANGED clientVars
         /\ EndpointTypeOK'
         /\ srv[d] # "none" \/ up[d] # << >>
         /\ In("token", up'[d]) => In("token", up[d])
         /\ srv'[d] = "armed" => srv[d] = "armed" \/ In("token", up[d])
         /\ srv[d] \in Answered => srv'[d] \in Answered
         /\ In("qpinfo_server", down'[d]) =>
              In("qpinfo_server", down[d]) \/ srv'[d] \in Answered
         /\ \A c \in Client : c # d =>
              up'[c] = up[c] /\ down'[c] = down[c] /\ srv'[c] = srv[c]
<1> USE DEF Answered
<1>1. EndpointTypeOK'
  BY EndpointType
<1>2. UNCHANGED clientVars
  BY DEF Control, SrvRegister, SrvPair, SrvToken, SrvClosed, SrvHangup, clientVars
<1>3. \A c \in Client : c # d =>
        up'[c] = up[c] /\ down'[c] = down[c] /\ srv'[c] = srv[c]
  BY DEF EndpointTypeOK, Control, SrvRegister, SrvPair, SrvToken, SrvClosed,
         SrvHangup, Receive, Reply
<1>4. CASE SrvRegister(d)
  <2>1. /\ srv[d] = "connected" /\ srv'[d] \in {"connected", "registered"}
        /\ up[d] # << >> /\ up'[d] = Tail(up[d])
        /\ down'[d] \in {Append(down[d], "register_ok"),
                         Append(down[d], "register_failed")}
    BY <1>4 DEF SrvRegister, Receive, Reply, EndpointTypeOK
  <2> QED BY <1>1, <1>2, <1>3, <2>1, ChannelFacts DEF DownMsg
<1>5. CASE SrvPair(d)
  <2>1. /\ srv[d] = "registered" /\ srv'[d] \in {"registered", "paired"}
        /\ up[d] # << >> /\ up'[d] = Tail(up[d])
        /\ srv'[d] = "paired" \/ down'[d] = Append(down[d], "error")
    BY <1>5 DEF SrvPair, Receive, Reply, EndpointTypeOK
  <2> QED BY <1>1, <1>2, <1>3, <2>1, ChannelFacts DEF DownMsg
<1>6. CASE SrvToken(d)
  <2>1. /\ srv[d] = "paired" /\ srv'[d] = "armed" /\ down'[d] = down[d]
        /\ up[d] # << >> /\ up'[d] = Tail(up[d]) /\ Head(up[d]) = "token"
    BY <1>6 DEF SrvToken, Receive, EndpointTypeOK
  <2> QED BY <1>1, <1>2, <1>3, <2>1, ChannelFacts
<1>7. CASE SrvClosed(d)
  <2>1. /\ srv'[d] = IF srv[d] = "armed" THEN "armed" ELSE "gone"
        /\ down'[d] = down[d] /\ up[d] # << >> /\ up'[d] = Tail(up[d])
    BY <1>7 DEF SrvClosed, Receive, EndpointTypeOK
  <2> QED BY <1>1, <1>2, <1>3, <2>1, ChannelFacts
<1>8. CASE SrvHangup(d)
  <2>1. /\ srv[d] # "none" /\ srv'[d] = "gone" /\ up'[d] = << >>
    BY <1>8 DEF SrvHangup, Reply, EndpointTypeOK
  <2> QED BY <1>1, <1>2, <1>3, <2>1, InEmpty
<1> QED BY <1>4, <1>5, <1>6, <1>7, <1>8 DEF Control

\* TypeOK has the endpoint's types.
LEMMA TypeParts == ASSUME TypeOK PROVE EndpointTypeOK
BY DEF TypeOK, EndpointTypeOK

----------------------------------------------------------------------------
(* The frame of a step of one client.                                      *)

Same(c) ==
  /\ pc'[c] = pc[c] /\ res'[c] = res[c] /\ access'[c] = access[c]
  /\ buf'[c] = buf[c] /\ qp'[c] = qp[c] /\ ws'[c] = ws[c]
  /\ up'[c] = up[c] /\ down'[c] = down[c] /\ srv'[c] = srv[c]

\* A step that leaves all the state of a client alone keeps its invariant.
LEMMA SameInv == ASSUME NEW c \in Client, CInv(c), Same(c) PROVE CInv(c)'
BY DEF Same, CInv, HoldInv, BufInv, WsInv, QpInv, AccessInv, TokenInv, PeerInv

----------------------------------------------------------------------------
(* Type correctness.                                                       *)

\* A verbs call that creates a handle changes the step and the handles only.
LEMMA ObtainType ==
  ASSUME TypeOK, NEW d \in Client, NEW at, NEW h \in Handle,
         NEW next \in Step, Obtain(d, at, h, next)
  PROVE  /\ pc' \in [Client -> Step]
         /\ res' \in [Client -> SUBSET Handle]
<1>1. "fail" \in Step
  BY DEF Step
<1>2. res[d] \cup {h} \in SUBSET Handle
  BY DEF TypeOK
<1>3. pc' \in [Client -> Step]
  BY <1>1 DEF TypeOK, Obtain, Goto
<1>4. res' = [res EXCEPT ![d] = @ \cup {h}] \/ res' = res
  BY DEF Obtain
<1>5. res' \in [Client -> SUBSET Handle]
  <2>1. res \in [Client -> SUBSET Handle]
    BY DEF TypeOK
  <2> QED BY <1>2, <1>4, <2>1
<1> QED BY <1>3, <1>5

\* A send changes the step and the channel to the server.
LEMMA SendType ==
  ASSUME TypeOK, NEW d \in Client, NEW at, NEW m \in UpMsg,
         NEW next \in Step, ws_send_text(d, at, m, next)
  PROVE  TypeOK'
<1>1. "fail" \in Step
  BY DEF Step
<1>2. pc' \in [Client -> Step]
  BY <1>1 DEF TypeOK, ws_send_text, Goto
<1>3. up' \in [Client -> Seq(UpMsg)]
  BY PutType, TypeParts DEF TypeOK, ws_send_text
<1> QED BY <1>2, <1>3 DEF TypeOK, ws_send_text, serverVars

\* A receive changes the step and the channel from the server.
LEMMA RecvType ==
  ASSUME TypeOK, NEW d \in Client, NEW at, NEW m,
         NEW next \in Step, ws_recv_text(d, at, m, next)
  PROVE  TypeOK'
<1>1. "fail" \in Step
  BY DEF Step
<1>2. pc' \in [Client -> Step]
  BY <1>1 DEF TypeOK, ws_recv_text, Goto
<1>3. Tail(down[d]) \in Seq(DownMsg)
  BY HeadTailProperties DEF TypeOK, ws_recv_text
<1>4. down' \in [Client -> Seq(DownMsg)]
  BY <1>3 DEF TypeOK, ws_recv_text
<1> QED BY <1>2, <1>4 DEF TypeOK, ws_recv_text, serverVars

\* The steps of a client keep the types.
LEMMA ProcessType ==
  ASSUME TypeOK, NEW d \in Client, Process(d) \/ Killed(d)
  PROVE  TypeOK'
<1> USE DEF Step, SetupStep
<1>a. /\ {"s", "ctx", "pd", "cq", "qp", "mr"} = Handle
      /\ {"register_request", "qpinfo_client", "token", "closeframe"} = UpMsg
      /\ Right \in SUBSET Right /\ {"remote_read"} \in SUBSET Right
  BY DEF Handle, UpMsg, Right
<1>1. CASE MapBuffer(d) \/ S3Returned(d) \/ Munmap(d)
  <2>1. CASE MapBuffer(d)
    BY <2>1 DEF TypeOK, MapBuffer, Goto, serverVars
  <2>2. CASE S3Returned(d)
    BY <2>2 DEF TypeOK, S3Returned, Goto, serverVars
  <2>3. CASE Munmap(d)
    BY <2>3 DEF TypeOK, Munmap, Goto, serverVars
  <2> QED BY <1>1, <2>1, <2>2, <2>3
<1>2. CASE AllocSession(d)
  <2>1. {"s"} \in SUBSET Handle
    BY DEF Handle
  <2>2. res' \in [Client -> SUBSET Handle]
    BY <1>2, <2>1 DEF TypeOK, AllocSession
  <2> QED BY <1>2, <2>2 DEF TypeOK, AllocSession, Goto, serverVars
<1>3. CASE ws_dial(d)
  <2>1. pc' \in [Client -> Step]
    <3>1. \/ pc' = [pc EXCEPT ![d] = "register"]
          \/ pc' = [pc EXCEPT ![d] = "cleanup"]
      BY <1>3 DEF ws_dial, Goto
    <3> QED BY <3>1 DEF TypeOK
  <2>2. ws' \in [Client -> {"none", "open", "closed"}]
    BY <1>3 DEF TypeOK, ws_dial
  <2>3. srv' \in [Client -> {"none", "connected", "registered", "paired",
                            "armed", "gone"}]
    BY <1>3 DEF TypeOK, ws_dial
  <2> QED BY <1>3, <2>1, <2>2, <2>3 DEF TypeOK, ws_dial
<1>4. CASE send_register_request(d) \/ send_qpinfo_client(d) \/ send_token(d)
  BY <1>4, <1>a, SendType DEF send_register_request, send_qpinfo_client, send_token
<1>5. CASE recv_register_response(d) \/ recv_qpinfo_server(d)
  BY <1>5, RecvType DEF recv_register_response, recv_qpinfo_server
<1>6. CASE v_open_device(d)
  <2>1. pc' \in [Client -> Step] /\ res' \in [Client -> SUBSET Handle]
    BY <1>6, <1>a, ObtainType DEF v_open_device
  <2> QED BY <1>6, <2>1 DEF TypeOK, v_open_device, Obtain, serverVars
<1>7. CASE ibv_alloc_pd(d)
  <2>1. pc' \in [Client -> Step] /\ res' \in [Client -> SUBSET Handle]
    BY <1>7, <1>a, ObtainType DEF ibv_alloc_pd
  <2> QED BY <1>7, <2>1 DEF TypeOK, ibv_alloc_pd, Obtain, serverVars
<1>8. CASE ibv_create_cq(d)
  <2>1. pc' \in [Client -> Step] /\ res' \in [Client -> SUBSET Handle]
    BY <1>8, <1>a, ObtainType DEF ibv_create_cq
  <2> QED BY <1>8, <2>1 DEF TypeOK, ibv_create_cq, Obtain, serverVars
<1>9. CASE ibv_create_qp(d)
  <2>1. pc' \in [Client -> Step] /\ res' \in [Client -> SUBSET Handle]
    BY <1>9, <1>a, ObtainType DEF ibv_create_qp
  <2> QED BY <1>9, <2>1 DEF TypeOK, ibv_create_qp, Obtain, serverVars
<1>10. CASE ibv_reg_mr(d)
  <2>1. pc' \in [Client -> Step] /\ res' \in [Client -> SUBSET Handle]
    BY <1>10, <1>a, ObtainType DEF ibv_reg_mr
  <2>2. access' \in [Client -> SUBSET Right]
    BY <1>10, <1>a DEF TypeOK, ibv_reg_mr
  <2> QED BY <1>10, <2>1, <2>2 DEF TypeOK, ibv_reg_mr, Obtain, serverVars
<1>11. CASE v_qp_to_init(d) \/ v_qp_to_rtr(d) \/ v_qp_to_rts(d) \/ v_query_port(d)
  <2>1. CASE v_query_port(d)
    BY <2>1 DEF TypeOK, v_query_port, Goto, serverVars
  <2>2. CASE v_qp_to_init(d)
    BY <2>2 DEF TypeOK, v_qp_to_init, Modify, Goto, serverVars
  <2>3. CASE v_qp_to_rtr(d)
    BY <2>3 DEF TypeOK, v_qp_to_rtr, Modify, Goto, serverVars
  <2>4. CASE v_qp_to_rts(d)
    BY <2>4 DEF TypeOK, v_qp_to_rts, Modify, Goto, serverVars
  <2> QED BY <1>11, <2>1, <2>2, <2>3, <2>4
<1>12. CASE ws_close(d)
  <2>1. up' \in [Client -> Seq(UpMsg)]
    BY <1>12, <1>a, PutType, TypeParts DEF ws_close
  <2> QED BY <1>12, <2>1 DEF TypeOK, ws_close, Goto, serverVars
<1>13. CASE cleanup(d)
  <2>1. PICK h \in res[d] :
          /\ res' = [res EXCEPT ![d] = @ \ {h}]
          /\ access' = [access EXCEPT ![d] = IF h = "mr" THEN {} ELSE @]
          /\ qp' = [qp EXCEPT ![d] = IF h = "qp" THEN "none" ELSE @]
          /\ Goto(d, "cleanup", IF res[d] = {h} THEN "munmap" ELSE "cleanup")
    BY <1>13 DEF cleanup
  <2>2. res' \in [Client -> SUBSET Handle]
    <3>1. res[d] \ {h} \in SUBSET Handle
      BY DEF TypeOK
    <3> QED BY <2>1, <3>1 DEF TypeOK
  <2>3. access' \in [Client -> SUBSET Right]
    BY <2>1 DEF TypeOK
  <2> QED BY <1>13, <2>1, <2>2, <2>3 DEF TypeOK, cleanup, Goto, serverVars
<1>14. CASE Killed(d)
  BY <1>14 DEF TypeOK, Killed, serverVars
<1> QED
  BY <1>1, <1>2, <1>3, <1>4, <1>5, <1>6, <1>7, <1>8, <1>9, <1>10, <1>11, <1>12,
     <1>13, <1>14 DEF Process, Setup

\* So do the steps of the control endpoint.
LEMMA ControlType ==
  ASSUME TypeOK, NEW d \in Client, Control(d) \/ SrvHangup(d)
  PROVE  TypeOK'
<1>1. UNCHANGED clientVars /\ EndpointTypeOK'
  BY ControlEffect, TypeParts
<1> QED BY <1>1 DEF TypeOK, EndpointTypeOK, clientVars

\* TypeOK is an invariant: the session state of every client and the server's
\* tables stay within their types, whatever call of the ladder fails.
THEOREM TypeCorrect == Spec => []TypeOK
<1>1. Init => TypeOK
  BY EmptySeq DEF Init, TypeOK, Step, SetupStep, Handle, Right
<1>2. TypeOK /\ [Next]_vars => TypeOK'
  <2>1. TypeOK /\ Next => TypeOK'
    BY ProcessType, ControlType DEF Next, Terminated, vars, TypeOK
  <2>2. TypeOK /\ UNCHANGED vars => TypeOK'
    BY DEF TypeOK, vars
  <2> QED BY <2>1, <2>2
<1> QED BY <1>1, <1>2, PTL DEF Spec

----------------------------------------------------------------------------
(* The inductive invariant is preserved.                                   *)

\* A step of one client, or of the server for it, touches no other client.
LEMMA StepFrame ==
  ASSUME TypeOK, NEW d \in Client, NEW c \in Client, c # d,
         Process(d) \/ Killed(d) \/ Control(d) \/ SrvHangup(d)
  PROVE  Same(c)
<1> USE DEF TypeOK, Same, Goto, serverVars, clientVars
<1>1. CASE MapBuffer(d) \/ S3Returned(d) \/ Munmap(d) \/ AllocSession(d)
           \/ ws_dial(d) \/ Killed(d)
  BY <1>1 DEF MapBuffer, S3Returned, Munmap, AllocSession, ws_dial, Killed
<1>2. CASE send_register_request(d) \/ send_qpinfo_client(d) \/ send_token(d)
  BY <1>2 DEF send_register_request, send_qpinfo_client, send_token,
              ws_send_text, Put
<1>3. CASE recv_register_response(d) \/ recv_qpinfo_server(d)
  BY <1>3 DEF recv_register_response, recv_qpinfo_server, ws_recv_text
<1>4. CASE v_open_device(d) \/ ibv_alloc_pd(d) \/ ibv_create_cq(d)
           \/ ibv_create_qp(d) \/ ibv_reg_mr(d)
  BY <1>4 DEF v_open_device, ibv_alloc_pd, ibv_create_cq, ibv_create_qp,
              ibv_reg_mr, Obtain
<1>5. CASE v_qp_to_init(d) \/ v_qp_to_rtr(d) \/ v_qp_to_rts(d) \/ v_query_port(d)
  BY <1>5 DEF v_qp_to_init, v_qp_to_rtr, v_qp_to_rts, v_query_port, Modify
<1>6. CASE ws_close(d)
  BY <1>6 DEF ws_close, Put
<1>7. CASE cleanup(d)
  BY <1>7 DEF cleanup
<1>8. CASE Control(d) \/ SrvHangup(d)
  BY <1>8 DEF Control, SrvRegister, SrvPair, SrvToken, SrvClosed, SrvHangup,
              Receive, Reply
<1> QED
  BY <1>1, <1>2, <1>3, <1>4, <1>5, <1>6, <1>7, <1>8 DEF Process, Setup


\* The values Parents and CleanupRank take, one by one.
LEMMA ParentsValues ==
  /\ Parents["s"] = {} /\ Parents["ctx"] = {"s"}
  /\ Parents["pd"] = {"s", "ctx"} /\ Parents["cq"] = {"s", "ctx"}
  /\ Parents["qp"] = {"s", "pd", "cq"} /\ Parents["mr"] = {"s", "pd"}
BY DEF Parents

\* Every step of a client keeps that client's invariant.
LEMMA ProcessInv ==
  ASSUME TypeOK, NEW d \in Client, CInv(d), Process(d) \/ Killed(d)
  PROVE  CInv(d)'
<1> USE ParentsValues DEF CInv, HoldInv, BufInv, WsInv, QpInv, AccessInv,
      TokenInv, PeerInv, SetupStep, PreDial, WsOpenStep, Released,
      TokenSent, Handle
<1>1. CASE MapBuffer(d)
  <2>1. /\ pc[d] = "start"
        /\ \/ pc'[d] = "calloc" /\ buf'[d] = "mapped"
           \/ pc'[d] = "exit" /\ buf'[d] = buf[d]
        /\ res'[d] = res[d] /\ access'[d] = access[d] /\ qp'[d] = qp[d]
        /\ ws'[d] = ws[d] /\ up'[d] = up[d] /\ down'[d] = down[d]
        /\ srv'[d] = srv[d]
    BY <1>1 DEF MapBuffer, Goto, serverVars, TypeOK
  <2> QED BY <2>1
<1>2. CASE AllocSession(d)
  <2>1. /\ pc[d] = "calloc"
        /\ \/ pc'[d] = "dial" /\ res'[d] = {"s"}
           \/ pc'[d] = "munmap" /\ res'[d] = res[d]
        /\ access'[d] = access[d] /\ buf'[d] = buf[d] /\ qp'[d] = qp[d]
        /\ ws'[d] = ws[d] /\ up'[d] = up[d] /\ down'[d] = down[d]
        /\ srv'[d] = srv[d]
    BY <1>2 DEF AllocSession, Goto, serverVars, TypeOK
  <2> QED BY <2>1
<1>3. CASE ws_dial(d)
  <2>1. /\ pc[d] = "dial"
        /\ \/ pc'[d] = "register" /\ ws'[d] = "open" /\ srv'[d] = "connected"
           \/ pc'[d] = "cleanup" /\ ws'[d] = ws[d] /\ srv'[d] = srv[d]
        /\ res'[d] = res[d] /\ access'[d] = access[d] /\ buf'[d] = buf[d]
        /\ qp'[d] = qp[d] /\ up'[d] = up[d] /\ down'[d] = down[d]
    BY <1>3 DEF ws_dial, Goto, TypeOK
  <2> QED BY <2>1, InEmpty
<1>4. CASE v_open_device(d)
  <2>1. /\ pc[d] = "open"
        /\ \/ pc'[d] = "pd" /\ res'[d] = res[d] \cup {"ctx"}
           \/ pc'[d] = "fail" /\ res'[d] = res[d]
        /\ access'[d] = access[d] /\ buf'[d] = buf[d] /\ qp'[d] = qp[d]
        /\ ws'[d] = ws[d] /\ up'[d] = up[d] /\ down'[d] = down[d]
        /\ srv'[d] = srv[d]
    BY <1>4 DEF v_open_device, Obtain, Goto, serverVars, TypeOK
  <2> QED BY <2>1
<1>5. CASE ibv_alloc_pd(d)
  <2>1. /\ pc[d] = "pd"
        /\ \/ pc'[d] = "cq" /\ res'[d] = res[d] \cup {"pd"}
           \/ pc'[d] = "fail" /\ res'[d] = res[d]
        /\ access'[d] = access[d] /\ buf'[d] = buf[d] /\ qp'[d] = qp[d]
        /\ ws'[d] = ws[d] /\ up'[d] = up[d] /\ down'[d] = down[d]
        /\ srv'[d] = srv[d]
    BY <1>5 DEF ibv_alloc_pd, Obtain, Goto, serverVars, TypeOK
  <2> QED BY <2>1
<1>6. CASE ibv_create_cq(d)
  <2>1. /\ pc[d] = "cq"
        /\ \/ pc'[d] = "qp" /\ res'[d] = res[d] \cup {"cq"}
           \/ pc'[d] = "fail" /\ res'[d] = res[d]
        /\ access'[d] = access[d] /\ buf'[d] = buf[d] /\ qp'[d] = qp[d]
        /\ ws'[d] = ws[d] /\ up'[d] = up[d] /\ down'[d] = down[d]
        /\ srv'[d] = srv[d]
    BY <1>6 DEF ibv_create_cq, Obtain, Goto, serverVars, TypeOK
  <2> QED BY <2>1
<1>7. CASE ibv_create_qp(d)
  <2>1. /\ pc[d] = "qp"
        /\ qp'[d] \in {qp[d], "RESET"}
        /\ \/ pc'[d] = "init" /\ res'[d] = res[d] \cup {"qp"}
           \/ pc'[d] = "fail" /\ res'[d] = res[d]
        /\ access'[d] = access[d] /\ buf'[d] = buf[d] /\ ws'[d] = ws[d]
        /\ up'[d] = up[d] /\ down'[d] = down[d] /\ srv'[d] = srv[d]
    BY <1>7 DEF ibv_create_qp, Obtain, Goto, serverVars, TypeOK
  <2> QED BY <2>1
<1>8. CASE ibv_reg_mr(d)
  <2>1. /\ pc[d] = "mr"
        /\ \/ /\ pc'[d] = "token" /\ res'[d] = res[d] \cup {"mr"}
              /\ access'[d] = IF d \in Receivers THEN Right ELSE {"remote_read"}
           \/ pc'[d] = "fail" /\ res'[d] = res[d]
        /\ buf'[d] = buf[d] /\ qp'[d] = qp[d] /\ ws'[d] = ws[d]
        /\ up'[d] = up[d] /\ down'[d] = down[d] /\ srv'[d] = srv[d]
    BY <1>8 DEF ibv_reg_mr, Obtain, Goto, serverVars, TypeOK
  <2> QED BY <2>1
<1>9. CASE v_qp_to_init(d)
  <2>1. /\ pc[d] = "init"
        /\ \/ pc'[d] = "query" /\ qp'[d] = "INIT"
           \/ pc'[d] = "fail" /\ qp'[d] = qp[d]
        /\ res'[d] = res[d] /\ access'[d] = access[d] /\ buf'[d] = buf[d]
        /\ ws'[d] = ws[d] /\ up'[d] = up[d] /\ down'[d] = down[d]
        /\ srv'[d] = srv[d]
    BY <1>9 DEF v_qp_to_init, Modify, Goto, serverVars, TypeOK
  <2> QED BY <2>1
<1>10. CASE v_qp_to_rtr(d)
  <2>1. /\ pc[d] = "rtr"
        /\ \/ pc'[d] = "rts" /\ qp'[d] = "RTR"
           \/ pc'[d] = "fail" /\ qp'[d] = qp[d]
        /\ res'[d] = res[d] /\ access'[d] = access[d] /\ buf'[d] = buf[d]
        /\ ws'[d] = ws[d] /\ up'[d] = up[d] /\ down'[d] = down[d]
        /\ srv'[d] = srv[d]
    BY <1>10 DEF v_qp_to_rtr, Modify, Goto, serverVars, TypeOK
  <2> QED BY <2>1
<1>11. CASE v_qp_to_rts(d)
  <2>1. /\ pc[d] = "rts"
        /\ \/ pc'[d] = "mr" /\ qp'[d] = "RTS"
           \/ pc'[d] = "fail" /\ qp'[d] = qp[d]
        /\ res'[d] = res[d] /\ access'[d] = access[d] /\ buf'[d] = buf[d]
        /\ ws'[d] = ws[d] /\ up'[d] = up[d] /\ down'[d] = down[d]
        /\ srv'[d] = srv[d]
    BY <1>11 DEF v_qp_to_rts, Modify, Goto, serverVars, TypeOK
  <2> QED BY <2>1
<1>12. CASE v_query_port(d)
  <2>1. /\ pc[d] = "query"
        /\ pc'[d] \in {"qpinfo", "fail"}
        /\ res'[d] = res[d] /\ access'[d] = access[d] /\ buf'[d] = buf[d]
        /\ qp'[d] = qp[d] /\ ws'[d] = ws[d] /\ up'[d] = up[d]
        /\ down'[d] = down[d] /\ srv'[d] = srv[d]
    BY <1>12 DEF v_query_port, Goto, serverVars, TypeOK
  <2> QED BY <2>1
<1>13. CASE send_register_request(d)
  <2>1. /\ pc[d] = "register"
        /\ \/ pc'[d] = "registered" /\ up'[d] \in {up[d], Append(up[d], "register_request")}
           \/ pc'[d] = "fail" /\ up'[d] = up[d]
        /\ res'[d] = res[d] /\ access'[d] = access[d] /\ buf'[d] = buf[d]
        /\ qp'[d] = qp[d] /\ ws'[d] = ws[d] /\ down'[d] = down[d]
        /\ srv'[d] = srv[d]
    BY <1>13 DEF send_register_request, ws_send_text, Put, Goto, serverVars, TypeOK
  <2>2. In("token", up'[d]) => In("token", up[d])
    <3>1. up'[d] \in {up[d], Append(up[d], "register_request")}
      BY <2>1
    <3>2. "register_request" \in UpMsg
      BY DEF UpMsg
    <3> HIDE DEF CInv, HoldInv, BufInv, WsInv, QpInv, AccessInv, TokenInv, PeerInv
    <3> QED BY <3>1, <3>2, NoTokenSent, TypeParts
  <2> QED BY <2>1, <2>2
<1>14. CASE send_qpinfo_client(d)
  <2>1. /\ pc[d] = "qpinfo"
        /\ \/ pc'[d] = "paired" /\ up'[d] \in {up[d], Append(up[d], "qpinfo_client")}
           \/ pc'[d] = "fail" /\ up'[d] = up[d]
        /\ res'[d] = res[d] /\ access'[d] = access[d] /\ buf'[d] = buf[d]
        /\ qp'[d] = qp[d] /\ ws'[d] = ws[d] /\ down'[d] = down[d]
        /\ srv'[d] = srv[d]
    BY <1>14 DEF send_qpinfo_client, ws_send_text, Put, Goto, serverVars, TypeOK
  <2>2. In("token", up'[d]) => In("token", up[d])
    <3>1. up'[d] \in {up[d], Append(up[d], "qpinfo_client")}
      BY <2>1
    <3>2. "qpinfo_client" \in UpMsg
      BY DEF UpMsg
    <3> HIDE DEF CInv, HoldInv, BufInv, WsInv, QpInv, AccessInv, TokenInv, PeerInv
    <3> QED BY <3>1, <3>2, NoTokenSent, TypeParts
  <2> QED BY <2>1, <2>2
<1>15. CASE send_token(d)
  <2>1. /\ pc[d] = "token"
        /\ \/ pc'[d] = "close" /\ up'[d] \in {up[d], Append(up[d], "token")}
           \/ pc'[d] = "fail" /\ up'[d] = up[d]
        /\ res'[d] = res[d] /\ access'[d] = access[d] /\ buf'[d] = buf[d]
        /\ qp'[d] = qp[d] /\ ws'[d] = ws[d] /\ down'[d] = down[d]
        /\ srv'[d] = srv[d]
    BY <1>15 DEF send_token, ws_send_text, Put, Goto, serverVars, TypeOK
  <2>2. In("token", up'[d]) => In("token", up[d]) \/ pc'[d] = "close"
    BY <2>1, ChannelFacts, TypeParts DEF UpMsg
  <2> QED BY <2>1, <2>2
<1>16. CASE recv_register_response(d)
  <2>1. /\ pc[d] = "registered"
        /\ down[d] # << >>
        /\ down'[d] = Tail(down[d])
        /\ pc'[d] = IF Head(down[d]) = "register_ok" THEN "open" ELSE "fail"
        /\ res'[d] = res[d] /\ access'[d] = access[d] /\ buf'[d] = buf[d]
        /\ qp'[d] = qp[d] /\ ws'[d] = ws[d] /\ up'[d] = up[d]
        /\ srv'[d] = srv[d]
    BY <1>16 DEF recv_register_response, ws_recv_text, Goto, serverVars, TypeOK
  <2>2. In("qpinfo_server", down'[d]) => In("qpinfo_server", down[d])
    BY <2>1, ChannelFacts, TypeParts
  <2> QED BY <2>1, <2>2
<1>17. CASE recv_qpinfo_server(d)
  <2>1. /\ pc[d] = "paired"
        /\ down[d] # << >>
        /\ down'[d] = Tail(down[d])
        /\ pc'[d] = IF Head(down[d]) = "qpinfo_server" THEN "rtr" ELSE "fail"
        /\ res'[d] = res[d] /\ access'[d] = access[d] /\ buf'[d] = buf[d]
        /\ qp'[d] = qp[d] /\ ws'[d] = ws[d] /\ up'[d] = up[d]
        /\ srv'[d] = srv[d]
    BY <1>17 DEF recv_qpinfo_server, ws_recv_text, Goto, serverVars, TypeOK
  <2>2. /\ In("qpinfo_server", down'[d]) => In("qpinfo_server", down[d])
        /\ pc'[d] = "rtr" => In("qpinfo_server", down[d])
    BY <2>1, ChannelFacts, TypeParts
  <2> QED BY <2>1, <2>2
<1>18. CASE ws_close(d)
  <2>1. /\ \/ pc[d] = "close" /\ pc'[d] = "ready"
           \/ pc[d] = "fail" /\ pc'[d] = "cleanup"
        /\ up'[d] \in {up[d], Append(up[d], "closeframe")}
        /\ ws'[d] = "closed"
        /\ res'[d] = res[d] /\ access'[d] = access[d] /\ buf'[d] = buf[d]
        /\ qp'[d] = qp[d] /\ down'[d] = down[d] /\ srv'[d] = srv[d]
    BY <1>18 DEF ws_close, Put, Goto, serverVars, TypeOK
  <2>2. In("token", up'[d]) => In("token", up[d])
    BY <2>1, ChannelFacts, TypeParts DEF UpMsg
  <2> QED BY <2>1, <2>2
<1>19. CASE S3Returned(d)
  <2>1. /\ pc[d] = "ready" /\ pc'[d] = "cleanup"
        /\ res'[d] = res[d] /\ access'[d] = access[d] /\ buf'[d] = buf[d]
        /\ qp'[d] = qp[d] /\ ws'[d] = ws[d] /\ up'[d] = up[d]
        /\ down'[d] = down[d] /\ srv'[d] = srv[d]
    BY <1>19 DEF S3Returned, Goto, serverVars, TypeOK
  <2> QED BY <2>1
<1>20. CASE Munmap(d)
  <2>1. /\ pc[d] = "munmap" /\ pc'[d] = "exit"
        /\ buf'[d] = "none"
        /\ res'[d] = res[d] /\ access'[d] = access[d] /\ qp'[d] = qp[d]
        /\ ws'[d] = ws[d] /\ up'[d] = up[d] /\ down'[d] = down[d]
        /\ srv'[d] = srv[d]
    BY <1>20 DEF Munmap, Goto, serverVars, TypeOK
  <2> QED BY <2>1
<1>21. CASE Killed(d)
  <2>1. /\ pc[d] # "exit" /\ pc'[d] = "exit"
        /\ res'[d] = {} /\ buf'[d] = "none"
        /\ qp'[d] = "none" /\ ws'[d] = "closed"
        /\ up'[d] = up[d] /\ down'[d] = down[d] /\ srv'[d] = srv[d]
    BY <1>21 DEF Killed, serverVars, TypeOK
  <2> QED BY <2>1
<1>22. CASE cleanup(d)
  <2>1. PICK h \in res[d] :
          /\ \A g \in res[d] : CleanupRank[h] <= CleanupRank[g]
          /\ res' = [res EXCEPT ![d] = @ \ {h}]
          /\ qp' = [qp EXCEPT ![d] = IF h = "qp" THEN "none" ELSE @]
          /\ Goto(d, "cleanup", IF res[d] = {h} THEN "munmap" ELSE "cleanup")
    BY <1>22 DEF cleanup
  <2>a. /\ res'[d] = res[d] \ {h}
        /\ qp'[d] \in {qp[d], "none"}
        /\ pc[d] = "cleanup"
        /\ pc'[d] = IF res[d] = {h} THEN "munmap" ELSE "cleanup"
    BY <2>1 DEF Goto, TypeOK
  <2>2. /\ buf'[d] = buf[d] /\ ws'[d] = ws[d] /\ up'[d] = up[d]
        /\ down'[d] = down[d] /\ srv'[d] = srv[d]
    BY <1>22 DEF cleanup, serverVars
  <2>3. \A g \in res[d] : h \notin Parents[g]
    <3>1. res[d] \subseteq Handle
      BY DEF TypeOK
    <3>2. /\ CleanupRank["mr"] = 1 /\ CleanupRank["qp"] = 2
          /\ CleanupRank["cq"] = 3 /\ CleanupRank["pd"] = 4
          /\ CleanupRank["ctx"] = 5 /\ CleanupRank["s"] = 6
      BY DEF CleanupRank
    <3> QED BY <2>1, <3>1, <3>2
  <2>4. HoldInv(d)'
    BY <2>a, <2>3
  <2> QED BY <2>a, <2>2, <2>4
<1> QED
  BY <1>1, <1>2, <1>3, <1>4, <1>5, <1>6, <1>7, <1>8, <1>9, <1>10, <1>11,
     <1>12, <1>13, <1>14, <1>15, <1>16, <1>17, <1>18, <1>19, <1>20, <1>21, <1>22
     DEF Process, Setup

\* Every step of the control endpoint keeps the client's invariant.
LEMMA ControlInv ==
  ASSUME TypeOK, NEW d \in Client, CInv(d), Control(d) \/ SrvHangup(d)
  PROVE  CInv(d)'
<1>1. /\ pc'[d] = pc[d] /\ res'[d] = res[d] /\ access'[d] = access[d]
      /\ buf'[d] = buf[d] /\ qp'[d] = qp[d] /\ ws'[d] = ws[d]
  BY ControlEffect, TypeParts DEF clientVars
<1>2. HoldInv(d)' /\ BufInv(d)' /\ WsInv(d)' /\ QpInv(d)' /\ AccessInv(d)'
  BY <1>1 DEF CInv, HoldInv, BufInv, WsInv, QpInv, AccessInv
<1>3. TokenInv(d)'
  BY <1>1, ControlEffect, TypeParts DEF CInv, TokenInv
<1>4. PeerInv(d)'
  BY <1>1, ControlEffect, TypeParts DEF CInv, PeerInv, Answered
<1> QED BY <1>2, <1>3, <1>4 DEF CInv

\* IInv is inductive.
THEOREM Invariance == Spec => []IInv
<1>1. Init => IInv
  <2> SUFFICES ASSUME Init PROVE IInv
    OBVIOUS
  <2>1. TypeOK
    BY EmptySeq DEF Init, TypeOK, Step, SetupStep, Handle, Right
  <2>2. ASSUME NEW c \in Client PROVE CInv(c)
    BY InEmpty DEF Init, CInv, HoldInv, BufInv, WsInv, QpInv, AccessInv,
       TokenInv, PeerInv, PreDial, WsOpenStep, SetupStep, Released, TokenSent
  <2> QED BY <2>1, <2>2 DEF IInv
<1>2. IInv /\ [Next]_vars => IInv'
  <2> SUFFICES ASSUME IInv, [Next]_vars PROVE IInv'
    OBVIOUS
  <2>1. ASSUME NEW d \in Client,
               Process(d) \/ Killed(d) \/ Control(d) \/ SrvHangup(d)
        PROVE  IInv'
    <3>1. TypeOK'
      BY <2>1, ProcessType, ControlType DEF IInv
    <3>2. CInv(d)'
      BY <2>1, ProcessInv, ControlInv DEF IInv
    <3>3. ASSUME NEW c \in Client, c # d PROVE CInv(c)'
      BY <2>1, <3>3, StepFrame, SameInv DEF IInv
    <3> QED BY <3>1, <3>2, <3>3 DEF IInv
  <2>2. CASE UNCHANGED vars
    <3>1. TypeOK'
      BY <2>2 DEF IInv, TypeOK, vars
    <3>2. ASSUME NEW c \in Client PROVE CInv(c)'
      <4>1. Same(c)
        BY <2>2 DEF vars, Same
      <4> QED BY <4>1, SameInv DEF IInv
    <3> QED BY <3>1, <3>2 DEF IInv
  <2> QED BY <2>1, <2>2 DEF Next, Terminated
<1> QED BY <1>1, <1>2, PTL DEF Spec

----------------------------------------------------------------------------
(* What the invariant gives.                                               *)

\* Whatever call of the ladder fails, cleanup() never releases a handle that
\* another one still uses.
THEOREM CleanupOrder == Spec => []DependencyClosed
<1>1. IInv => DependencyClosed
  BY DEF IInv, CInv, HoldInv, DependencyClosed
<1> QED BY <1>1, Invariance, PTL

\* However a client process ends, it leaves nothing behind.
THEOREM NoLeak == Spec => []NoLeakAtExit
<1>1. ASSUME IInv, NEW c \in Client, pc[c] = "exit"
      PROVE  res[c] = {} /\ buf[c] = "none" /\ ws[c] # "open"
  <2>1. res[c] = {}
    BY <1>1 DEF IInv, CInv, HoldInv
  <2>2. buf[c] = "none"
    BY <1>1 DEF IInv, CInv, BufInv, TypeOK
  <2>3. ws[c] # "open"
    BY <1>1 DEF IInv, CInv, WsInv, WsOpenStep, SetupStep, PreDial
  <2> QED BY <2>1, <2>2, <2>3
<1>2. IInv => NoLeakAtExit
  BY <1>1 DEF NoLeakAtExit
<1> QED BY <1>2, Invariance, PTL

\* The NIC never has a region over memory that has been unmapped.
THEOREM MemorySafe == Spec => []RegisteredIsMapped
<1>1. IInv => RegisteredIsMapped
  BY DEF IInv, CInv, HoldInv, BufInv, RegisteredIsMapped
<1> QED BY <1>1, Invariance, PTL

\* A token the server holds names a usable region until the client, having
\* heard of the end of the S3 call, starts to release it.
THEOREM TokenUsable == Spec => []TokenIsUsable
<1>1. IInv => TokenIsUsable
  BY DEF IInv, CInv, HoldInv, QpInv, AccessInv, TokenInv, TokenIsUsable,
         TokenSent, Released, Handle, Right
<1> QED BY <1>1, Invariance, PTL

\* The queue pair is driven to RTR only towards a peer that has answered.
THEOREM PeerAnswered == Spec => []PeerBeforeRtr
<1>1. IInv => PeerBeforeRtr
  BY DEF IInv, CInv, PeerInv, PeerBeforeRtr
<1> QED BY <1>1, Invariance, PTL

\* Handles are released only by cleanup() and by the kernel, after the control
\* connection was closed.
THEOREM CloseBeforeRelease == Spec => ReleaseAfterClose
<1>1. ASSUME IInv, [Next]_vars, NEW c \in Client, ~(res[c] \subseteq res'[c])
      PROVE  ws'[c] # "open"
  <2>1. TypeOK /\ CInv(c)
    BY <1>1 DEF IInv
  <2>2. PICK d \in Client :
          Process(d) \/ Killed(d) \/ Control(d) \/ SrvHangup(d)
    BY <1>1 DEF Next, Terminated, vars
  <2>3. c = d
    BY <1>1, <2>1, <2>2, StepFrame DEF Same
  <2>4. CASE Killed(d)
    BY <2>1, <2>3, <2>4 DEF Killed, TypeOK
  <2>5. CASE cleanup(d)
    <3>1. pc[d] = "cleanup" /\ ws' = ws
      BY <2>5 DEF cleanup, Goto
    <3> QED BY <2>1, <2>3, <3>1 DEF CInv, WsInv, WsOpenStep, SetupStep, PreDial
  <2>6. CASE AllocSession(d)
    <3>1. res[d] = {}
      BY <2>1, <2>3, <2>6 DEF AllocSession, Goto, CInv, HoldInv
    <3> QED BY <1>1, <2>3, <3>1
  <2>7. CASE \/ v_open_device(d) \/ ibv_alloc_pd(d) \/ ibv_create_cq(d)
             \/ ibv_create_qp(d) \/ ibv_reg_mr(d)
    <3>1. PICK h : res' = [res EXCEPT ![d] = @ \cup {h}] \/ res' = res
      BY <2>7 DEF v_open_device, ibv_alloc_pd, ibv_create_cq, ibv_create_qp,
                  ibv_reg_mr, Obtain
    <3> QED BY <1>1, <2>1, <2>3, <3>1 DEF TypeOK
  <2>8. CASE ~(\/ Killed(d) \/ cleanup(d) \/ AllocSession(d) \/ v_open_device(d)
               \/ ibv_alloc_pd(d) \/ ibv_create_cq(d) \/ ibv_create_qp(d)
               \/ ibv_reg_mr(d))
    <3>1. res' = res
      BY <2>2, <2>8 DEF Process, Setup, MapBuffer, ws_dial, ws_close, S3Returned,
         Munmap, v_qp_to_init, v_qp_to_rtr, v_qp_to_rts, v_query_port, Modify,
         send_register_request, send_qpinfo_client, send_token, ws_send_text,
         recv_register_response, recv_qpinfo_server, ws_recv_text, Control,
         SrvRegister, SrvPair, SrvToken, SrvClosed, SrvHangup, clientVars
    <3> QED BY <1>1, <3>1
  <2> QED BY <2>4, <2>5, <2>6, <2>7, <2>8
<1>2. IInv /\ [Next]_vars =>
        [\A c \in Client : ~(res[c] \subseteq res'[c]) => ws'[c] # "open"]_vars
  BY <1>1
<1> QED BY <1>2, Invariance, PTL DEF Spec, ReleaseAfterClose

=============================================================================
