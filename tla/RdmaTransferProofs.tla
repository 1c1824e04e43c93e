------------------------- MODULE RdmaTransferProofs -------------------------
(***************************************************************************)
(* Proofs about RdmaTransfer, for any set of programs, request ids, keys   *)
(* and files.                                                              *)
(*                                                                         *)
(* The composed system implements RdmaSession, so the theorems of          *)
(* RdmaSessionProofs are theorems about the programs.  With them, a put's  *)
(* buffer is shown to keep the file's bytes also when request ids collide: *)
(* the server can be led to the wrong region, and the region's rights are  *)
(* what stops it.  Last, every run of a program is shown to be one atomic  *)
(* operation on an object.                                                 *)
(***************************************************************************)
EXTENDS RdmaTransfer, RdmaSessionProofs

----------------------------------------------------------------------------
(* The composed system implements the sessions.                            *)

\* Every step of the composed system is a step of the sessions, or leaves
\* their state alone.
LEMMA StepRefines == TransferNext => [Next]_vars
<1> SUFFICES ASSUME TransferNext PROVE [Next]_vars
  OBVIOUS
<1>1. CASE Terminated
  BY <1>1 DEF Next
<1>2. CASE \E c \in Client : \/ Program(c) \/ DataPath(c) \/ Fault(c)
                             \/ Control(c)
  <2>1. PICK c \in Client : Program(c) \/ DataPath(c) \/ Fault(c) \/ Control(c)
    BY <1>2
  <2>2. CASE LoadFile(c) \/ HeadAndMap(c)
    BY <2>2 DEF LoadFile, HeadAndMap, Process, Next
  <2>3. CASE S3Answered(c) \/ S3Lost(c)
    BY <2>3 DEF S3Answered, S3Lost, Process, Next
  <2>4. CASE UnmapAndExit(c)
    BY <2>4 DEF UnmapAndExit, Process, Next
  <2>5. CASE Setup(c) \/ cleanup(c)
    BY <2>5 DEF Process, Next
  <2>6. CASE Killed(c) \/ SrvHangup(c) \/ Control(c)
    BY <2>6 DEF Next
  <2>7. CASE SendS3(c) \/ SaveFile(c) \/ DataPath(c)
    <3>1. UNCHANGED vars
      BY <2>7 DEF SendS3, SaveFile, DataPath, SrvStart, SrvReject, SrvRdmaRead,
                  SrvStore, SrvRdmaWrite
    <3> QED BY <3>1
  <2> QED BY <2>1, <2>2, <2>3, <2>4, <2>5, <2>6, <2>7 DEF Program, Fault
<1> QED BY <1>1, <1>2 DEF TransferNext

\* The programs and the server's data path use the sessions only through the
\* session's own operations.
THEOREM RefinesSession == TransferSpec => ImplementsSession
<1>1. TransferInit => Init
  BY DEF TransferInit
<1>2. [TransferNext]_transferVars => [Next]_vars
  BY StepRefines DEF transferVars
<1> QED BY <1>1, <1>2, PTL DEF TransferSpec, ImplementsSession, Spec

----------------------------------------------------------------------------
(* The inductive invariant of the data path.                               *)

\* No two programs generate the same request id.
DistinctIds == \A c, d \in Client : RequestId[c] = RequestId[d] => c = d

\* Nobody but c is run to put the object c puts.
SoleWriter(c) == \A d \in Senders : KeyOf[d] = KeyOf[c] => d = c

\* The region of a put never grants a write, whether it is still registered
\* or not.
SenderRights == \A c \in Senders : access[c] \subseteq {"remote_read"}

\* The server's table leads from an id to a client that generates it.
OwnerInv == \A i \in Id : owner[i] \in Client => RequestId[owner[i]] = i

\* A request that is being served has a token, and with distinct ids it is
\* the program's own: what is staged, and then stored, is its file.
RequestInv(c) ==
  /\ http[c] = "moving" => target[c] \in Client
  /\ http[c] = "staged" => c \in Senders
  /\ c \in Senders /\ rc[c] = "ok" => http[c] = "done"
  /\ DistinctIds =>
       /\ http[c] = "moving" => target[c] = c
       /\ http[c] = "staged" => staged[c] = File[c]
       /\ c \in Senders /\ http[c] = "done" /\ SoleWriter(c) =>
            store[KeyOf[c]] = File[c]

TInv ==
  /\ TransferTypeOK
  /\ SenderRights
  /\ OwnerInv
  /\ SendBufferIntact
  /\ \A c \in Client : RequestInv(c)
  /\ DistinctIds => StoreIsSound


----------------------------------------------------------------------------
(* What a step of the sessions does to the rights, the table and the       *)
(* buffers.                                                                *)

\* Only ibv_reg_mr grants rights, and to a put it grants the right to read.
LEMMA RightsStep ==
  ASSUME TypeOK, SenderRights, [Next]_vars
  PROVE  SenderRights'
<1> SUFFICES ASSUME NEW c \in Senders PROVE access'[c] \subseteq {"remote_read"}
  BY DEF SenderRights, Senders
<1>1. c \in Client /\ access[c] \subseteq {"remote_read"} /\ c \notin Receivers
  BY DEF SenderRights, Senders
<1>2. CASE UNCHANGED vars
  BY <1>1, <1>2 DEF vars
<1>3. CASE ~(UNCHANGED vars)
  <2>1. PICK d \in Client :
          Process(d) \/ Killed(d) \/ Control(d) \/ SrvHangup(d)
    BY <1>3 DEF Next, Terminated
  <2>2. CASE ibv_reg_mr(d)
    BY <1>1, <2>2 DEF ibv_reg_mr, Obtain, TypeOK
  <2>3. CASE cleanup(d) \/ Killed(d)
    BY <1>1, <2>3, Zenon DEF cleanup, Killed, TypeOK
  <2>4. CASE ~(ibv_reg_mr(d) \/ cleanup(d) \/ Killed(d))
    <3>1. access' = access
      BY <2>1, <2>4 DEF Process, Setup, MapBuffer, AllocSession, ws_dial, ws_close,
         S3Returned, Munmap, v_open_device, ibv_alloc_pd, ibv_create_cq,
         ibv_create_qp, v_qp_to_init, v_qp_to_rtr, v_qp_to_rts, v_query_port,
         Modify, send_register_request, send_qpinfo_client, send_token,
         ws_send_text, recv_register_response, recv_qpinfo_server, ws_recv_text,
         Control, SrvRegister, SrvPair, SrvToken, SrvClosed, SrvHangup,
         clientVars
    <3> QED BY <1>1, <3>1
  <2> QED BY <2>2, <2>3, <2>4
<1> QED BY <1>2, <1>3

\* The server enters a client into its table under the client's own id.
LEMMA OwnerStep ==
  ASSUME TypeOK, OwnerInv, [Next]_vars
  PROVE  OwnerInv'
<1>1. CASE UNCHANGED owner
  BY <1>1 DEF OwnerInv
<1>2. CASE \E d \in Client : SrvRegister(d)
  <2>1. PICK d \in Client : SrvRegister(d)
    BY <1>2
  <2>2. owner' = [owner EXCEPT ![RequestId[d]] = d] \/ owner' = owner
    BY <2>1 DEF SrvRegister
  <2>3. owner \in [Id -> Client \cup {NoClient}]
    BY DEF TypeOK
  <2> QED BY <2>2, <2>3 DEF OwnerInv
<1>3. CASE ~(UNCHANGED owner) /\ ~(\E d \in Client : SrvRegister(d))
  <2>1. PICK d \in Client :
          Process(d) \/ Killed(d) \/ Control(d) \/ SrvHangup(d)
    BY <1>3 DEF Next, Terminated, vars
  <2>2. UNCHANGED owner
    BY <1>3, <2>1 DEF Process, Setup, MapBuffer, AllocSession, ws_dial, ws_close,
       S3Returned, Munmap, v_open_device, ibv_alloc_pd, ibv_create_cq,
       ibv_create_qp, ibv_reg_mr, Obtain, v_qp_to_init, v_qp_to_rtr, v_qp_to_rts,
       v_query_port, Modify, send_register_request, send_qpinfo_client,
       send_token, ws_send_text, recv_register_response, recv_qpinfo_server,
       ws_recv_text, cleanup, Killed, Control, SrvPair, SrvToken, SrvClosed,
       SrvHangup, serverVars
  <2> QED BY <1>3, <2>2
<1> QED BY <1>1, <1>2, <1>3

\* Only MapBuffer makes a buffer.
LEMMA BufferStep ==
  ASSUME TypeOK, NEW d \in Client, NEW c \in Client,
         \/ Setup(d) \/ cleanup(d) \/ S3Returned(d) \/ Munmap(d) \/ Killed(d)
         \/ SrvHangup(d) \/ Control(d) \/ UNCHANGED vars,
         buf'[c] = "mapped"
  PROVE  buf[c] = "mapped"
<1>1. CASE Munmap(d) \/ Killed(d) \/ cleanup(d) \/ S3Returned(d)
  BY <1>1 DEF Munmap, Killed, cleanup, S3Returned, TypeOK
<1>2. CASE ~(Munmap(d) \/ Killed(d) \/ cleanup(d) \/ S3Returned(d))
  <2>1. buf' = buf
    BY <1>2 DEF Setup, AllocSession, ws_dial, ws_close, v_open_device,
       ibv_alloc_pd, ibv_create_cq, ibv_create_qp, ibv_reg_mr, Obtain,
       v_qp_to_init, v_qp_to_rtr, v_qp_to_rts, v_query_port, Modify,
       send_register_request, send_qpinfo_client, send_token, ws_send_text,
       recv_register_response, recv_qpinfo_server, ws_recv_text, Control,
       SrvRegister, SrvPair, SrvToken, SrvClosed, SrvHangup, clientVars, vars
  <2> QED BY <2>1
<1> QED BY <1>1, <1>2


----------------------------------------------------------------------------
(* The steps of the data path.                                             *)

\* A zeroed buffer, and a buffer with an object laid over it, are bytes.
LEMMA BufferTypes ==
  ASSUME NEW object \in Seq(Nat), NEW buffer \in Seq(Nat)
  PROVE  /\ Blank(object) \in Seq(Nat) /\ DOMAIN Blank(object) = DOMAIN object
         /\ Overlay(object, buffer) \in Seq(Nat)
<1>1. Len(object) \in Nat /\ object \in [1 .. Len(object) -> Nat]
  BY LenProperties
<1>2. Len(buffer) \in Nat /\ buffer \in [1 .. Len(buffer) -> Nat]
  BY LenProperties
<1>3. \A f, k : k \in Nat /\ f \in [1 .. k -> Nat] => f \in Seq(Nat)
  OBVIOUS
<1>4. Blank(object) \in [1 .. Len(object) -> Nat]
  BY <1>1 DEF Blank
<1>5. Overlay(object, buffer) \in [1 .. Len(buffer) -> Nat]
  BY <1>1, <1>2 DEF Overlay
<1> QED BY <1>1, <1>2, <1>3, <1>4, <1>5

\* A beginning of some bytes is bytes.
LEMMA PrefixTypes ==
  ASSUME NEW bytes \in Seq(Nat), NEW p \in Prefixes(bytes)
  PROVE  p \in Seq(Nat)
<1>1. PICK n \in 0 .. Len(bytes) : p = SubSeq(bytes, 1, n)
  BY DEF Prefixes
<1> QED BY <1>1

\* All of it is a beginning of it.
LEMMA WholePrefix ==
  ASSUME NEW bytes \in Seq(Nat)
  PROVE  bytes \in Prefixes(bytes)
<1>1. bytes = SubSeq(bytes, 1, Len(bytes)) /\ Len(bytes) \in 0 .. Len(bytes)
  OBVIOUS
<1> QED BY <1>1 DEF Prefixes

\* What s3rdmaget leaves: all of the buffer, a beginning of it, or nothing.
LEMMA Saves ==
  ASSUME NEW c \in Client, mem \in [Client -> Seq(Nat)], SaveFile(c)
  PROVE  /\ c \in Receivers /\ pc[c] = "munmap" /\ rc[c] = "ok"
         /\ UNCHANGED <<vars, mem, http, target, staged, store>>
         /\ \E bytes \in Seq(Nat) \cup {Absent},
              report \in {"saved", "unflushed", "failed"} :
              /\ out' = [out EXCEPT ![c] = bytes]
              /\ rc' = [rc EXCEPT ![c] = report]
              /\ report = "saved" => bytes = mem[c]
              /\ bytes \in Prefixes(mem[c]) \/ (report = "failed" /\ bytes = Absent)
<1>1. mem[c] \in Seq(Nat) /\ mem[c] \in Prefixes(mem[c])
  BY WholePrefix
<1>2. \A bytes \in Prefixes(mem[c]) : bytes \in Seq(Nat)
  BY <1>1, PrefixTypes
<1>3. CASE Leave(c, mem[c], "saved")
  BY <1>1, <1>3 DEF SaveFile, Leave
<1>4. CASE \E bytes \in Prefixes(mem[c]), report \in {"unflushed", "failed"} :
             Leave(c, bytes, report)
  BY <1>2, <1>4 DEF SaveFile, Leave
<1>5. CASE Leave(c, Absent, "failed")
  BY <1>5 DEF SaveFile, Leave
<1> QED BY <1>3, <1>4, <1>5 DEF SaveFile

\* What TInv says of the data path alone.
DataInv ==
  /\ mem    \in [Client -> Seq(Nat)]
  /\ http   \in [Client -> {"none", "sent", "moving", "staged", "done", "error"}]
  /\ target \in [Client -> Client \cup {NoClient}]
  /\ staged \in [Client -> Seq(Nat) \cup {Absent}]
  /\ store  \in [Key -> Seq(Nat) \cup {Absent}]
  /\ rc     \in [Client -> {"none", "ok", "failed", "saved", "unflushed"}]
  /\ out    \in [Client -> Seq(Nat) \cup {Absent}]
  /\ SendBufferIntact
  /\ \A c \in Client : RequestInv(c)
  /\ DistinctIds => StoreIsSound

\* What the programs do: only LoadFile and HeadAndMap touch a buffer.
LEMMA ProgramData ==
  ASSUME IInv, DataInv, NEW c \in Client,
         \/ LoadFile(c) \/ HeadAndMap(c) \/ SendS3(c) \/ S3Answered(c)
         \/ S3Lost(c) \/ SaveFile(c)
  PROVE  DataInv'
<1> USE DEF DataInv
<1>1. TypeOK
  BY DEF IInv
<1>2. CASE LoadFile(c)
  <2>1. mem' = [mem EXCEPT ![c] = IF buf'[c] = "mapped" THEN File[c] ELSE @]
    BY <1>2 DEF LoadFile
  <2>2. mem' \in [Client -> Seq(Nat)]
    BY <2>1, FileAssumption
  <2>3. buf' = [buf EXCEPT ![c] = "mapped"] \/ buf' = buf
    BY <1>2 DEF LoadFile, MapBuffer
  <2>4. SendBufferIntact'
    BY <1>1, <2>1, <2>3 DEF SendBufferIntact, Senders, TypeOK
  <2> QED BY <1>2, <2>2, <2>4 DEF LoadFile, RequestInv, StoreIsSound
<1>3. CASE HeadAndMap(c)
  <2>1. CASE buf'[c] # "mapped"
    <3>1. mem' = mem /\ buf' = buf
      BY <1>1, <1>3, <2>1 DEF HeadAndMap, MapBuffer, TypeOK
    <3> QED BY <1>3, <3>1 DEF HeadAndMap, RequestInv, StoreIsSound, SendBufferIntact
  <2>2. CASE buf'[c] = "mapped"
    <3>1. store[KeyOf[c]] \in Seq(Nat)
      BY <1>3, <2>2, KeyOfAssumption DEF HeadAndMap
    <3>2. mem' = [mem EXCEPT ![c] = Blank(store[KeyOf[c]])]
      BY <1>3, <2>2 DEF HeadAndMap
    <3>3. mem' \in [Client -> Seq(Nat)]
      BY <3>1, <3>2, BufferTypes
    <3>4. \A d \in Senders : d # c /\ buf'[d] = buf[d] /\ mem'[d] = mem[d]
      BY <1>1, <1>3, <3>2 DEF HeadAndMap, MapBuffer, Senders, TypeOK
    <3>5. SendBufferIntact'
      BY <3>4 DEF SendBufferIntact, Senders
    <3> QED BY <1>3, <3>3, <3>5 DEF HeadAndMap, RequestInv, StoreIsSound
  <2> QED BY <2>1, <2>2
<1>4. CASE SendS3(c)
  <2>1. SendBufferIntact'
    BY <1>4 DEF SendS3, SendBufferIntact, vars
  <2>2. \A d \in Client : RequestInv(d)'
    BY <1>4 DEF SendS3, RequestInv
  <2> QED BY <1>4, <2>1, <2>2 DEF SendS3, StoreIsSound
<1>5. CASE S3Answered(c) \/ S3Lost(c)
  <2>1. SendBufferIntact'
    BY <1>5 DEF S3Answered, S3Lost, S3Returned, SendBufferIntact
  <2>2. \A d \in Client : RequestInv(d)'
    BY <1>5 DEF S3Answered, S3Lost, RequestInv
  <2> QED BY <1>5, <2>1, <2>2 DEF S3Answered, S3Lost, StoreIsSound
<1>6. CASE SaveFile(c)
  <2>0. mem \in [Client -> Seq(Nat)]
    OBVIOUS
  <2>1. /\ c \in Receivers /\ UNCHANGED <<vars, mem, http, target, staged, store>>
        /\ out' \in [Client -> Seq(Nat) \cup {Absent}]
        /\ rc' \in [Client -> {"none", "ok", "failed", "saved", "unflushed"}]
        /\ \A d \in Senders : rc'[d] = rc[d]
    BY <1>6, <2>0, Saves DEF Senders
  <2>2. SendBufferIntact'
    BY <2>1 DEF SendBufferIntact, vars
  <2>3. \A d \in Client : RequestInv(d)'
    BY <2>1 DEF RequestInv
  <2>4. (DistinctIds => StoreIsSound)'
    BY <2>1 DEF StoreIsSound
  <2> QED BY <2>1, <2>2, <2>3, <2>4
<1> QED BY <1>2, <1>3, <1>4, <1>5, <1>6


\* What the server does with a request: it reads and writes only regions whose
\* rights allow it, and with distinct ids only the program's own.
LEMMA DataPathData ==
  ASSUME IInv, SenderRights, OwnerInv, DataInv, NEW c \in Client, DataPath(c)
  PROVE  DataInv'
<1> USE DEF DataInv
<1>1. TypeOK /\ \A d \in Client : CInv(d)
  BY DEF IInv
<1>2. UNCHANGED vars
  BY DEF DataPath, SrvStart, SrvReject, SrvRdmaRead, SrvStore, SrvRdmaWrite
<1>3. CASE SrvStart(c)
  <2>1. target' = [target EXCEPT ![c] = owner[RequestId[c]]]
        /\ owner[RequestId[c]] # NoClient
    BY <1>3 DEF SrvStart
  <2>2. owner[RequestId[c]] \in Client
    BY <1>1, <2>1, RequestIdAssumption DEF TypeOK
  <2>3. DistinctIds => owner[RequestId[c]] = c
    BY <2>2, RequestIdAssumption DEF OwnerInv, DistinctIds
  <2>4. \A d \in Client : RequestInv(d)'
    BY <1>3, <2>1, <2>2, <2>3 DEF SrvStart, Advance, RequestInv
  <2>5. SendBufferIntact'
    BY <1>2, <1>3 DEF SrvStart, SendBufferIntact, vars
  <2> QED BY <1>3, <2>1, <2>2, <2>4, <2>5 DEF SrvStart, Advance, StoreIsSound
<1>4. CASE SrvReject(c)
  <2>1. http' = [http EXCEPT ![c] = "error"] /\ http[c] # "done"
    BY <1>4 DEF SrvReject, Advance
  <2>2. \A d \in Client : RequestInv(d)'
    BY <1>4, <2>1 DEF SrvReject, RequestInv
  <2>3. SendBufferIntact'
    BY <1>2, <1>4 DEF SrvReject, SendBufferIntact, vars
  <2> QED BY <1>4, <2>1, <2>2, <2>3 DEF SrvReject, StoreIsSound
<1>5. CASE SrvRdmaRead(c)
  <2>1. target[c] \in Client
    BY <1>5 DEF SrvRdmaRead, Advance, RequestInv
  <2>4. pc[target[c]] \notin {"start", "exit"}
    BY <1>1, <1>5, <2>1 DEF SrvRdmaRead, Reachable, CInv, HoldInv
  <2>b. buf[target[c]] = "mapped"
    BY <1>1, <2>1, <2>4 DEF CInv, BufInv
  <2>2. staged' = [staged EXCEPT ![c] = mem[target[c]]]
    BY <1>5, <2>b DEF SrvRdmaRead, Readable
  <2>3. staged' \in [Client -> Seq(Nat) \cup {Absent}]
    BY <2>1, <2>2
  <2>5. DistinctIds => mem[target[c]] = File[c]
    <3>2. DistinctIds => target[c] = c
      BY <1>5 DEF SrvRdmaRead, Advance, RequestInv
    <3> QED BY <1>5, <2>b, <3>2 DEF SrvRdmaRead, SendBufferIntact, Senders
  <2>6. \A d \in Client : RequestInv(d)'
    BY <1>5, <2>2, <2>5 DEF SrvRdmaRead, Advance, RequestInv
  <2>7. SendBufferIntact'
    BY <1>2, <1>5 DEF SrvRdmaRead, SendBufferIntact, vars
  <2> QED BY <1>5, <2>3, <2>6, <2>7 DEF SrvRdmaRead, Advance, StoreIsSound
<1>6. CASE SrvStore(c)
  <2>1. c \in Senders /\ (DistinctIds => staged[c] = File[c])
    BY <1>6 DEF SrvStore, Advance, RequestInv
  <2>2. KeyOf[c] \in Key
    BY KeyOfAssumption
  <2>3. store' = [store EXCEPT ![KeyOf[c]] = staged[c]]
    BY <1>6 DEF SrvStore
  <2>4. \A d \in Client : RequestInv(d)'
    <3> SUFFICES ASSUME NEW d \in Client PROVE RequestInv(d)'
      OBVIOUS
    <3>1. CASE d = c
      BY <1>6, <2>1, <2>2, <2>3, <3>1 DEF SrvStore, Advance, RequestInv
    <3>2. CASE d # c
      <4>1. http'[d] = http[d]
        BY <1>6, <3>2 DEF SrvStore, Advance
      <4>2. d \in Senders /\ SoleWriter(d) => store'[KeyOf[d]] = store[KeyOf[d]]
        BY <2>1, <2>3, <3>2, KeyOfAssumption DEF SoleWriter
      <4> QED BY <1>6, <4>1, <4>2 DEF SrvStore, RequestInv
    <3> QED BY <3>1, <3>2
  <2>5. DistinctIds => StoreIsSound'
    BY <2>1, <2>2, <2>3 DEF StoreIsSound, Versions, Senders
  <2>6. SendBufferIntact'
    BY <1>2, <1>6 DEF SrvStore, SendBufferIntact, vars
  <2> QED BY <1>6, <2>2, <2>3, <2>4, <2>5, <2>6 DEF SrvStore, Advance
<1>7. CASE SrvRdmaWrite(c)
  <2>1. target[c] \in Client /\ c \in Receivers /\ http[c] = "moving"
    BY <1>7 DEF SrvRdmaWrite, Advance, RequestInv
  <2>2. mem' = [mem EXCEPT ![target[c]] = Overlay(store[KeyOf[c]], @)]
    BY <1>7 DEF SrvRdmaWrite
  <2>3. store[KeyOf[c]] \in Seq(Nat)
    BY <1>7, KeyOfAssumption DEF SrvRdmaWrite
  <2>4. mem' \in [Client -> Seq(Nat)]
    BY <2>1, <2>2, <2>3, BufferTypes
  <2>5. target[c] \notin Senders
    BY <1>7 DEF SrvRdmaWrite, Reachable, SenderRights
  <2>6. SendBufferIntact'
    BY <1>2, <2>2, <2>5 DEF SendBufferIntact, Senders, vars
  <2>7. \A d \in Client : RequestInv(d)'
    BY <1>7, <2>1 DEF SrvRdmaWrite, Advance, RequestInv, Senders
  <2> QED BY <1>7, <2>4, <2>6, <2>7 DEF SrvRdmaWrite, Advance, StoreIsSound
<1> QED BY <1>3, <1>4, <1>5, <1>6, <1>7 DEF DataPath


\* Every other step leaves the data alone, and makes no buffer.
LEMMA SessionData ==
  ASSUME IInv, DataInv, UNCHANGED dataVars,
         \/ \E d \in Client : \/ Setup(d) \/ cleanup(d) \/ Munmap(d) \/ Killed(d)
                              \/ SrvHangup(d) \/ Control(d)
         \/ UNCHANGED vars
  PROVE  DataInv'
<1>1. \A c \in Client : buf'[c] = "mapped" => buf[c] = "mapped"
  BY BufferStep DEF IInv
<1>2. SendBufferIntact'
  BY <1>1 DEF DataInv, SendBufferIntact, Senders, dataVars
<1>3. \A c \in Client : RequestInv(c)'
  BY DEF DataInv, RequestInv, dataVars
<1> QED BY <1>2, <1>3 DEF DataInv, StoreIsSound, dataVars

----------------------------------------------------------------------------
(* The theorems.                                                           *)

\* The inductive invariant of the data path, on top of that of the sessions.
THEOREM TransferInvariance == TransferSpec => [](IInv /\ TInv)
<1>1. TransferSpec => []IInv
  BY RefinesSession, Invariance, PTL DEF ImplementsSession
<1>2. TransferInit => TInv
  <2> SUFFICES ASSUME TransferInit PROVE TInv
    OBVIOUS
  <2>1. TypeOK
    BY DEF TransferInit, Init, TypeOK, Step, SetupStep
  <2>2. << >> \in Seq(Nat)
    OBVIOUS
  <2>3. TransferTypeOK
    BY <2>1, <2>2, InitStoreAssumption DEF TransferInit, TransferTypeOK
  <2>4. SenderRights /\ SendBufferIntact
    BY DEF TransferInit, Init, SenderRights, SendBufferIntact, Senders
  <2>5. OwnerInv
    BY NoClientAssumption DEF TransferInit, Init, OwnerInv
  <2>6. \A c \in Client : RequestInv(c)
    BY DEF TransferInit, RequestInv
  <2>7. StoreIsSound
    BY DEF TransferInit, StoreIsSound, Versions
  <2> QED BY <2>3, <2>4, <2>5, <2>6, <2>7 DEF TInv
<1>3. IInv /\ IInv' /\ TInv /\ [TransferNext]_transferVars => TInv'
  <2> SUFFICES ASSUME IInv, IInv', TInv, [TransferNext]_transferVars PROVE TInv'
    OBVIOUS
  <2>1. TypeOK /\ TypeOK' /\ DataInv
    BY DEF IInv, TInv, TransferTypeOK, DataInv
  <2>2. [Next]_vars
    BY StepRefines DEF transferVars
  <2>3. SenderRights' /\ OwnerInv'
    BY <2>1, <2>2, RightsStep, OwnerStep DEF TInv
  <2>4. DataInv'
    <3>1. CASE UNCHANGED transferVars \/ (Terminated /\ UNCHANGED dataVars)
      BY <2>1, <3>1, SessionData DEF Terminated, transferVars
    <3>2. CASE \E c \in Client : \/ Program(c) \/ DataPath(c) \/ Fault(c)
                                 \/ Control(c) /\ UNCHANGED dataVars
      <4>1. PICK c \in Client : \/ Program(c) \/ DataPath(c) \/ Fault(c)
                                \/ Control(c) /\ UNCHANGED dataVars
        BY <3>2
      <4>2. CASE \/ LoadFile(c) \/ HeadAndMap(c) \/ SendS3(c) \/ S3Answered(c)
                 \/ S3Lost(c) \/ SaveFile(c)
        BY <2>1, <4>2, ProgramData
      <4>3. CASE DataPath(c)
        BY <2>1, <4>3, DataPathData DEF TInv
      <4>4. CASE /\ UNCHANGED dataVars
                 /\ \/ Setup(c) \/ cleanup(c) \/ Munmap(c) \/ Killed(c)
                    \/ SrvHangup(c) \/ Control(c)
        BY <2>1, <4>4, SessionData
      <4> QED BY <4>1, <4>2, <4>3, <4>4 DEF Program, Fault, UnmapAndExit
    <3> QED BY <3>1, <3>2 DEF TransferNext
  <2> QED BY <2>1, <2>3, <2>4 DEF TInv, TransferTypeOK, DataInv
<1> QED BY <1>1, <1>2, <1>3, PTL DEF TransferSpec

\* The data of the programs and of the store keep their types.
THEOREM TransferTypes == TransferSpec => []TransferTypeOK
<1>1. TInv => TransferTypeOK
  BY DEF TInv
<1> QED BY <1>1, TransferInvariance, PTL

\* Whatever request ids are generated, nobody writes into the buffer of a put.
THEOREM SendBufferSafe == TransferSpec => []SendBufferIntact
<1>1. TInv => SendBufferIntact
  BY DEF TInv
<1> QED BY <1>1, TransferInvariance, PTL

\* With distinct request ids, an object is always what it was at first or the
\* whole of a file that was put under its key.
THEOREM StoreSound == ASSUME DistinctIds PROVE TransferSpec => []StoreIsSound
<1>1. TInv => StoreIsSound
  BY DEF TInv
<1> QED BY <1>1, TransferInvariance, PTL

\* With distinct request ids, a put that reported success is stored.
THEOREM AckedStored == ASSUME DistinctIds PROVE TransferSpec => []AckedPutIsStored
<1>1. TInv => AckedPutIsStored
  BY DEF TInv, RequestInv, AckedPutIsStored, SoleWriter, Senders
<1> QED BY <1>1, TransferInvariance, PTL

----------------------------------------------------------------------------
(* RdmaTransfer implements ObjectOps: through sessions, tokens and RDMA, a *)
(* run of s3rdmaput or s3rdmaget is one atomic operation on a whole        *)
(* object.                                                                 *)
(*                                                                         *)
(* Two assumptions are needed, and a configuration shows for each that the *)
(* result fails without it: the request ids differ, and the versions of an *)
(* object are of one size, because s3rdmaget sizes its buffer with a       *)
(* HeadObject of its own.                                                  *)

----------------------------------------------------------------------------
(* The invariant.                                                          *)

\* All versions of an object are equally long.
EqualSizes ==
  \A k \in Key : \A v, w \in Versions(k) \ {Absent} : DOMAIN v = DOMAIN w

\* Once the session is destroyed, and once it was set up.
Ended == {"cleanup", "munmap", "exit"}
AfterReady == {"ready"} \cup Ended

\* How far the program, its request and its report are.
Phases(c) ==
  /\ http[c] # "none" => pc[c] \in AfterReady
  /\ rc[c] # "none" => pc[c] \in Ended
  /\ rc[c] \in {"ok", "saved", "unflushed"} => http[c] = "done"
  /\ rc[c] \in {"saved", "unflushed"} => c \in Receivers
  /\ out[c] # Absent =>
       /\ rc[c] \in {"saved", "unflushed", "failed"} /\ http[c] = "done"
       /\ c \in Receivers

\* The buffer of a get: as long as some version, and a version once it is
\* filled; that is also what was saved, or a beginning of it.
GetBuffer(c) ==
  /\ buf[c] = "mapped" =>
       \E v \in Versions(KeyOf[c]) : v # Absent /\ DOMAIN mem[c] = DOMAIN v
  /\ http[c] = "done" => mem[c] \in Versions(KeyOf[c]) \ {Absent}
  /\ rc[c] = "saved" => out[c] = mem[c]
  /\ out[c] # Absent => out[c] \in Prefixes(mem[c])

OInv ==
  /\ \A c \in Client : Phases(c)
  /\ DistinctIds /\ EqualSizes => \A c \in Receivers : GetBuffer(c)

----------------------------------------------------------------------------
(* What the sessions do to the step a program is at.                       *)

\* No program takes up again what it has finished.
Forward(p, q) ==
  /\ p \in AfterReady => q \in AfterReady
  /\ p \in Ended => q \in Ended
  /\ p = "exit" => q = "exit"

\* A step of a session moves one program, and forward.
LEMMA PcStep ==
  ASSUME TypeOK, NEW d \in Client,
         Process(d) \/ Killed(d) \/ Control(d) \/ SrvHangup(d)
  PROVE  /\ Forward(pc[d], pc'[d])
         /\ \A c \in Client : c # d => pc'[c] = pc[c]
<1> USE DEF TypeOK, Forward, AfterReady, Ended, Goto
<1>1. CASE MapBuffer(d) \/ AllocSession(d) \/ ws_dial(d) \/ ws_close(d) \/ v_query_port(d)
  BY <1>1 DEF MapBuffer, AllocSession, ws_dial, ws_close, v_query_port
<1>2. CASE \/ v_open_device(d) \/ ibv_alloc_pd(d) \/ ibv_create_cq(d)
           \/ ibv_create_qp(d) \/ ibv_reg_mr(d)
  BY <1>2 DEF v_open_device, ibv_alloc_pd, ibv_create_cq, ibv_create_qp,
              ibv_reg_mr, Obtain
<1>3. CASE v_qp_to_init(d) \/ v_qp_to_rtr(d) \/ v_qp_to_rts(d)
  BY <1>3 DEF v_qp_to_init, v_qp_to_rtr, v_qp_to_rts, Modify
<1>4. CASE send_register_request(d) \/ send_qpinfo_client(d) \/ send_token(d)
  BY <1>4 DEF send_register_request, send_qpinfo_client, send_token, ws_send_text
<1>5. CASE recv_register_response(d) \/ recv_qpinfo_server(d)
  BY <1>5 DEF recv_register_response, recv_qpinfo_server, ws_recv_text
<1>6. CASE S3Returned(d) \/ Munmap(d) \/ cleanup(d)
  BY <1>6 DEF S3Returned, Munmap, cleanup
<1>7. CASE Killed(d)
  BY <1>7 DEF Killed
<1>8. CASE Control(d) \/ SrvHangup(d)
  <2>1. UNCHANGED pc
    BY <1>8 DEF Control, SrvRegister, SrvPair, SrvToken, SrvClosed, SrvHangup, clientVars
  <2> QED BY <2>1
<1> QED BY <1>1, <1>2, <1>3, <1>4, <1>5, <1>6, <1>7, <1>8 DEF Process, Setup

----------------------------------------------------------------------------
(* Every step keeps the invariant.                                         *)

\* An object laid over a buffer of its own length fills it.
LEMMA OverlayWhole ==
  ASSUME NEW object \in Seq(Nat), NEW buffer, DOMAIN object = DOMAIN buffer
  PROVE  Overlay(object, buffer) = object
<1>1. Len(object) \in Nat /\ object \in [1 .. Len(object) -> Nat]
  BY LenProperties
<1>2. Overlay(object, buffer) = [i \in 1 .. Len(object) |-> object[i]]
  BY <1>1 DEF Overlay
<1> QED BY <1>1, <1>2

\* An object that is there is as long as the buffer of every get of it.
LEMMA BufferFits ==
  ASSUME DistinctIds, EqualSizes, TInv, OInv, NEW c \in Receivers,
         buf[c] = "mapped", store[KeyOf[c]] # Absent
  PROVE  DOMAIN store[KeyOf[c]] = DOMAIN mem[c]
<1>1. c \in Client /\ KeyOf[c] \in Key
  BY ReceiversAssumption, KeyOfAssumption
<1>2. PICK v \in Versions(KeyOf[c]) : v # Absent /\ DOMAIN mem[c] = DOMAIN v
  BY DEF OInv, GetBuffer
<1>3. store[KeyOf[c]] \in Versions(KeyOf[c])
  BY <1>1 DEF TInv, StoreIsSound
<1> QED BY <1>1, <1>2, <1>3 DEF EqualSizes

\* The data is left alone: the programs only move forward.
LEMMA SessionOInv ==
  ASSUME IInv, OInv, UNCHANGED dataVars,
         \/ \E d \in Client : \/ Setup(d) \/ cleanup(d) \/ Munmap(d) \/ Killed(d)
                              \/ SrvHangup(d) \/ Control(d)
         \/ UNCHANGED vars
  PROVE  OInv'
<1>1. TypeOK
  BY DEF IInv
<1>2. \A c \in Client : buf'[c] = "mapped" => buf[c] = "mapped"
  BY <1>1, BufferStep
<1>3. \A c \in Client : Forward(pc[c], pc'[c])
  <2>1. CASE UNCHANGED vars
    BY <2>1 DEF vars, Forward
  <2>2. ASSUME NEW d \in Client, \/ Setup(d) \/ cleanup(d) \/ Munmap(d) \/ Killed(d)
                                 \/ SrvHangup(d) \/ Control(d)
        PROVE  \A c \in Client : Forward(pc[c], pc'[c])
    BY <1>1, <2>2, PcStep DEF Process, Forward
  <2> QED BY <2>1, <2>2
<1>4. \A c \in Client : Phases(c)'
  BY <1>3 DEF OInv, Phases, dataVars, Forward
<1>5. DistinctIds /\ EqualSizes => \A c \in Receivers : GetBuffer(c)'
  BY <1>2, ReceiversAssumption DEF OInv, GetBuffer, dataVars
<1> QED BY <1>4, <1>5 DEF OInv

\* The steps of a program.
LEMMA ProgramOInv ==
  ASSUME IInv, TInv, OInv, NEW d \in Client,
         \/ LoadFile(d) \/ HeadAndMap(d) \/ SendS3(d) \/ S3Answered(d)
         \/ S3Lost(d) \/ SaveFile(d)
  PROVE  OInv'
<1>0. /\ TypeOK /\ mem \in [Client -> Seq(Nat)] /\ KeyOf[d] \in Key
      /\ http \in [Client -> {"none", "sent", "moving", "staged", "done", "error"}]
      /\ rc \in [Client -> {"none", "ok", "failed", "saved", "unflushed"}]
      /\ out \in [Client -> Seq(Nat) \cup {Absent}]
      /\ Receivers \subseteq Client /\ pc \in [Client -> Step]
      /\ buf \in [Client -> {"none", "mapped"}]
      /\ \A c \in Client : Phases(c)
  BY KeyOfAssumption, ReceiversAssumption DEF TInv, TransferTypeOK, TypeOK, OInv
<1>1. CASE LoadFile(d) \/ HeadAndMap(d)
  <2>1. /\ pc[d] = "start" /\ UNCHANGED <<http, target, staged, store, rc, out>>
        /\ \A c \in Client : c # d => pc'[c] = pc[c] /\ buf'[c] = buf[c] /\ mem'[c] = mem[c]
    BY <1>0, <1>1 DEF LoadFile, HeadAndMap, MapBuffer, Goto
  <2>2. http[d] = "none" /\ rc[d] = "none"
    BY <1>0, <2>1 DEF Phases, AfterReady, Ended
  <2>3. \A c \in Client : Phases(c)'
    BY <1>0, <2>1, <2>2 DEF Phases
  <2>4. ASSUME DistinctIds, EqualSizes, NEW c \in Receivers PROVE GetBuffer(c)'
    <3>1. GetBuffer(c) /\ c \in Client
      BY <1>0, <2>4 DEF OInv
    <3>2. CASE c # d
      BY <2>1, <3>1, <3>2 DEF GetBuffer
    <3>3. CASE c = d
      <4>1. HeadAndMap(d) /\ store[KeyOf[d]] \in Versions(KeyOf[d])
        BY <1>0, <1>1, <2>4, <3>3 DEF LoadFile, Senders, TInv, StoreIsSound
      <4>2. buf'[d] = "mapped" =>
              /\ store[KeyOf[d]] # Absent
              /\ mem'[d] = Blank(store[KeyOf[d]])
        BY <1>0, <4>1 DEF HeadAndMap
      <4>3. buf'[d] = "mapped" => DOMAIN mem'[d] = DOMAIN store[KeyOf[d]]
        BY <4>2 DEF Blank
      <4>4. buf'[d] = "mapped" =>
              \E v \in Versions(KeyOf[d]) : v # Absent /\ DOMAIN mem'[d] = DOMAIN v
        BY <4>1, <4>2, <4>3
      <4>5. http'[d] = "none" /\ rc'[d] = "none" /\ out'[d] = Absent
        BY <1>0, <2>1, <2>2 DEF Phases
      <4> QED BY <3>3, <4>4, <4>5 DEF GetBuffer, Versions
    <3> QED BY <3>2, <3>3
  <2> QED BY <2>3, <2>4 DEF OInv
<1>2. CASE SendS3(d)
  <2>1. /\ pc[d] = "ready" /\ http' = [http EXCEPT ![d] = "sent"] /\ http[d] = "none"
        /\ UNCHANGED <<pc, buf, mem, rc, out, store>>
    BY <1>2 DEF SendS3, vars
  <2>2. \A c \in Client : Phases(c)'
    BY <1>0, <2>1 DEF Phases, AfterReady
  <2>3. DistinctIds /\ EqualSizes => \A c \in Receivers : GetBuffer(c)'
    BY <1>0, <2>1 DEF OInv, GetBuffer
  <2> QED BY <2>2, <2>3 DEF OInv
<1>3. CASE S3Answered(d) \/ S3Lost(d)
  <2>1. /\ pc[d] = "ready" /\ pc' = [pc EXCEPT ![d] = "cleanup"]
        /\ rc' = [rc EXCEPT ![d] = rc'[d]] /\ rc'[d] \in {"ok", "failed"}
        /\ rc'[d] = "ok" => http[d] = "done"
        /\ UNCHANGED <<buf, mem, http, out, store>>
    BY <1>0, <1>3 DEF S3Answered, S3Lost, S3Returned, Goto
  <2>2. rc[d] = "none"
    BY <1>0, <2>1 DEF Phases, Ended
  <2>3. \A c \in Client : Phases(c)'
    BY <1>0, <2>1, <2>2 DEF Phases, AfterReady, Ended
  <2>4. DistinctIds /\ EqualSizes => \A c \in Receivers : GetBuffer(c)'
    BY <1>0, <2>1 DEF OInv, GetBuffer
  <2> QED BY <2>3, <2>4 DEF OInv
<1>4. CASE SaveFile(d)
  <2>1. /\ d \in Receivers /\ pc[d] = "munmap" /\ rc[d] = "ok"
        /\ UNCHANGED <<pc, buf, mem, http, store>>
    BY <1>0, <1>4, Saves DEF vars
  <2>2. PICK bytes \in Seq(Nat) \cup {Absent},
             report \in {"saved", "unflushed", "failed"} :
          /\ out' = [out EXCEPT ![d] = bytes]
          /\ rc' = [rc EXCEPT ![d] = report]
          /\ report = "saved" => bytes = mem[d]
          /\ bytes \in Prefixes(mem[d]) \/ (report = "failed" /\ bytes = Absent)
    BY <1>0, <1>4, Saves
  <2>3. \A c \in Client : Phases(c)'
    BY <1>0, <2>1, <2>2 DEF Phases, AfterReady, Ended
  <2>4. DistinctIds /\ EqualSizes => \A c \in Receivers : GetBuffer(c)'
    BY <1>0, <2>1, <2>2 DEF OInv, GetBuffer
  <2> QED BY <2>3, <2>4 DEF OInv
<1> QED BY <1>1, <1>2, <1>3, <1>4

\* The steps of the server's data path.
LEMMA DataPathOInv ==
  ASSUME IInv, TInv, OInv, NEW d \in Client, DataPath(d)
  PROVE  OInv'
<1>0. /\ TypeOK /\ mem \in [Client -> Seq(Nat)] /\ KeyOf[d] \in Key
      /\ http \in [Client -> {"none", "sent", "moving", "staged", "done", "error"}]
      /\ Receivers \subseteq Client
      /\ store \in [Key -> Seq(Nat) \cup {Absent}]
      /\ \A c \in Client : Phases(c) /\ RequestInv(c)
  BY KeyOfAssumption, ReceiversAssumption DEF TInv, TransferTypeOK, OInv
<1>1. UNCHANGED <<pc, buf, rc, out>>
  BY DEF DataPath, SrvStart, SrvReject, SrvRdmaRead, SrvStore, SrvRdmaWrite, vars
<1>2. /\ http[d] \in {"sent", "moving", "staged"} /\ http' = [http EXCEPT ![d] = http'[d]]
      /\ http'[d] # "none"
  BY <1>0 DEF DataPath, SrvStart, SrvReject, SrvRdmaRead, SrvStore, SrvRdmaWrite, Advance
<1>3. \A c \in Client : Phases(c)'
  BY <1>0, <1>1, <1>2 DEF Phases
<1>4. CASE SrvStart(d) \/ SrvReject(d) \/ SrvRdmaRead(d)
  <2>1. mem' = mem /\ http'[d] # "done"
    BY <1>0, <1>4 DEF SrvStart, SrvReject, SrvRdmaRead, Advance
  <2>2. DistinctIds /\ EqualSizes => \A c \in Receivers : GetBuffer(c)'
    BY <1>0, <1>1, <1>2, <2>1 DEF OInv, GetBuffer
  <2> QED BY <1>3, <2>2 DEF OInv
<1>5. CASE SrvStore(d)
  <2>1. mem' = mem /\ d \notin Receivers
    BY <1>0, <1>5 DEF SrvStore, Advance, RequestInv, Senders
  <2>2. DistinctIds /\ EqualSizes => \A c \in Receivers : GetBuffer(c)'
    BY <1>0, <1>1, <1>2, <2>1 DEF OInv, GetBuffer
  <2> QED BY <1>3, <2>2 DEF OInv
<1>6. CASE SrvRdmaWrite(d)
  <2>1. ASSUME DistinctIds, EqualSizes, NEW c \in Receivers PROVE GetBuffer(c)'
    <3>1. /\ target[d] = d /\ d \in Receivers /\ store[KeyOf[d]] # Absent
          /\ "mr" \in res[d]
          /\ mem' = [mem EXCEPT ![d] = Overlay(store[KeyOf[d]], @)]
      BY <1>0, <1>6, <2>1 DEF SrvRdmaWrite, Advance, RequestInv, Reachable
    <3>2. buf[d] = "mapped"
      BY <3>1 DEF IInv, CInv, HoldInv, BufInv
    <3>3. DOMAIN store[KeyOf[d]] = DOMAIN mem[d]
      BY <2>1, <3>1, <3>2, BufferFits
    <3>4. mem'[d] = store[KeyOf[d]] /\ store[KeyOf[d]] \in Versions(KeyOf[d])
      BY <1>0, <2>1, <3>1, <3>3, OverlayWhole DEF TInv, StoreIsSound
    <3>5. GetBuffer(c) /\ c \in Client
      BY <1>0, <2>1 DEF OInv
    <3>6. CASE c = d
      <4>1. rc[d] # "saved" /\ out[d] = Absent
        BY <1>0, <1>2 DEF Phases
      <4> QED BY <1>1, <3>1, <3>4, <3>6, <4>1 DEF GetBuffer, Versions
    <3>7. CASE c # d
      <4>1. mem'[c] = mem[c] /\ http'[c] = http[c]
        BY <1>0, <1>2, <3>1, <3>5, <3>7
      <4> QED BY <1>1, <3>5, <4>1 DEF GetBuffer, Versions
    <3> QED BY <3>6, <3>7
  <2> QED BY <1>3, <2>1 DEF OInv
<1> QED BY <1>4, <1>5, <1>6 DEF DataPath

----------------------------------------------------------------------------
(* The invariant holds.                                                    *)

\* The inductive invariant of the operations, on top of that of the data path.
THEOREM AtomicityInvariance == TransferSpec => [](IInv /\ TInv /\ OInv)
<1>1. TransferInit => OInv
  <2> SUFFICES ASSUME TransferInit PROVE OInv
    OBVIOUS
  <2>1. \A c \in Client : Phases(c)
    BY DEF TransferInit, Init, Phases
  <2>2. \A c \in Receivers : GetBuffer(c)
    BY ReceiversAssumption DEF TransferInit, Init, GetBuffer
  <2> QED BY <2>1, <2>2 DEF OInv
<1>2. IInv /\ TInv /\ OInv /\ [TransferNext]_transferVars => OInv'
  <2> SUFFICES ASSUME IInv, TInv, OInv, [TransferNext]_transferVars PROVE OInv'
    OBVIOUS
  <2>1. CASE UNCHANGED transferVars \/ (Terminated /\ UNCHANGED dataVars)
    BY <2>1, SessionOInv DEF Terminated, transferVars
  <2>2. CASE \E d \in Client : \/ Program(d) \/ DataPath(d) \/ Fault(d)
                               \/ Control(d) /\ UNCHANGED dataVars
    <3>1. PICK d \in Client : \/ Program(d) \/ DataPath(d) \/ Fault(d)
                              \/ Control(d) /\ UNCHANGED dataVars
      BY <2>2
    <3>2. CASE \/ LoadFile(d) \/ HeadAndMap(d) \/ SendS3(d) \/ S3Answered(d)
               \/ S3Lost(d) \/ SaveFile(d)
      BY <3>2, ProgramOInv
    <3>3. CASE DataPath(d)
      BY <3>3, DataPathOInv
    <3>4. CASE /\ UNCHANGED dataVars
               /\ \/ Setup(d) \/ cleanup(d) \/ Munmap(d) \/ Killed(d)
                  \/ SrvHangup(d) \/ Control(d)
      BY <3>4, SessionOInv
    <3> QED BY <3>1, <3>2, <3>3, <3>4 DEF Program, Fault, UnmapAndExit
  <2> QED BY <2>1, <2>2 DEF TransferNext
<1> QED BY <1>1, <1>2, TransferInvariance, PTL DEF TransferSpec

\* With distinct request ids and versions of one size, the file s3rdmaget
\* leaves is a version of the object, or where a write failed, fclose's
\* unnoticed one included, a beginning of a version.
THEOREM SavedIsVersion ==
  ASSUME DistinctIds, EqualSizes
  PROVE  TransferSpec => []SavedFileIsAVersion
<1>1. OInv => SavedFileIsAVersion
  <2> SUFFICES ASSUME OInv, NEW c \in Client
               PROVE  /\ rc[c] = "saved" => out[c] \in Versions(KeyOf[c])
                      /\ out[c] # Absent =>
                           \E v \in Versions(KeyOf[c]) \ {Absent} : out[c] \in Prefixes(v)
    BY DEF SavedFileIsAVersion
  <2>1. CASE c \in Receivers
    <3>1. Phases(c) /\ GetBuffer(c)
      BY <2>1 DEF OInv
    <3>2. rc[c] = "saved" => out[c] \in Versions(KeyOf[c])
      BY <3>1 DEF Phases, GetBuffer
    <3>3. ASSUME out[c] # Absent
          PROVE  mem[c] \in Versions(KeyOf[c]) \ {Absent} /\ out[c] \in Prefixes(mem[c])
      BY <3>1, <3>3 DEF Phases, GetBuffer
    <3> QED BY <3>2, <3>3
  <2>2. CASE c \notin Receivers
    <3>1. Phases(c)
      BY DEF OInv
    <3> QED BY <2>2, <3>1 DEF Phases
  <2> QED BY <2>1, <2>2
<1> QED BY <1>1, AtomicityInvariance, PTL

----------------------------------------------------------------------------
(* The operations.                                                         *)

\* What ObjectOps sees of a state.
Applied == [c \in Client |-> http[c] = "done"]
Value   == [c \in Client |-> IF c \in Receivers /\ http[c] = "done"
                             THEN mem[c] ELSE Absent]
Results == [c \in Client |-> Result(c)]

\* What a request has done, and seen, as long as the server is not done.
LEMMA SameEffect ==
  ASSUME \A c \in Client :
           /\ http'[c] = "done" <=> http[c] = "done"
           /\ http[c] = "done" => mem'[c] = mem[c]
  PROVE  Applied' = Applied /\ Value' = Value
<1>1. Applied' = Applied
  BY Zenon DEF Applied
<1>2. Value' = Value
  BY DEF Value
<1> QED BY <1>1, <1>2

\* The programs whose report stays the same.
LEMMA SameResults ==
  ASSUME \A c \in Client : Result(c)' = Result(c)
  PROVE  Results' = Results
BY DEF Results

\* One program's report.
LEMMA NewResult ==
  ASSUME NEW d \in Client, \A c \in Client : c # d => Result(c)' = Result(c)
  PROVE  Results' = [Results EXCEPT ![d] = Result(d)']
BY DEF Results

\* One operation takes effect.
LEMMA NewEffect ==
  ASSUME NEW d \in Client, http[d] # "done", http'[d] = "done",
         \A c \in Client : c # d => http'[c] = http[c] /\ mem'[c] = mem[c]
  PROVE  /\ Applied' = [Applied EXCEPT ![d] = TRUE]
         /\ Value' = [Value EXCEPT ![d] = IF d \in Receivers THEN mem'[d] ELSE Absent]
<1>1. Applied' = [Applied EXCEPT ![d] = TRUE]
  BY Zenon DEF Applied
<1>2. Value' = [Value EXCEPT ![d] = IF d \in Receivers THEN mem'[d] ELSE Absent]
  BY DEF Value
<1> QED BY <1>1, <1>2

\* A program that reports a failure, and one that reports nothing new.
LEMMA FailsOrStays ==
  ASSUME NEW d \in Client, UNCHANGED <<store, out>>,
         \A c \in Client : c # d => Result(c)' = Result(c),
         \/ Result(d)' = Result(d)
         \/ Result(d) = "running" /\ Result(d)' = "failed",
         \A c \in Client :
           /\ http'[c] = "done" <=> http[c] = "done"
           /\ http[c] = "done" => mem'[c] = mem[c]
  PROVE  [Ops!OpsNext]_(Ops!opVars)
<1>1. Applied' = Applied /\ Value' = Value
  BY SameEffect
<1>2. CASE Result(d)' = Result(d)
  <2>1. Results' = Results
    BY <1>2, SameResults
  <2>2. UNCHANGED Ops!opVars
    BY <1>1, <2>1 DEF Ops!opVars, Applied, Value, Results
  <2> QED BY <2>2
<1>3. CASE Result(d) = "running" /\ Result(d)' = "failed"
  <2>1. Results' = [Results EXCEPT ![d] = "failed"] /\ Results[d] = "running"
    BY <1>3, NewResult DEF Results
  <2>2. Ops!Fail(d)
    BY <1>1, <2>1 DEF Ops!Fail, Applied, Value, Results
  <2> QED BY <2>2 DEF Ops!OpsNext
<1> QED BY <1>2, <1>3

\* The sessions: a program that ends before its S3 call has failed.
LEMMA SessionOp ==
  ASSUME IInv, OInv, UNCHANGED dataVars,
         \/ \E d \in Client : \/ Setup(d) \/ cleanup(d) \/ Killed(d)
                              \/ SrvHangup(d) \/ Control(d) \/ UnmapAndExit(d)
         \/ UNCHANGED vars
  PROVE  [Ops!OpsNext]_(Ops!opVars)
<1>1. CASE UNCHANGED vars
  <2>1. \A c \in Client : Result(c)' = Result(c)
    BY <1>1 DEF Result, vars, dataVars
  <2>2. Results' = Results /\ Applied' = Applied /\ Value' = Value
    BY <2>1, SameResults, SameEffect DEF dataVars
  <2> QED BY <2>2 DEF Ops!opVars, Applied, Value, Results, dataVars
<1>2. ASSUME NEW d \in Client, \/ Setup(d) \/ cleanup(d) \/ Killed(d)
                               \/ SrvHangup(d) \/ Control(d) \/ UnmapAndExit(d)
      PROVE  [Ops!OpsNext]_(Ops!opVars)
  <2>1. /\ Forward(pc[d], pc'[d])
        /\ \A c \in Client : c # d => pc'[c] = pc[c]
    BY <1>2, PcStep DEF IInv, Process, UnmapAndExit
  <2>2. \A c \in Client : c # d => Result(c)' = Result(c)
    BY <2>1 DEF Result, dataVars
  <2>3. \/ Result(d)' = Result(d)
        \/ Result(d) = "running" /\ Result(d)' = "failed"
    BY <2>1 DEF Result, dataVars, Forward
  <2> QED BY <2>2, <2>3, FailsOrStays DEF dataVars
<1> QED BY <1>1, <1>2

\* ObjectOps means the same beginnings.
LEMMA OpsPrefixes == \A bytes : Ops!Prefixes(bytes) = Prefixes(bytes)
BY DEF Ops!Prefixes, Prefixes

\* The programs: what an answer, or a saved file, makes them report.
LEMMA ProgramOp ==
  ASSUME IInv, TInv, OInv, NEW d \in Client,
         \/ LoadFile(d) \/ HeadAndMap(d) \/ SendS3(d) \/ S3Answered(d)
         \/ S3Lost(d) \/ SaveFile(d)
  PROVE  [Ops!OpsNext]_(Ops!opVars)
<1>0. /\ TypeOK /\ mem \in [Client -> Seq(Nat)]
      /\ http \in [Client -> {"none", "sent", "moving", "staged", "done", "error"}]
      /\ rc \in [Client -> {"none", "ok", "failed", "saved", "unflushed"}]
      /\ out \in [Client -> Seq(Nat) \cup {Absent}]
      /\ pc \in [Client -> Step] /\ Phases(d)
  BY DEF TInv, TransferTypeOK, TypeOK, OInv
<1>1. CASE LoadFile(d) \/ HeadAndMap(d)
  <2>1. /\ pc[d] = "start" /\ pc'[d] \in {"calloc", "exit"}
        /\ UNCHANGED <<http, target, staged, store, rc, out>>
        /\ \A c \in Client : c # d => pc'[c] = pc[c] /\ mem'[c] = mem[c]
    BY <1>0, <1>1 DEF LoadFile, HeadAndMap, MapBuffer, Goto
  <2>2. http[d] = "none" /\ rc[d] = "none"
    BY <1>0, <2>1 DEF Phases, AfterReady, Ended
  <2>3. \A c \in Client : c # d => Result(c)' = Result(c)
    BY <2>1 DEF Result
  <2>4. \/ Result(d)' = Result(d)
        \/ Result(d) = "running" /\ Result(d)' = "failed"
    BY <2>1, <2>2 DEF Result
  <2>5. \A c \in Client : /\ http'[c] = "done" <=> http[c] = "done"
                          /\ http[c] = "done" => mem'[c] = mem[c]
    BY <2>1, <2>2
  <2> QED BY <2>1, <2>3, <2>4, <2>5, FailsOrStays
<1>2. CASE SendS3(d)
  <2>1. /\ http' = [http EXCEPT ![d] = "sent"] /\ http[d] = "none"
        /\ UNCHANGED <<pc, mem, rc, out, store>>
    BY <1>2 DEF SendS3, vars
  <2>2. \A c \in Client : Result(c)' = Result(c)
    BY <2>1 DEF Result
  <2>3. \A c \in Client : /\ http'[c] = "done" <=> http[c] = "done"
                          /\ mem'[c] = mem[c]
    BY <1>0, <2>1
  <2> QED BY <2>1, <2>2, <2>3, FailsOrStays
<1>3. CASE S3Answered(d) \/ S3Lost(d)
  <2>1. /\ pc[d] = "ready" /\ pc' = [pc EXCEPT ![d] = "cleanup"]
        /\ rc' = [rc EXCEPT ![d] = rc'[d]] /\ rc'[d] \in {"ok", "failed"}
        /\ rc'[d] = "ok" => http[d] = "done"
        /\ UNCHANGED <<mem, http, out, store>>
    BY <1>0, <1>3 DEF S3Answered, S3Lost, S3Returned, Goto
  <2>2. rc[d] = "none"
    BY <1>0, <2>1 DEF Phases, Ended
  <2>3. \A c \in Client : c # d => Result(c)' = Result(c)
    BY <1>0, <2>1 DEF Result
  <2>4. CASE rc'[d] = "failed" \/ d \in Receivers
    <3>1. \/ Result(d)' = Result(d)
          \/ Result(d) = "running" /\ Result(d)' = "failed"
      BY <1>0, <2>1, <2>2, <2>4 DEF Result
    <3> QED BY <2>1, <2>3, <3>1, FailsOrStays
  <2>5. CASE rc'[d] = "ok" /\ d \notin Receivers
    <3>1. Result(d) = "running" /\ Result(d)' = "ok"
      BY <1>0, <2>1, <2>2, <2>5 DEF Result
    <3>2. Results' = [Results EXCEPT ![d] = "ok"] /\ Results[d] = "running"
      BY <2>3, <3>1, NewResult DEF Results
    <3>3. Applied' = Applied /\ Value' = Value
      BY <2>1, SameEffect
    <3>4. Value[d] = Absent /\ out[d] = Absent
      BY <1>0, <2>2, <2>5 DEF Value, Phases
    <3>5. out' = [out EXCEPT ![d] = Value[d]]
      BY <1>0, <2>1, <3>4
    <3>6. Applied[d]
      BY <2>1, <2>5 DEF Applied
    <3>7. Ops!Succeed(d)
      BY <2>1, <3>2, <3>3, <3>5, <3>6 DEF Ops!Succeed, Applied, Value, Results
    <3> QED BY <3>7 DEF Ops!OpsNext
  <2> QED BY <2>1, <2>4, <2>5
<1>4. CASE SaveFile(d)
  <2>1. /\ d \in Receivers /\ pc[d] = "munmap" /\ rc[d] = "ok"
        /\ UNCHANGED <<pc, mem, http, store>>
    BY <1>0, <1>4, Saves DEF vars
  <2>a. PICK bytes \in Seq(Nat) \cup {Absent},
             report \in {"saved", "unflushed", "failed"} :
          /\ out' = [out EXCEPT ![d] = bytes]
          /\ rc' = [rc EXCEPT ![d] = report]
          /\ report = "saved" => bytes = mem[d]
          /\ bytes \in Prefixes(mem[d]) \/ (report = "failed" /\ bytes = Absent)
    BY <1>0, <1>4, Saves
  <2>2. /\ http[d] = "done" /\ Result(d) = "running" /\ out[d] = Absent
    BY <1>0, <2>1 DEF Phases, Result
  <2>3. \A c \in Client : c # d => Result(c)' = Result(c)
    BY <1>0, <2>1, <2>a DEF Result
  <2>4. Applied' = Applied /\ Value' = Value
    BY <2>1, SameEffect
  <2>5. Value[d] = mem[d] /\ Applied[d]
    BY <2>1, <2>2 DEF Value, Applied
  <2>6. CASE report = "failed"
    <3>1. Result(d)' = "failed"
      BY <1>0, <2>1, <2>a, <2>6 DEF Result
    <3>2. Results' = [Results EXCEPT ![d] = "failed"] /\ Results[d] = "running"
      BY <2>2, <2>3, <3>1, NewResult DEF Results
    <3>3. CASE bytes = Absent
      <4>1. out' = out
        BY <1>0, <2>2, <2>a, <3>3
      <4>2. Ops!Fail(d)
        BY <2>1, <2>4, <3>2, <4>1 DEF Ops!Fail, Applied, Value, Results
      <4> QED BY <4>2 DEF Ops!OpsNext
    <3>a. CASE bytes \in Prefixes(mem[d])
      <4>1. \E b \in Prefixes(Value[d]) : out' = [out EXCEPT ![d] = b]
        BY <2>5, <2>a, <3>a
      <4>2. Ops!CutFile(d)
        BY <2>1, <2>5, <4>1, OpsPrefixes DEF Ops!CutFile, Applied, Value
      <4>3. Ops!Fail(d)
        BY <2>1, <2>4, <3>2, <4>2 DEF Ops!Fail, Applied, Value, Results
      <4> QED BY <4>3 DEF Ops!OpsNext
    <3> QED BY <2>a, <3>3, <3>a
  <2>7. CASE report \in {"saved", "unflushed"}
    <3>1. Result(d)' = "ok"
      BY <1>0, <2>1, <2>a, <2>7 DEF Result
    <3>2. Results' = [Results EXCEPT ![d] = "ok"] /\ Results[d] = "running"
      BY <2>2, <2>3, <3>1, NewResult DEF Results
    <3>3. CASE report = "saved"
      <4>1. out' = [out EXCEPT ![d] = Value[d]]
        BY <2>5, <2>a, <3>3
      <4>2. Ops!Succeed(d)
        BY <2>1, <2>4, <2>5, <3>2, <4>1 DEF Ops!Succeed, Applied, Value, Results
      <4> QED BY <4>2 DEF Ops!OpsNext
    <3>4. CASE report = "unflushed"
      <4>1. \E b \in Prefixes(Value[d]) : out' = [out EXCEPT ![d] = b]
        BY <2>5, <2>a, <3>4
      <4>2. Ops!CutFile(d)
        BY <2>1, <2>5, <4>1, OpsPrefixes DEF Ops!CutFile, Applied, Value
      <4>3. Ops!SucceedCut(d)
        BY <2>1, <2>4, <3>2, <4>2 DEF Ops!SucceedCut, Applied, Value, Results
      <4> QED BY <4>3 DEF Ops!OpsNext
    <3> QED BY <2>7, <3>3, <3>4
  <2> QED BY <2>6, <2>7
<1> QED BY <1>1, <1>2, <1>3, <1>4

\* The server's data path: storing is the put, writing the buffer is the get.
LEMMA DataPathOp ==
  ASSUME DistinctIds, EqualSizes, IInv, TInv, OInv, NEW d \in Client, DataPath(d)
  PROVE  [Ops!OpsNext]_(Ops!opVars)
<1>0. /\ TypeOK /\ mem \in [Client -> Seq(Nat)] /\ KeyOf[d] \in Key
      /\ http \in [Client -> {"none", "sent", "moving", "staged", "done", "error"}]
      /\ store \in [Key -> Seq(Nat) \cup {Absent}]
      /\ Phases(d) /\ RequestInv(d)
  BY KeyOfAssumption DEF TInv, TransferTypeOK, OInv
<1>1. UNCHANGED <<pc, rc, out>>
  BY DEF DataPath, SrvStart, SrvReject, SrvRdmaRead, SrvStore, SrvRdmaWrite, vars
<1>2. /\ http[d] \in {"sent", "moving", "staged"} /\ http' = [http EXCEPT ![d] = http'[d]]
  BY <1>0 DEF DataPath, SrvStart, SrvReject, SrvRdmaRead, SrvStore, SrvRdmaWrite, Advance
<1>3. \A c \in Client : Result(c)' = Result(c)
  BY <1>1 DEF Result
<1>4. Results' = Results /\ Results[d] # "ok"
  <2>1. Result(d) # "ok"
    BY <1>0, <1>2 DEF Result, Phases
  <2> QED BY <1>3, <2>1, SameResults DEF Results
<1>5. CASE SrvStart(d) \/ SrvReject(d) \/ SrvRdmaRead(d)
  <2>1. mem' = mem /\ http'[d] # "done" /\ store' = store
    BY <1>0, <1>5 DEF SrvStart, SrvReject, SrvRdmaRead, Advance
  <2>2. \A c \in Client : http'[c] = "done" <=> http[c] = "done"
    BY <1>0, <1>2, <2>1
  <2> QED BY <1>1, <1>3, <2>1, <2>2, FailsOrStays
<1>6. CASE SrvStore(d)
  <2>1. /\ mem' = mem /\ d \notin Receivers /\ http'[d] = "done" /\ http[d] # "done"
        /\ store' = [store EXCEPT ![KeyOf[d]] = File[d]]
    BY <1>0, <1>6 DEF SrvStore, Advance, RequestInv, Senders
  <2>2. /\ Applied' = [Applied EXCEPT ![d] = TRUE]
        /\ Value' = [Value EXCEPT ![d] = Absent]
    <3>1. \A c \in Client : c # d => http'[c] = http[c] /\ mem'[c] = mem[c]
      BY <1>0, <1>2, <2>1
    <3> QED BY <2>1, <3>1, NewEffect
  <2>3. Value' = Value
    BY <2>1, <2>2 DEF Value
  <2>4. ~Applied[d]
    BY <2>1 DEF Applied
  <2>5. Ops!ApplyPut(d)
    BY <1>1, <1>4, <2>1, <2>2, <2>3, <2>4 DEF Ops!ApplyPut, Applied, Value, Results
  <2> QED BY <2>5 DEF Ops!OpsNext
<1>7. CASE SrvRdmaWrite(d)
  <2>1. /\ target[d] = d /\ d \in Receivers /\ store[KeyOf[d]] # Absent
        /\ "mr" \in res[d] /\ http'[d] = "done" /\ http[d] # "done" /\ store' = store
        /\ mem' = [mem EXCEPT ![d] = Overlay(store[KeyOf[d]], @)]
    BY <1>0, <1>7 DEF SrvRdmaWrite, Advance, RequestInv, Reachable
  <2>2. buf[d] = "mapped"
    BY <2>1 DEF IInv, CInv, HoldInv, BufInv
  <2>3. DOMAIN store[KeyOf[d]] = DOMAIN mem[d]
    BY <2>1, <2>2, BufferFits
  <2>4. mem'[d] = store[KeyOf[d]]
    BY <1>0, <2>1, <2>3, OverlayWhole
  <2>5. /\ Applied' = [Applied EXCEPT ![d] = TRUE]
        /\ Value' = [Value EXCEPT ![d] = store[KeyOf[d]]]
    <3>1. \A c \in Client : c # d => http'[c] = http[c] /\ mem'[c] = mem[c]
      BY <1>0, <1>2, <2>1
    <3> QED BY <2>1, <2>4, <3>1, NewEffect
  <2>6. ~Applied[d]
    BY <2>1 DEF Applied
  <2>7. Ops!ApplyGet(d)
    BY <1>1, <1>4, <2>1, <2>5, <2>6 DEF Ops!ApplyGet, Applied, Value, Results
  <2> QED BY <2>7 DEF Ops!OpsNext
<1> QED BY <1>5, <1>6, <1>7 DEF DataPath

\* With distinct request ids and versions of one size, the composed system
\* implements ObjectOps: the run of a program is one atomic operation.
THEOREM Atomic ==
  ASSUME DistinctIds, EqualSizes
  PROVE  TransferSpec => AtomicOperations
<1>1. TransferInit => Ops!OpsInit
  <2> SUFFICES ASSUME TransferInit PROVE Ops!OpsInit
    OBVIOUS
  <2>1. Applied = [c \in Client |-> FALSE]
    BY Zenon DEF TransferInit, Applied
  <2>2. Value = [c \in Client |-> Absent]
    BY DEF TransferInit, Value
  <2>3. Results = [c \in Client |-> "running"]
    BY DEF TransferInit, Init, Results, Result
  <2> QED BY <2>1, <2>2, <2>3 DEF TransferInit, Ops!OpsInit, Applied, Value, Results
<1>2. IInv /\ TInv /\ OInv /\ [TransferNext]_transferVars => [Ops!OpsNext]_(Ops!opVars)
  <2> SUFFICES ASSUME IInv, TInv, OInv, [TransferNext]_transferVars
               PROVE  [Ops!OpsNext]_(Ops!opVars)
    OBVIOUS
  <2>1. CASE UNCHANGED transferVars \/ (Terminated /\ UNCHANGED dataVars)
    BY <2>1, SessionOp DEF Terminated, transferVars
  <2>2. CASE \E d \in Client : \/ Program(d) \/ DataPath(d) \/ Fault(d)
                               \/ Control(d) /\ UNCHANGED dataVars
    <3>1. PICK d \in Client : \/ Program(d) \/ DataPath(d) \/ Fault(d)
                              \/ Control(d) /\ UNCHANGED dataVars
      BY <2>2
    <3>2. CASE \/ LoadFile(d) \/ HeadAndMap(d) \/ SendS3(d) \/ S3Answered(d)
               \/ S3Lost(d) \/ SaveFile(d)
      BY <3>2, ProgramOp
    <3>3. CASE DataPath(d)
      BY <3>3, DataPathOp
    <3>4. CASE /\ UNCHANGED dataVars
               /\ \/ Setup(d) \/ cleanup(d) \/ UnmapAndExit(d) \/ Killed(d)
                  \/ SrvHangup(d) \/ Control(d)
      BY <3>4, SessionOp
    <3> QED BY <3>1, <3>2, <3>3, <3>4 DEF Program, Fault, UnmapAndExit
  <2> QED BY <2>1, <2>2 DEF TransferNext
<1> QED BY <1>1, <1>2, AtomicityInvariance, PTL
      DEF TransferSpec, AtomicOperations, Ops!OpsSpec

=============================================================================
