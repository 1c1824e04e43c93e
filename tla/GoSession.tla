------------------------------ MODULE GoSession ------------------------------
(***************************************************************************)
(* The sessions of the Go programs: s3rdmaput.go and s3rdmaget.go, which   *)
(* hold the whole session in main, and uploadPartRDMA of                   *)
(* s3rdmamultipart.go, which makes one session after another in the same   *)
(* process, one for each part.  All use rdmalib.go and the control         *)
(* endpoint of RdmaSession.                                                *)
(*                                                                         *)
(* There is no cleanup function.  Each call that obtains something is      *)
(* followed by a defer statement, and a function that returns runs its     *)
(* deferred calls, last one first.  A failure in main is log.Fatal, which  *)
(* ends the process without running them; in uploadPartRDMA it is a        *)
(* return.  A write to a broken connection is an error in Go, no signal,   *)
(* and reads from the control connection have no deadline.                 *)
(*                                                                         *)
(* Of the variables of RdmaSession, res has no struct, and up, down and    *)
(* srv are those of the process's present connection.                      *)
(***************************************************************************)
EXTENDS RdmaSession

CONSTANT PartsPerFile   \* how many parts the multipart program uploads

ASSUME PartsAssumption == PartsPerFile \in Nat \ {0}

VARIABLES
  kind,    \* the program: "put", "get" or "part"
  stack,   \* the deferred calls of the function that holds the session
  ok,      \* the function returns without an error
  left     \* the parts still to upload after this one

goOnly == <<kind, stack, ok, left>>
goVars == <<vars, goOnly>>

GoStep == {"start", "dial", "register", "registered", "open", "pd", "cq", "qp",
           "init", "query", "qpinfo", "paired", "rtr", "rts", "buf", "mr",
           "token", "close", "ready", "save", "unwind", "returned", "exit"}

\* The calls after which the code looks at err.
CallStep == {"start", "dial", "register", "open", "pd", "cq", "qp", "init",
             "query", "qpinfo", "rtr", "rts", "buf", "mr", "token", "ready",
             "save"}

\* What each call obtains.
Obtains == [open |-> "ctx", pd |-> "pd", cq |-> "cq", qp |-> "qp", mr |-> "mr"]

IsPart(c) == kind[c] = "part"

GoInit ==
  /\ Init
  /\ kind \in [Client -> {"put", "get", "part"}]
  /\ stack = [c \in Client |-> << >>]
  /\ ok = [c \in Client |-> TRUE]
  /\ left = [c \in Client |-> PartsPerFile - 1]

----------------------------------------------------------------------------
(* Success and failure of a call.                                          *)

\* Fault: the munmap of a put or get is deferred after the Dereg.
Defers_MunmapLast(c, at) ==
  IF at = "mr" THEN IF IsPart(c) THEN <<"mr">> ELSE <<"mr", "munmap">>
  ELSE IF at \in DOMAIN Obtains THEN <<Obtains[at]>>
  ELSE IF IsPart(c) /\ at = "start" THEN <<"munmap">>
  ELSE IF at = (IF IsPart(c) THEN "registered" ELSE "dial") THEN <<"ws">>
  ELSE << >>

\* Fault: cq.Destroy is not deferred.
Defers_NoCq(c, at) ==
  IF at \in DOMAIN Obtains \ {"cq"} THEN <<Obtains[at]>>
  ELSE IF at = (IF IsPart(c) THEN "start" ELSE "buf") THEN <<"munmap">>
  ELSE IF at = (IF IsPart(c) THEN "registered" ELSE "dial") THEN <<"ws">>
  ELSE << >>

\* The defer statement that follows a successful call.  The multipart program
\* has its buffer first, and its connection once the id is registered.
Defers(c, at) ==
  IF at \in DOMAIN Obtains THEN <<Obtains[at]>>
  ELSE IF at = (IF IsPart(c) THEN "start" ELSE "buf") THEN <<"munmap">>
  ELSE IF at = (IF IsPart(c) THEN "registered" ELSE "dial") THEN <<"ws">>
  ELSE << >>

Succeed(c, at, next) ==
  /\ Goto(c, at, next)
  /\ stack' = [stack EXCEPT ![c] = @ \o Defers(c, at)]
  /\ UNCHANGED <<kind, ok, left>>

\* The server sees the end of the connection, if it was open.
CloseConn(c) ==
  /\ ws' = [ws EXCEPT ![c] = IF @ = "open" THEN "closed" ELSE @]
  /\ IF ws[c] = "open" THEN Put(c, "closeframe") ELSE UNCHANGED up

\* log.Fatal: no deferred call runs, and the system takes everything back.
Fatal(c) ==
  /\ pc'     = [pc EXCEPT ![c] = "exit"]
  /\ res'    = [res EXCEPT ![c] = {}]
  /\ access' = [access EXCEPT ![c] = {}]
  /\ buf'    = [buf EXCEPT ![c] = "none"]
  /\ qp'     = [qp EXCEPT ![c] = "none"]
  /\ stack'  = [stack EXCEPT ![c] = << >>]
  /\ CloseConn(c)
  /\ UNCHANGED ok

\* Fault: connectRDMAControl does not close the connection it gives up.
ReturnError_NoClose(c) ==
  /\ pc' = [pc EXCEPT ![c] = "unwind"]
  /\ ok' = [ok EXCEPT ![c] = FALSE]
  /\ UNCHANGED <<res, access, buf, qp, stack, ws, up>>

\* The error returns of uploadPartRDMA.  Before the connection is deferred,
\* connectRDMAControl has closed it.
ReturnError(c) ==
  /\ pc' = [pc EXCEPT ![c] = "unwind"]
  /\ ok' = [ok EXCEPT ![c] = FALSE]
  /\ IF pc[c] \in {"register", "registered"} THEN CloseConn(c)
     ELSE UNCHANGED <<ws, up>>
  /\ UNCHANGED <<res, access, buf, qp, stack>>

Fail(c) == /\ IF IsPart(c) THEN ReturnError(c) ELSE Fatal(c)
           /\ UNCHANGED <<kind, left>>

\* Any call whose error is looked at can fail, without other effect.
CallFails(c) ==
  /\ pc[c] \in CallStep
  /\ Fail(c)
  /\ UNCHANGED <<down, serverVars>>

sendJSON(c, at, m, next) ==
  /\ Succeed(c, at, next)
  /\ Put(c, m)
  /\ UNCHANGED <<res, access, buf, qp, ws, down, serverVars>>

\* ReadJSON waits for a message, without a deadline.
recvJSON(c, at, m, next) ==
  /\ pc[c] = at /\ down[c] # << >>
  /\ IF Head(down[c]) = m
     THEN Succeed(c, at, next) /\ UNCHANGED <<res, access, buf, qp, ws, up>>
     ELSE Fail(c)
  /\ down' = [down EXCEPT ![c] = Tail(@)]
  /\ UNCHANGED serverVars

----------------------------------------------------------------------------
(* The programs.                                                           *)

\* os.ReadFile, before the connection; the buffer is made later.
ReadFile(c) ==
  /\ kind[c] = "put"
  /\ Succeed(c, "start", "dial")
  /\ UNCHANGED <<res, access, buf, qp, ws, up, down, serverVars>>

\* HeadObject, for the size.
HeadObject(c) ==
  /\ kind[c] = "get"
  /\ Succeed(c, "start", "dial")
  /\ UNCHANGED <<res, access, buf, qp, ws, up, down, serverVars>>

\* The part's buffer, with its data; on failure it is unmapped at once.
mmapPart(c) ==
  /\ IsPart(c)
  /\ Succeed(c, "start", "dial")
  /\ buf' = [buf EXCEPT ![c] = "mapped"]
  /\ UNCHANGED <<res, access, qp, ws, up, down, serverVars>>

Dial(c) ==
  /\ Succeed(c, "dial", "register")
  /\ ws' = [ws EXCEPT ![c] = "open"]
  /\ srv' = [srv EXCEPT ![c] = "connected"]
  /\ UNCHANGED <<res, access, buf, qp, up, down, owner>>

connectRDMAControl(c) ==
  \/ Dial(c)
  \/ sendJSON(c, "register", "register_request", "registered")
  \/ recvJSON(c, "registered", "register_ok", "open")

\* OpenDevice, AllocPD, CreateCQ, CreateRC.
OpenVerbs(c) ==
  /\ \/ Succeed(c, "open", "pd") \/ Succeed(c, "pd", "cq")
     \/ Succeed(c, "cq", "qp")   \/ Succeed(c, "qp", "init")
  /\ res' = [res EXCEPT ![c] = @ \cup {Obtains[pc[c]]}]
  /\ qp' = [qp EXCEPT ![c] = IF pc[c] = "qp" THEN "RESET" ELSE @]
  /\ UNCHANGED <<access, buf, ws, up, down, serverVars>>

\* QueryGID, QueryMTUEnum.
QueryPort(c) ==
  /\ Succeed(c, "query", "qpinfo")
  /\ UNCHANGED <<res, access, buf, qp, ws, up, down, serverVars>>

\* ToInit, ToRTR, ToRTS.
ModifyQP(c) ==
  /\ \/ /\ Succeed(c, "init", "query") /\ qp' = [qp EXCEPT ![c] = "INIT"]
     \/ /\ Succeed(c, "rtr", "rts")    /\ qp' = [qp EXCEPT ![c] = "RTR"]
     \/ /\ Succeed(c, "rts", IF IsPart(c) THEN "mr" ELSE "buf")
        /\ qp' = [qp EXCEPT ![c] = "RTS"]
  /\ UNCHANGED <<res, access, buf, ws, up, down, serverVars>>

ExchangeQPInfo(c) ==
  \/ sendJSON(c, "qpinfo", "qpinfo_client", "paired")
  \/ recvJSON(c, "paired", "qpinfo_server", "rtr")

\* syscall.Mmap, and copy in s3rdmaput; of no bytes it fails.
Mmap(c) ==
  /\ Succeed(c, "buf", "mr")
  /\ buf' = [buf EXCEPT ![c] = "mapped"]
  /\ UNCHANGED <<res, access, qp, ws, up, down, serverVars>>

\* Fault: s3rdmaget registers its buffer with RegMRSrc.
RegMR_Src(c) ==
  /\ Succeed(c, "mr", "token")
  /\ res' = [res EXCEPT ![c] = @ \cup {"mr"}]
  /\ access' = [access EXCEPT ![c] = {"remote_read"}]
  /\ UNCHANGED <<buf, qp, ws, up, down, serverVars>>

\* Fault: a right that no transfer uses is granted too.
RegMR_Atomic(c) ==
  /\ Succeed(c, "mr", "token")
  /\ res' = [res EXCEPT ![c] = @ \cup {"mr"}]
  /\ access' = [access EXCEPT ![c] = Right \cup {"remote_atomic"}]
  /\ UNCHANGED <<buf, qp, ws, up, down, serverVars>>

\* RegMRDst in s3rdmaget, RegMRSrc in the others.
RegMR(c) ==
  /\ Succeed(c, "mr", "token")
  /\ res' = [res EXCEPT ![c] = @ \cup {"mr"}]
  /\ access' = [access EXCEPT ![c] = IF kind[c] = "get" THEN Right ELSE {"remote_read"}]
  /\ UNCHANGED <<buf, qp, ws, up, down, serverVars>>

SendToken(c) == sendJSON(c, "token", "token", "close")

\* put and get send a close frame, which may fail, and close the connection.
CloseEarly(c) ==
  /\ ~IsPart(c)
  /\ Succeed(c, "close", "ready")
  /\ CloseConn(c)
  /\ UNCHANGED <<res, access, buf, qp, down, serverVars>>

\* The multipart program only sends the frame; a failure is a warning.
closeControlAfterToken(c) ==
  /\ IsPart(c)
  /\ Succeed(c, "close", "ready")
  /\ Put(c, "closeframe") \/ UNCHANGED up
  /\ UNCHANGED <<res, access, buf, qp, ws, down, serverVars>>

\* PutObject and UploadPart have succeeded, and the function returns.
PutReturned(c) ==
  /\ kind[c] # "get"
  /\ Succeed(c, "ready", "unwind")
  /\ UNCHANGED <<res, access, buf, qp, ws, up, down, serverVars>>

\* GetObject has succeeded; the data is written to the file and main returns.
GetReturned(c) ==
  /\ kind[c] = "get"
  /\ Succeed(c, "ready", "save") \/ Succeed(c, "save", "unwind")
  /\ UNCHANGED <<res, access, buf, qp, ws, up, down, serverVars>>

\* The deferred call on top of the stack.
RunDeferred(c) ==
  LET h == stack[c][Len(stack[c])] IN
  /\ pc[c] = "unwind" /\ stack[c] # << >>
  /\ stack' = [stack EXCEPT ![c] = SubSeq(@, 1, Len(@) - 1)]
  /\ res' = [res EXCEPT ![c] = @ \ {h}]
  /\ access' = [access EXCEPT ![c] = IF h = "mr" THEN {} ELSE @]
  /\ qp' = [qp EXCEPT ![c] = IF h = "qp" THEN "none" ELSE @]
  /\ buf' = [buf EXCEPT ![c] = IF h = "munmap" THEN "none" ELSE @]
  /\ IF h = "ws" THEN CloseConn(c) ELSE UNCHANGED <<ws, up>>
  /\ UNCHANGED <<pc, down, serverVars, kind, ok, left>>

Returned(c) ==
  /\ stack[c] = << >>
  /\ Goto(c, "unwind", IF IsPart(c) THEN "returned" ELSE "exit")
  /\ UNCHANGED <<res, access, buf, qp, ws, up, down, serverVars, goOnly>>

\* Fault: a failed part is tried again, without a limit.
PartLoop_Retry(c) ==
  /\ Goto(c, "returned", IF ok[c] THEN "exit" ELSE "start")
  /\ ok' = [ok EXCEPT ![c] = TRUE]
  /\ up' = [up EXCEPT ![c] = << >>]
  /\ down' = [down EXCEPT ![c] = << >>]
  /\ srv' = [srv EXCEPT ![c] = "none"]
  /\ UNCHANGED <<res, access, buf, qp, ws, owner, kind, stack, left>>

\* uploadFilePartsRDMA goes on with the next part, on a connection of its own,
\* or ends the upload.
PartLoop(c) ==
  /\ \/ /\ ~ok[c] \/ left[c] = 0
        /\ Goto(c, "returned", "exit")
        /\ UNCHANGED <<left, up, down, srv>>
     \/ /\ ok[c] /\ left[c] > 0
        /\ Goto(c, "returned", "start")
        /\ left' = [left EXCEPT ![c] = @ - 1]
        /\ up' = [up EXCEPT ![c] = << >>]
        /\ down' = [down EXCEPT ![c] = << >>]
        /\ srv' = [srv EXCEPT ![c] = "none"]
  /\ UNCHANGED <<res, access, buf, qp, ws, owner, kind, stack, ok>>

----------------------------------------------------------------------------

GoProcess(c) ==
  \/ ReadFile(c) \/ HeadObject(c) \/ mmapPart(c) \/ connectRDMAControl(c)
  \/ OpenVerbs(c) \/ QueryPort(c) \/ ModifyQP(c) \/ ExchangeQPInfo(c)
  \/ Mmap(c) \/ RegMR(c) \/ SendToken(c) \/ CloseEarly(c)
  \/ closeControlAfterToken(c) \/ PutReturned(c) \/ GetReturned(c)
  \/ CallFails(c) \/ RunDeferred(c) \/ Returned(c) \/ PartLoop(c)

GoNext ==
  \/ \E c \in Client : \/ GoProcess(c)
                       \/ (Control(c) \/ SrvHangup(c)) /\ UNCHANGED goOnly
  \/ Terminated /\ UNCHANGED goOnly

GoSpec == GoInit /\ [][GoNext]_goVars

\* Processes run, and the server handles what it receives: the programs have
\* no deadline.
GoFairness ==
  \A c \in Client : /\ WF_goVars(GoProcess(c))
                    /\ WF_goVars(Control(c) /\ UNCHANGED goOnly)

GoFairSpec == GoSpec /\ GoFairness

----------------------------------------------------------------------------
(* Properties.                                                             *)

Deferrable == {"ctx", "pd", "cq", "qp", "mr", "munmap", "ws"}

\* Type correctness of the Go sessions.
GoTypeOK ==
  /\ pc     \in [Client -> GoStep]
  /\ res    \in [Client -> SUBSET (Handle \ {"s"})]
  /\ access \in [Client -> SUBSET Right]
  /\ buf    \in [Client -> {"none", "mapped"}]
  /\ qp     \in [Client -> {"none", "RESET", "INIT", "RTR", "RTS"}]
  /\ ws     \in [Client -> {"none", "open", "closed"}]
  /\ up     \in [Client -> Seq(UpMsg)]
  /\ down   \in [Client -> Seq(DownMsg)]
  /\ srv    \in [Client -> {"none", "connected", "registered", "paired",
                            "armed", "gone"}]
  /\ owner  \in [Id -> Client \cup {NoClient}]
  /\ kind   \in [Client -> {"put", "get", "part"}]
  /\ stack  \in [Client -> Seq(Deferrable)]
  /\ ok     \in [Client -> BOOLEAN]
  /\ left   \in [Client -> 0 .. PartsPerFile - 1]

\* The deferred calls release children before parents, and deregister the
\* region before they unmap the memory under it, from wherever the function
\* returns, although the buffer is deferred first in one program and almost
\* last in the others.
DeferredInOrder ==
  \A c \in Client : \A h \in res[c] :
    /\ Parents[h] \ {"s"} \subseteq res[c]
    /\ h = "mr" => buf[c] = "mapped"

\* Whatever uploadPartRDMA fails at, and also when connectRDMAControl gives
\* up half way, it returns with nothing held, so that the sessions of a file's
\* parts never add up.
PartReturnsClean ==
  \A c \in Client :
    pc[c] \in {"returned", "start"} =>
      res[c] = {} /\ buf[c] = "none" /\ ws[c] # "open"

\* The deferred calls are the right ones: each thing held is released exactly
\* once, and nothing is released that is not held.
ReleasedOnce ==
  \A c \in Client :
    /\ \A i, k \in 1 .. Len(stack[c]) : stack[c][i] = stack[c][k] => i = k
    /\ {stack[c][i] : i \in 1 .. Len(stack[c])} \ {"ws"} =
         res[c] \cup (IF buf[c] = "mapped" THEN {"munmap"} ELSE {})

\* When the server has the token, the region is registered for the transfer
\* and the queue pair is ready, until the function returns or the program ends.
GoTokenUsable ==
  \A c \in Client :
    srv[c] = "armed" =>
      \/ /\ "mr" \in res[c] /\ qp[c] = "RTS"
         /\ (IF kind[c] = "get" THEN "remote_write" ELSE "remote_read") \in access[c]
      \/ pc[c] \in {"unwind", "returned", "exit"}

=============================================================================
