---------------------------- MODULE RdmaTransfer ----------------------------
(***************************************************************************)
(* The programs s3rdmaput and s3rdmaget of examples/rdma/c: the session of *)
(* RdmaSession, the S3 request that makes the server move the data, and    *)
(* the object store behind it.                                             *)
(*                                                                         *)
(* The token travels on the control WebSocket and the S3 request on an     *)
(* HTTP connection of its own; the request id is all that joins them.  The *)
(* server's data path (external) is modelled from what the clients rely    *)
(* on: it finds the token under the request id, moves the bytes by RDMA    *)
(* as long as the region can be reached, and answers.                      *)
(*                                                                         *)
(* A file, an object and a buffer are sequences of bytes; 0 is what mmap   *)
(* gives.                                                                  *)
(***************************************************************************)
EXTENDS RdmaSession, SequencesExt

CONSTANTS
  Key,         \* object keys
  KeyOf,       \* [Client -> Key]: the object each program is run for
  File,        \* [Client -> Seq(Nat)]: what s3rdmaput's input file contains
  InitStore,   \* [Key -> Seq(Nat) \cup {Absent}]: the objects at the start
  Absent       \* no such object; no file written

ASSUME KeyOfAssumption     == KeyOf \in [Client -> Key]
ASSUME FileAssumption      == File \in [Client -> Seq(Nat)]
ASSUME InitStoreAssumption == InitStore \in [Key -> Seq(Nat) \cup {Absent}]

VARIABLES
  mem,     \* the bytes of each client's buffer
  http,    \* the server's state of each client's S3 request
  target,  \* the client whose token the server uses for the request
  staged,  \* the bytes the server has read for a put, before they are stored
  store,   \* the objects
  rc,      \* how far the program came after the S3 call
  out      \* the file s3rdmaget has written

dataVars == <<mem, http, target, staged, store, rc, out>>
transferVars == <<vars, dataVars>>

Senders == Client \ Receivers

TransferInit ==
  /\ Init
  /\ mem    = [c \in Client |-> << >>]
  /\ http   = [c \in Client |-> "none"]
  /\ target = [c \in Client |-> NoClient]
  /\ staged = [c \in Client |-> Absent]
  /\ store  = InitStore
  /\ rc     = [c \in Client |-> "none"]
  /\ out    = [c \in Client |-> Absent]

----------------------------------------------------------------------------
(* The client programs.                                                    *)

\* What mmap gives, for as many bytes.
Blank(bytes) == [i \in DOMAIN bytes |-> 0]

\* s3rdmaput, before the handshake: open, fstat, mmap of at least one byte,
\* fread of the whole file.
LoadFile(c) ==
  /\ c \in Senders
  /\ MapBuffer(c)
  /\ mem' = [mem EXCEPT ![c] = IF buf'[c] = "mapped" THEN File[c] ELSE @]
  /\ UNCHANGED <<http, target, staged, store, rc, out>>

\* s3rdmaget, before the handshake: HeadObject gives the size, mmap the
\* buffer.  A missing object ends the program, and so does an empty one, for
\* which mmap fails.
HeadAndMap(c) ==
  /\ c \in Receivers
  /\ MapBuffer(c)
  /\ buf'[c] = "mapped" => store[KeyOf[c]] \notin {Absent, << >>}
  /\ mem' = [mem EXCEPT ![c] =
               IF buf'[c] = "mapped" THEN Blank(store[KeyOf[c]]) ELSE @]
  /\ UNCHANGED <<http, target, staged, store, rc, out>>

\* Fault: the region is deregistered once the request is under way.
SendS3_Deregisters(c) ==
  /\ pc[c] = "ready"
  /\ http[c] = "none"
  /\ http' = [http EXCEPT ![c] = "sent"]
  /\ res' = [res EXCEPT ![c] = @ \ {"mr"}]
  /\ UNCHANGED <<pc, access, buf, qp, ws, up, down, serverVars,
                 mem, target, staged, store, rc, out>>

\* s3_put_object, s3_get_object: the request, with X-RDMA-Request-ID.
SendS3(c) ==
  /\ pc[c] = "ready"
  /\ http[c] = "none"
  /\ http' = [http EXCEPT ![c] = "sent"]
  /\ UNCHANGED <<vars, mem, target, staged, store, rc, out>>

\* Fault: the status of the answer is not looked at.
S3Answered_AnyStatus(c) ==
  /\ http[c] \in {"done", "error"}
  /\ S3Returned(c)
  /\ rc' = [rc EXCEPT ![c] = "ok"]
  /\ UNCHANGED <<mem, http, target, staged, store, out>>

\* The call returns with the server's answer ...
S3Answered(c) ==
  /\ http[c] \in {"done", "error"}
  /\ S3Returned(c)
  /\ rc' = [rc EXCEPT ![c] = IF http[c] = "done" THEN "ok" ELSE "failed"]
  /\ UNCHANGED <<mem, http, target, staged, store, out>>

\* ... or it fails at any time, whatever the server is doing or has done.
S3Lost(c) ==
  /\ S3Returned(c)
  /\ rc' = [rc EXCEPT ![c] = "failed"]
  /\ UNCHANGED <<mem, http, target, staged, store, out>>

\* The output file holds these bytes, and the program goes on like this.
Leave(c, bytes, report) ==
  /\ out' = [out EXCEPT ![c] = bytes]
  /\ rc' = [rc EXCEPT ![c] = report]

\* s3rdmaget, after rdma_session_destroy: print the CRC of the buffer and
\* write the buffer to the output file.  A failed fopen leaves no file, a
\* failed fwrite a beginning of one, and both are reported.  What stdio still
\* holds is written by fclose, whose result is not looked at: when that
\* fails, the file is cut short and "Download complete!" is printed.
SaveFile(c) ==
  /\ c \in Receivers
  /\ pc[c] = "munmap"
  /\ rc[c] = "ok"
  /\ \/ Leave(c, mem[c], "saved")
     \/ \E bytes \in Prefixes(mem[c]), report \in {"unflushed", "failed"} :
          Leave(c, bytes, report)
     \/ Leave(c, Absent, "failed")
  /\ UNCHANGED <<vars, mem, http, target, staged, store>>

\* The end of both programs.
UnmapAndExit(c) ==
  /\ c \in Receivers => rc[c] # "ok"
  /\ Munmap(c)
  /\ UNCHANGED dataVars

----------------------------------------------------------------------------
(* The server's data path (external).                                      *)

Advance(c, from, to) ==
  /\ http[c] = from
  /\ http' = [http EXCEPT ![c] = to]

\* The request's token, once it has arrived.
SrvStart(c) ==
  LET t == owner[RequestId[c]] IN
  /\ t # NoClient
  /\ srv[t] = "armed"
  /\ Advance(c, "sent", "moving")
  /\ target' = [target EXCEPT ![c] = t]
  /\ UNCHANGED <<vars, mem, staged, store, rc, out>>

\* Without a token, and for any reason of its own, the server answers with
\* an error status.
SrvReject(c) ==
  /\ \E from \in {"sent", "moving", "staged"} : Advance(c, from, "error")
  /\ UNCHANGED <<vars, mem, target, staged, store, rc, out>>

\* What the NIC checks when the server reads or writes t's region.
Reachable(t, right) ==
  "mr" \in res[t] /\ qp[t] = "RTS" /\ right \in access[t]

\* What a read of t's region gives: the bytes of the buffer, or, once that is
\* unmapped, either them, where the pages are still pinned, or others.
Readable(t) == {mem[t]} \cup (IF buf[t] = "mapped" THEN {} ELSE {Blank(mem[t])})

SrvRdmaRead(c) ==
  /\ c \in Senders
  /\ Advance(c, "moving", "staged")
  /\ Reachable(target[c], "remote_read")
  /\ \E bytes \in Readable(target[c]) : staged' = [staged EXCEPT ![c] = bytes]
  /\ UNCHANGED <<vars, mem, target, store, rc, out>>

SrvStore(c) ==
  /\ Advance(c, "staged", "done")
  /\ store' = [store EXCEPT ![KeyOf[c]] = staged[c]]
  /\ UNCHANGED <<vars, mem, target, staged, rc, out>>

\* The object's bytes over the first bytes of the buffer, at most as many as
\* the token's length.
Overlay(object, buffer) ==
  [i \in DOMAIN buffer |-> IF i \in DOMAIN object THEN object[i] ELSE buffer[i]]

SrvRdmaWrite(c) ==
  LET t == target[c] IN
  /\ c \in Receivers
  /\ Advance(c, "moving", "done")
  /\ store[KeyOf[c]] # Absent
  /\ Reachable(t, "remote_write")
  /\ mem' = [mem EXCEPT ![t] = Overlay(store[KeyOf[c]], @)]
  /\ UNCHANGED <<vars, target, staged, store, rc, out>>

----------------------------------------------------------------------------

Program(c) ==
  \/ LoadFile(c) \/ HeadAndMap(c) \/ SendS3(c) \/ S3Answered(c) \/ SaveFile(c)
  \/ UnmapAndExit(c)
  \/ (Setup(c) \/ cleanup(c)) /\ UNCHANGED dataVars

DataPath(c) ==
  \/ SrvStart(c) \/ SrvReject(c) \/ SrvRdmaRead(c) \/ SrvStore(c)
  \/ SrvRdmaWrite(c)

Fault(c) ==
  \/ S3Lost(c)
  \/ (Killed(c) \/ SrvHangup(c)) /\ UNCHANGED dataVars

TransferNext ==
  \/ \E c \in Client : \/ Program(c) \/ DataPath(c) \/ Fault(c)
                       \/ Control(c) /\ UNCHANGED dataVars
  \/ Terminated /\ UNCHANGED dataVars

TransferSpec == TransferInit /\ [][TransferNext]_transferVars

\* Processes run, and the server answers on both channels, if only to refuse;
\* no fault has to happen.
TransferFairness ==
  \A c \in Client :
    /\ WF_transferVars(Program(c))
    /\ WF_transferVars(DataPath(c) \/ (Control(c) /\ UNCHANGED dataVars))

TransferFairSpec == TransferSpec /\ TransferFairness

----------------------------------------------------------------------------
(* Properties.                                                             *)

\* Type correctness of the data path, with that of the sessions.
TransferTypeOK ==
  /\ TypeOK
  /\ mem    \in [Client -> Seq(Nat)]
  /\ http   \in [Client -> {"none", "sent", "moving", "staged", "done", "error"}]
  /\ target \in [Client -> Client \cup {NoClient}]
  /\ staged \in [Client -> Seq(Nat) \cup {Absent}]
  /\ store  \in [Key -> Seq(Nat) \cup {Absent}]
  /\ rc     \in [Client -> {"none", "ok", "failed", "saved", "unflushed"}]
  /\ out    \in [Client -> Seq(Nat) \cup {Absent}]

\* Everything an object can rightly be: what it was, or a whole file that some
\* s3rdmaput was run to store there.
Versions(k) == {InitStore[k]} \cup {File[c] : c \in {d \in Senders : KeyOf[d] = k}}

\* No object ever holds anything but a whole file put under its own key, also
\* when the client is killed, or its call fails and it releases the region and
\* unmaps the buffer, with the token still at the server and the read of the
\* buffer still to come.
StoreIsSound == \A k \in Key : store[k] \in Versions(k)

\* A put that was reported as successful is stored: the object of a key that
\* nobody else writes is the file.
AckedPutIsStored ==
  \A c \in Senders :
    /\ rc[c] = "ok"
    /\ \A d \in Senders : KeyOf[d] = KeyOf[c] => d = c
    => store[KeyOf[c]] = File[c]

\* The file s3rdmaget leaves is a version of the object, not something between
\* two versions, and not a blank buffer.  Where a write failed it is a
\* beginning of one, and only then; the program does not know it of the last
\* write, fclose's, and reports that one as complete.
SavedFileIsAVersion ==
  \A c \in Client :
    /\ rc[c] = "saved" => out[c] \in Versions(KeyOf[c])
    /\ out[c] # Absent =>
         \E v \in Versions(KeyOf[c]) \ {Absent} : out[c] \in Prefixes(v)

\* Whatever request ids the programs generate, the bytes a put offers are
\* never changed under it: its region does not let the server write.
SendBufferIntact ==
  \A c \in Senders : buf[c] = "mapped" => mem[c] = File[c]

\* The composed system implements the specification of the sessions, so all
\* that is proved of RdmaSession holds of it: what the S3 call, the server's
\* data path and the saving of the file do leaves the session's state alone.
ImplementsSession == Spec

----------------------------------------------------------------------------
(* Refinement: a run of a program is one atomic operation on the store.    *)

\* What the program has reported: "Successfully uploaded", "Download
\* complete!", or an error message, or an exit during the setup.
Result(c) ==
  IF rc[c] \in (IF c \in Receivers THEN {"saved", "unflushed"} ELSE {"ok"}) THEN "ok"
  ELSE IF rc[c] = "failed" \/ pc[c] = "exit" THEN "failed" ELSE "running"

Ops == INSTANCE ObjectOps WITH
         applied <- [c \in Client |-> http[c] = "done"],
         value   <- [c \in Client |-> IF c \in Receivers /\ http[c] = "done"
                                      THEN mem[c] ELSE Absent],
         result  <- [c \in Client |-> Result(c)],
         file    <- out

\* Through sessions, tokens and RDMA, each program is an atomic put or get of
\* a whole object, and reports success only if it took effect; what the get
\* saw is what it saves, up to where the writing of the file failed.
AtomicOperations == Ops!OpsSpec

=============================================================================
