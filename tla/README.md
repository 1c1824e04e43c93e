# A TLA+ model of the storefs RDMA clients

storefs is an S3-compatible object store whose objects can be moved by RDMA.
The server is closed source; the repository holds its documentation, its
database schema and configuration, and the **clients under
`examples/rdma/`**: the same three programs in C, Go, Java and Python, with the
libraries below them. The clients are the code of the repository, and this
project models them. The server appears only as far as a client can see it, and
every definition that stands for it is marked external in `PROJECT.json`.

## 1. The system

### How a transfer works

1. The client opens a **control WebSocket** to the server and registers a
   *request id* (`rdma-<pid>` in C).
2. It opens an RDMA device, makes a protection domain (PD), completion queue
   (CQ) and queue pair (QP), exchanges QP parameters with the server over the
   WebSocket and drives the QP to INIT, RTR and RTS.
3. It registers its buffer as a memory region (MR), sends the *token* (address,
   key, length) over the WebSocket and **closes the WebSocket**.
4. It sends an S3 request on **another, HTTP, connection**, with an empty body
   and the header `X-RDMA-Request-ID`. The server finds the token under that
   id, reads or writes the client's memory, and answers.
5. The client releases everything in reverse order.

### Components

| component | state | operations | talks to |
|---|---|---|---|
| C session library (`c/rdmalib.c`) | `struct rdma_session`, the socket | `rdma_send_setup`, `rdma_recv_setup`, `rdma_session_destroy`, `ws_*` | verbs shim, control endpoint |
| C put and get (`c/s3rdmaput.c`, `c/s3rdmaget.c`, `c/s3client.c`) | buffer, exit code, output file | load or HEAD, setup, S3 call, save, exit | session library, S3 endpoint |
| multipart programs (`s3rdmamultipart.{c,go,py}`, `S3RdmaMultipart.java`) | upload id, file size, list of parts | `all create upload list list-uploads complete abort` | session library per part, S3 endpoint |
| Java session (`RdmaSession.java`, `SyncWebSocket.java`) | handles, direct buffer, message queue | setup, destroy; listener thread | shim through the FFI, control endpoint |
| Python session (`rdmalib.py`) | handles, anonymous map | setup, destroy | shim through ctypes, control endpoint |
| Java and Python put and get | as in C | as in C | their session library |
| Go put and get, Go session | as in C, a stack of `defer`s | as in C | shim through cgo |
| verbs shims (`verbs_shim.c` for Java and for Python) | none | one-call wrappers of libibverbs | libibverbs |
| S3 requests of the C programs (`c/s3client.c`, `s3_request` and its callers in `c/s3rdmamultipart.c`) | header list, curl handle, response buffer | sign, send, receive, parse, free | libcurl, S3 endpoint |
| S3 requests of Java and Python (`S3Client.java`, `s3client.py`) | none | sign and send | S3 endpoint |
| server: control endpoint (external) | connections, table of request ids | register, pair, take token, close | clients |
| server: data path and store (external) | objects, multipart uploads | RDMA read/write, store, S3 operations | clients |

Where the control flow is hard: every call of a ladder of about fifteen can
fail, and each needs its own cleanup; one transfer uses three channels (control,
HTTP, RDMA) that nothing but the request id orders; the server keeps touching
client memory after the client has given up; C, Python and Go wait without a
timeout, Java with one; the C library reads its WebSocket frames, JSON and XML by
hand from bytes that arrive in pieces; multipart processes work on the same upload
from several hosts while files change and requests are repeated.

`PROJECT.json` lists these hazards one by one, at the line where each one
bites, with the properties that would catch it.

### What makes each component correct

- *Session*: a handle is held only with those it was made from; nothing is held,
  mapped or open at exit; a registered region is mapped; the QP is driven to a
  peer only after the server answered; the token reaches the server only when
  it is usable; every process ends.
- *Put and get*: each is one atomic operation on the object, and reports
  success only if it took effect; the object is always a whole file; a saved
  file is a version of the object.
- *Multipart*: a successful `all` stores the file, whole and in order; a failed
  one aborts its upload or leaves one that can still be completed; a completion
  contains every confirmed part with the contents that were listed.
- *Control connection*: only the server's own answer, whole, lets the handshake go
  on; the server hears what was sent; the handshake ends.
- *S3 requests*: what is sent is what was signed; success means done; what is taken
  from an answer is what the server said; nothing stays allocated.

## 2. Modules

| module | what it is |
|---|---|
| `RdmaSession` | C session library and the control endpoint, messages as values |
| `RdmaSessionProofs` | inductive invariant and theorems about `RdmaSession` |
| `RdmaTransfer` | extends `RdmaSession` by the programs s3rdmaput and s3rdmaget, the S3 request and the data path; implements `RdmaSession` and `ObjectOps` |
| `RdmaTransferProofs` | the refinements of `RdmaSession` and of `ObjectOps`, inductive invariant and theorems about the data path |
| `ObjectOps` | abstract specification of put and get |
| `PortedSession` | the Java and Python sessions with their verbs shims, against the control endpoint of `RdmaSession` |
| `PortedSessionProofs` | inductive invariant and theorems about `PortedSession` |
| `GoSession` | the Go sessions of put, get and multipart, against the same control endpoint |
| `GoSessionProofs` | inductive invariant and theorems about `GoSession` |
| `Multipart` | the multipart programs of all four languages against the server's uploads |
| `MultipartProofs` | lemmas on lists and slices, inductive invariant and theorems about `Multipart` |
| `WsControl` | the control connection of the C library byte by byte: upgrade, frames, JSON |
| `WsControlProofs` | frames, masks and parsing, inductive invariant and theorems about `WsControl` |
| `S3Call` | one S3 request of the C programs: signature, answer, buffer, XML, memory |
| `S3CallProofs` | inductive invariant and theorems about `S3Call` |
| `SequenceLemmas` | induction over the numbers, and what is joined, cut and flattened of sequences, for the other proof modules |
| `MC...` | instances of the above for TLC |

Definitions whose names have an underscore and a description
(`CleanupRank_CqFirst`, `recvText_NoTimeout`) are **faults**: versions of the
definition below them with one plausible mistake. No specification uses them.
`PROJECT.json` pairs each with a property, which TLC finds violated when the
fault is put in the place of the original.

### RdmaSession

`pc[c]` is the name of the call that client `c` makes next; the actions carry
the names of the C functions. `res[c]` is the set of non-null handles in its
`struct rdma_session` (with `"s"` for the struct), `access[c]` the remote rights
of its region, `buf[c]` its mmapped buffer, `qp[c]` the state of the QP, `ws[c]`
its end of the WebSocket, `up[c]` and `down[c]` the two directions of that
connection, `srv[c]` what the server knows of it, and `owner[id]` the server's
table of request ids.

Every call is a step of its own, with success and failure as alternatives. A
failing step of the handshake goes to `"fail"` (the `ws_close` every one of them
does), then to `"cleanup"`, which releases one handle per step so that other
processes and the server interleave with it. The buffer belongs to the program,
which maps it before the setup and unmaps it after `rdma_session_destroy`. A
process may be killed at any moment, the S3 call included (`Killed`): from
outside, or by SIGPIPE, which no client ignores, when it writes to a connection
the server has reset.

The server answers in order, may refuse at each step, and may vanish at any
moment (`SrvHangup`); an armed connection (the server has the token) outlives
the WebSocket. What it does with a duplicate id is not documented, so it may
refuse it or let it replace the older one.

### RdmaTransfer and ObjectOps

`MapBuffer` and `S3Returned` of the session are refined: a put loads the file,
a get asks HEAD for the size; the S3 request is sent, runs through `http[c]`
(sent, moving, staged, done, error) at the server, and returns or is lost
at any time. The server moves the bytes only when the NIC would let it
(`Reachable`); a region whose buffer is unmapped may still give its bytes, if
the pages are pinned, or others (`Readable`). Bytes are kept as short sequences
of numbers, because the properties are about which bytes end up where.

`SaveFile` writes through stdio. A failed `fopen` or `fwrite` is reported. What
stdio still holds is written by `fclose`, whose result the code does not look at:
`rc` is then `"unflushed"`, the file a beginning of the buffer, and the program
has printed "Download complete!".

`ObjectOps` has no session: a put or get takes effect at one moment, once, and
is reported as successful only if it did. The mapping takes "applied" to be the
server's `done`, and the value a get has seen to be the contents of its buffer
from that moment on, so it also says that nothing disturbs the buffer between
the transfer and the saving of the file. A get that has reported success leaves
the value it saw, or a beginning of it if the end of the file could not be written
(`SucceedCut`): that much is all the unchecked `fclose` allows to be said.

In the other direction `ImplementsSession` says that the composed system is still a
system of sessions: the state the modules share is changed only by the session's
own operations, so what is proved of `RdmaSession` holds of the programs. When a get
asks for an object and when the S3 call returns are decided here; `RdmaSession`
leaves both open.

### PortedSession

The Java and Python ports say they mirror the C library. They differ: failures
are exceptions; the WebSocket returned by `handshake()` is closed by the caller,
so an exception *inside* the handshake loses it (in C each failing step closes
it; here it stays open until the process ends); the buffer is made after the
handshake; in Java a listener thread feeds a queue and every wait has a timeout
of 15 s, so an answer may arrive after the wait; an `Error` passes all catch
clauses. The timeout is a step that is enabled whenever the queue is empty: a
late answer is any answer delivered after it.

`verbs_shim.c` exists twice, for Java and for Python, with the same functions. Each
one that a session calls is a definition of its own name (`rdma_open_device`,
`rdma_qp_to_rtr`, `rdma_reg_mr_dst`, ...), with what the libibverbs call below it
grants or refuses.

### GoSession

Go has no cleanup function: `stack[c]` holds the deferred calls of the function
that owns the session, pushed by `Defers` after each successful call and run
last one first by `RunDeferred`. In `main` of put and get a failure is
`log.Fatal`, which runs none of them (`Fatal`, the kernel takes everything
back); in `uploadPartRDMA` it is a return (`ReturnError`). The multipart program
makes one session after another (`PartLoop`), each on a connection of its own;
`up`, `down` and `srv` are those of the present one. Which program a process runs
is chosen in the initial state.

### Multipart

One process per command line. `UploadPart` is one step with four outcomes: stored and
confirmed; or a failure for the client with the part stored, not stored, or still
under way at the server, which may store it at any later time (`late`, `LateStore`).
The AWS SDK of the Go program repeats a failed part up to `MaxRetries` times from the
memory of the first attempt (`GoMapPart`, `GoRetryPart`, `GoUploadPart`); how often
it does is not in the repository, so every number of attempts up to the bound is
possible. The four programs share their structure; what they decide differently (the
`-part` that `all` passes on, whether the file is looked at before the upload is
created, after which failures `all` aborts, where the bytes of a part and its ETag
come from, and the width of the part count) is in `CMain ... PythonMain`,
`CUploadPart ... PythonUploadPart` and `NumParts`. `AsInt` is the conversion to an
`int` of `IntBits` bits: of the part count in C and Java, and in Java also of a
part's offset in the copy of the file and of its length. The server refuses part numbers above `MaxPart`
(`docs/s3.md:1641`); the programs do not know the limit and send them. A ListParts
answer has the stored parts in the order of their numbers, at most `Page` of them.

Files can be truncated while they are uploaded, and processes killed, at any time.
Which programs run together, on which files and against which server is a record of
`Worlds`, chosen in the initial state, so that one run covers the commands of
different scenarios without multiplying them by each other. `due` and `acked` are
history variables for the properties: the parts confirmed to some process, and those
confirmed when a list was asked for.

### WsControl

`RdmaSession` hands messages over whole. This module is one connection below that:
bytes in both directions, of which a read takes any number that has arrived. The
client writes the upgrade request, reads the response to its empty line or to the end
of the buffer, and then exchanges frames; `ws_send_text` writes a header and then the
masked text, and either write can stop after any number of bytes (`ShortWrite`);
the close frame of `ws_close` then follows what was written. `got` is what has been read of the present
frame, and `Wanted` how much the calls of `read_full` have asked for so far. The
server may answer in one frame, masked or not, after a ping, or in two frames cut
anywhere; with a refusal, an error as long as the buffer, a frame with a 64-bit
length, a close frame, or a hang-up that loses the end of what it sent.

The numbers are scaled: a byte of a header is below `Radix`, and `Half`, `Short` and
`Long` are where 0x80, 126 and 127 stand in a byte, so that the limits of the
length encodings are at 14 and 1024 instead of 126 and 65536. The bytes of a JSON
text are tokens (a key, a value), which is what `strstr`-like searches and number
parsing tell apart; they are the numbers from 40 on, and no byte of a header, which is
why `Radix` is at most 40 (`RadixAssumption`). The exclusive or is a constant, `XorOf`,
of which only what the code uses is assumed (`XorAssumption`: it stays within the
bytes, and done twice with one key it undoes itself); for TLC it is computed bit by bit
(`MCXor` of `MCWsControl`). Of a response to the upgrade it is assumed that its first
empty line is its end (`RepliesAssumption`). `json_get_string` is left out: its result only goes into an error
message.

### S3Call

One call of `s3client.c` or of the multipart program, chosen in the initial state with
its options. A signature is the record of what was signed; `Recomputed` is what a server
that follows the SigV4 rules finds in the request: the parameters in the canonical order
(`Sorted`), and the headers that libcurl adds of its own accord. The answer comes in
pieces of any size, may be cut off, lost or a refusal; `write_response` doubles its
buffer; `find_tag_text` and `parse_parts` (block by block, `parse_block`) read what has
arrived, cut to the sizes of `upload_id`, `num` and `etag` (`Clipped`), with `atoi` for
part numbers. A text is a sequence of tags and characters, and no character is a tag
(`CharAssumption`). Every allocation can fail, whether the code checks it or not. A
`curl_slist_append` without memory returns NULL, which replaces the header list: what
was in it is lost (`"lost"` in `mem`), and the request goes out with the headers that
are appended later; libcurl then adds its own `Host` and `Accept` (`Transmitted`). The
server refuses what is not signed or signed over other headers (`Authentic`), and moves
no data for a request without its id (`Obeyed`).

## 3. Model checking

All runs are exhaustive. Deadlock is checked in all of them: processes that have
all ended are a stuttering step of the model (`Terminated`, `Quiescent`).

| run | states | checks | result |
|---|---|---|---|
| `session` | 412,321 | `DependencyClosed`, `NoLeakAtExit`, `RegisteredIsMapped`, `TokenIsUsable`, `SendBufferIntact`, `ReleaseAfterClose`, `ImplementsSession` (refinement) | holds |
| `transfer` | 179,827 | `TransferTypeOK` (with `TypeOK`), `StoreIsSound`, `AckedPutIsStored`, `AtomicOperations` (refinement), `EveryClientExits` | holds |
| `collision` | | `AckedPutIsStored` when two puts have one request id | violated |
| `resize` | | `SavedFileIsAVersion` when the object is replaced by a shorter one | violated |
| `ported` | 55,867 | `PortedTypeOK`, `HandlesNested`, `FailedSetupReleases`, `PortedTokenUsable`, `PeerBeforeRtr`, `EveryClientExits` | holds |
| `gosession` | 334,084 | `GoTypeOK`, `DeferredInOrder`, `PartReturnsClean`, `ReleasedOnce`, `GoTokenUsable`, `EveryClientExits` | holds |
| `multipart` | 175,568 | `TypeOK`, `AllStoresWholeFile`, `FailedAllIsRecoverable`, `AllStoresPrefix`, `AckedPartsSurvive` | holds |
| `onepart` | | `AllStoresWholeFile` for `all -part` in C | violated |
| `etags` | | `CollectsServerEtags` for `all` in C | violated |
| `wscontrol` | 183,951 | `WsTypeOK`, `HearsWhatIsSent`, `TakesWholeFrames`, `RegisteredByServerOnly`, `PathIsServers`, `HandshakeEnds` | holds |
| `gidindex` | | `PathIsFromGidIndex` when the server's index differs from the client's | violated |
| `s3call` | 102,521 | `CallTypeOK`, `SignatureAgrees`, `OkMeansDone`, `TakesServersAnswer`, `ReturnsClean` | holds |

What the passing runs show:

- `session`: whichever calls fail, whenever the server hangs up and whenever a
  process is killed, a put and a get release in order. The two have the same request
  id, so the server can take one client's token for the other's request; what a put has
  registered is read-only, and its buffer is never damaged by that.
- `transfer`: with unique ids and objects of one size, the programs are atomic
  operations, also when the S3 answer is lost, or the program killed, while the server
  reads memory that the client is about to release; and they end. A file whose writing
  failed is a beginning of a version, and of the last write, `fclose`'s, the program
  does not know that it failed. `SavedFileIsAVersion`, which `resize` violates, is
  proved for objects of one size (section 4).
- `ported`: the exceptions of Java and Python release every handle in order; a
  late message is never taken for another one; the Java program ends even
  against a server that never answers.
- `gosession`: in every pair of Go programs, the deferred calls release each
  thing once and in order, and no part leaves a connection or handle to the next.
- `multipart`: in C and Go, success means the whole file although the file may
  shrink, requests fail with and without effect or take effect late, and someone
  aborts uploads; what fails is aborted or complete enough to be completed by hand.
  Java and Python do not notice a file that shrinks, so success means a *prefix* of
  the file with no hole, as it does in C when the part count does not fit an `int`.
  Not promised is a Java upload whose part offsets do not fit an `int` (`OffsetsFit`):
  such a file is no array, so `readAllBytes` throws, unless it has shrunk to one that is
  before it is read, and then a wrapped offset can take bytes from the wrong place.
  Every failure of theirs is followed by an abort. In the manual flow, with a server
  that compares ETags, nothing confirmed and listed is lost or exchanged between
  ListParts and CompleteMultipartUpload; what is missing is beyond the first page.
- `wscontrol`: texts at the limits of the length encodings arrive as they were sent,
  except for one case: where at most six bytes of a text are left unwritten, the close
  frame completes it, and the server hears it with a garbled end (`EndsGarbled`) from a
  client that has failed; reads cut anywhere give whole frames; a ping or a piece of a message ends the
  handshake with an error instead of being mistaken for the answer, except that a
  message cut just before its last number connects with an MTU of 0, which the queue
  pair refuses; a response longer than its buffer puts the client out of step, and
  even then it does not register by mistake.
- `s3call`: every call sends what it signed, reports success only for what was done,
  takes only what the server said, as far as its buffers hold it, and frees everything
  on every path, except the beginning of a header list for which memory ran out. A
  part number that is no number or does not fit an `int`, and an ETag that fills its
  field to the last byte, which `strncpy` leaves without a zero, are not promised.

### Bounds

- Two clients in the session and transfer runs. Sessions share only the server's
  table of ids and the store, both indexed by one id or key; an interference
  needs two parties, and each run has the pair it needs (put and get, put and
  put, Java and Python).
- Two keys, objects of one or two bytes: two bytes are enough to tell a whole
  object from a mixture, and one from two to tell a shorter object.
- Three bytes in parts of two: one full part and one short part, so that order,
  holes, the last part's length and truncation inside and before a part all
  differ. `MaxPart` = 3, one more than these files need; one program uploads a
  file of four parts, the last of which is refused. With `IntBits` = 3, files of 9,
  15 and 17 bytes have 5, 8 and 9 parts, which an `int` turns into -3, 0 and 1: each
  kind of wrong count. A Java upload of five bytes (`Oversized`) that are cut down to an
  array's size has an offset that wraps, to a negative one; that a wrapped offset falls
  inside the file needs more parts than the run has, and is covered by the proof. Pages of one part and of three: fewer than there are, and all.
  Two repetitions: one attempt can overtake another.
- Two parts per file in `gosession`: the second session starts from what the
  first has left, a third would start from the same.
- `Radix` = 32, so `Short` is 14; the register requests have 13, 14, 15 and 33 bytes:
  below, at and above the limit, and with a length that takes both bytes. A frame
  of `Radix * Radix` bytes is the first with a 64-bit length. `BufSize` = 20, reached
  by errors of 19 and 20 bytes; `RespMax` = 4, reached, just missed and passed by the
  upgrade responses. One mask, with a zero byte and different others. GIDs of four
  bytes instead of sixteen.
- `Cap0` = 3: answers of up to twenty tokens double the buffer several times. ETags of
  0, 7 and 255 bytes, the last the longest the code's array holds; up to three parts.
  Buffers of 3, 4 and 4 characters for upload ids, part numbers and ETags, reached and
  passed by the answers; `IntBits` = 5 and `LongBits` = 7, so that part numbers of up to
  three digits fit an `int`, fit a `long` only, and fit neither.
- Channels are not bounded: a process sends at most four messages.

### Fairness

A process that can take a step takes one (weak fairness of its program): the operating
system schedules it. A server that can take some step for a client, on the control
connection or for its request, takes one. In C, Python and Go `ws_recv_text`, `ws.recv` and `ReadJSON` block
without a timeout, so `EveryClientExits` needs a server that at some time handles the
messages it has received, and in the transfer answers the S3 request (an error will do,
and so will the hang-up). In Java every wait is bounded (15 s for the WebSocket, 30 s
for HTTP), so nothing is assumed of the server. `HandshakeEnds` assumes a running client
and a server that answers the upgrade and each whole frame it has received, in whatever
way; a frame that never becomes whole obliges it to nothing. Faults (hang-ups, lost
answers, kills, Errors) are never fair. `Multipart` and `S3Call` state no liveness:
their waits are those of libcurl and of the session, and the code sets no timeout for
them.

## 4. Proofs

`RdmaSessionProofs` proves, for **any set of clients, any subset of receivers and
any assignment of request ids**, duplicates included:

| theorem | states |
|---|---|
| `TypeCorrect` | `Spec => []TypeOK` |
| `Invariance` | `Spec => []IInv` |
| `CleanupOrder` | `Spec => []DependencyClosed` |
| `NoLeak` | `Spec => []NoLeakAtExit` |
| `MemorySafe` | `Spec => []RegisteredIsMapped` |
| `TokenUsable` | `Spec => []TokenIsUsable` |
| `PeerAnswered` | `Spec => []PeerBeforeRtr` |
| `CloseBeforeRelease` | `Spec => ReleaseAfterClose` |

The assumptions are those `RdmaSession` names: the receivers are clients,
`RequestId` is a function into the ids, and `NoClient` is not a client.

None of the properties is inductive. What a client holds when a call fails
depends on how far it came, so `HoldInv` gives the exact set of handles for each
step of the ladder, and on the failure paths, where many sets are possible,
that the set is closed under `Parents`; `cleanup` keeps it closed because
`CleanupRank` puts each handle before its parents. Whether the server can have a
token depends on the messages in flight: `TokenInv` says that a token is in the
channel or at the server only after `send_token`, when `AccessInv` and `QpInv`
say what was set up, and `PeerInv` that a `qpinfo_server` is in the other channel
only after the server paired. `BufInv` and `WsInv` tie the buffer and the socket
to the program counter. `IInv` is their conjunction with `TypeOK`. A client's
part of it mentions only that client, so a step of one client keeps the
invariant of the others (`StepFrame`, `SameInv`); for the client that moves,
`ProcessInv` has one step per call of the program and `ControlInv` one per
message of the server. `CloseBeforeRelease` follows from `WsInv` alone: only
`cleanup` and `Killed` release, neither with an open socket afterwards.

`RdmaTransferProofs` adds, for **any clients, ids, keys, files and initial store**:

| theorem | states | assuming |
|---|---|---|
| `RefinesSession` | `TransferSpec => ImplementsSession` | – |
| `TransferInvariance` | `TransferSpec => [](IInv /\ TInv)` | – |
| `TransferTypes` | `TransferSpec => []TransferTypeOK` | – |
| `SendBufferSafe` | `TransferSpec => []SendBufferIntact` | – |
| `StoreSound` | `TransferSpec => []StoreIsSound` | `DistinctIds` |
| `AckedStored` | `TransferSpec => []AckedPutIsStored` | `DistinctIds` |

`RefinesSession` has one case per step of the composed system (`StepRefines`): it is
a step of the sessions or leaves their variables alone. With it, `IInv` and all the
theorems of the first table hold of the programs.

`TInv` is what has to be added. `SendBufferIntact` rests on `SenderRights`: the
region of a put only ever has the right to be read (`RightsStep`), so no write of the
server reaches it, whichever token the server uses. `StoreIsSound` and
`AckedPutIsStored` rest on whose token that is: `OwnerInv` says that the server's
table leads from an id to a client that generates it, so with distinct ids
(`DistinctIds`, which the code does not guarantee, see `collision`) a request in
service has its own program's token (`RequestInv`); that program's buffer is its file
by `SendBufferIntact` as long as it is registered, by `IInv`; so what is staged, and
then stored, is the file. A client that is killed, or gives up, takes its region with
it before its buffer is unmapped, so the read that was still to come finds no region
(`Reachable`). TLC checked `TInv` on the instances of `session` and
`transfer` before it was proved.

### Atomicity

`RdmaTransferProofs` also shows what `transfer` checks on an instance, again for any
clients, ids, keys, files and store:

| theorem | states | assuming |
|---|---|---|
| `AtomicityInvariance` | `TransferSpec => [](IInv /\ TInv /\ OInv)` | – |
| `SavedIsVersion` | `TransferSpec => []SavedFileIsAVersion` | `DistinctIds`, `EqualSizes` |
| `Atomic` | `TransferSpec => AtomicOperations` | `DistinctIds`, `EqualSizes` |

`EqualSizes` says that all versions of an object are equally long. The code guarantees
neither assumption, and the runs `collision` and `resize` show what happens without
them. `OInv` adds two things to `TInv`: how the program, its request and its report
advance together (`Phases`: success is only ever reported of a request the server has
done), and that the buffer of a get is as long as some version and, once the server has
written it, *is* a version (`GetBuffer`), which needs that the token was its own and
that the write left nothing of the buffer untouched. The file is the whole buffer if
every write succeeded, and a beginning of it otherwise. `Atomic` then takes each step to a
step of `ObjectOps` or to none: the step in which the server stores a put, or fills the
buffer of a get, is the one at which the operation takes effect, and the sessions' steps
change nothing abstract, since no program goes back to an earlier phase (`PcStep`).

### Java, Python and Go sessions

`PortedSessionProofs`, for any clients, any of them Java and the others Python:

| theorem | states |
|---|---|
| `PortedInvariance` | `PortedSpec => []PortedInv` |
| `PortedTypes` | `PortedSpec => []PortedTypeOK` |
| `PortedCleanupOrder` | `PortedSpec => []HandlesNested` |
| `PortedSetupReleases` | `PortedSpec => []FailedSetupReleases` |
| `PortedTokens` | `PortedSpec => []PortedTokenUsable` |
| `PortedPeerAnswered` | `PortedSpec => []PeerBeforeRtr` |
| `PortedNoLeak` | `PortedSpec => []NoLeakAtExit` |

`GoSessionProofs`, for any clients, any mix of the three programs and any number of
parts:

| theorem | states |
|---|---|
| `GoInvariance` | `GoSpec => []GoInv` |
| `GoTypes` | `GoSpec => []GoTypeOK` |
| `GoDeferredOrder` | `GoSpec => []DeferredInOrder` |
| `GoReleasedOnce` | `GoSpec => []ReleasedOnce` |
| `GoPartClean` | `GoSpec => []PartReturnsClean` |
| `GoNoLeak` | `GoSpec => []NoLeakAtExit` |
| `GoTokens` | `GoSpec => []GoTokenUsable` |
| `GoPeerAnswered` | `GoSpec => []PeerBeforeRtr` |

All three kinds of session speak to the same control endpoint, and what a step of it can
do to a client (`ControlEffect` of `RdmaSessionProofs`: it changes neither the client's
own state nor its types, arms only on a token it was sent and answers only when it has
paired) is proved once for them. `PortedInv` has the shape of `IInv`; its own points are
that a `qpinfo_server` may also wait in the listener's queue (`PortedPeer`), and that
the WebSocket and the buffer follow the exceptions and not the ladder. `GoInv` rests on
one idea: the stack of deferred calls is always an initial part of one fixed list per
program (`GoStack`), each step of the program has pushed a known number of them
(`GoDepth`), and a thing is held exactly if its release is on the stack (`GoHeld`).
Order, release-once and nothing left for the next part follow from those three, while
the stack is run down from its end as well as while it grows.

### Multipart

`MultipartProofs`, for any processes, command lines, files, truncations, part sizes,
int widths, page lengths, part limits and numbers of repetitions:

| theorem | states |
|---|---|
| `MultipartInvariance` | `Spec => []MInv` |
| `MultipartTypes` | `Spec => []TypeOK` |
| `MultipartAcked` | `Spec => []AckedPartsSurvive` |
| `MultipartWhole` | `Spec => [](Undisturbed => AllStoresWholeFile)` |
| `MultipartPrefix` | `Spec => [](Undisturbed /\ WithoutPart => AllStoresPrefix)` |
| `MultipartRecoverable` | `Spec => [](Undisturbed => FailedAllIsRecoverable)` |

`Undisturbed` is a condition on the command lines of a behaviour: nobody runs
`-action upload`, whose `-uploadid` could name another program's upload, and `all` in
C has no `-part` (with it the property is false, see `onepart`). It holds in every
world of the run that has an `all` in C or Go. Aborts, completions and lists by
others, on any upload, remain possible.

The lemmas come first: `Ascending` really is the order of a finite set of numbers
(`AscendingIsOrder`), so a list lacks a stored part only beyond its page
(`ListedParts`); and a piece read in full from a file that has lost bytes at its end is
that piece of the original (`SliceOfShrunk`), which is why the length check of C and Go
is enough. The parts of `MInv` are then `Control` (where a process is, whose upload it
works on), `Uploads` (every confirmed part is stored, and stays so; nothing is stored or
late before the upload exists), `Shrunk` (a file is an initial piece of what it was),
`Completing` (between ListParts and the completion, the list is complete for what was
confirmed when it was asked for), `GivesUpOpenly`, and `Uploading` (the first `next - 1`
parts are stored and listed as planned; *every late part of the upload has the planned
contents*, so whenever it arrives it changes nothing). A step of a process changes
nothing of another's own state (`OthersStay`) and does one of five things to the
server's (`ServerStep`). TLC checked `MInv` on the instance of `multipart` first.

`MultipartPrefix` is about all four languages, and `WithoutPart` is the same condition
on `-part` for Java and Python. What makes a joined object a beginning of the file is
`InOrder`: each part is a piece of the file that begins where the part should, and
after a part that is not whole there are only empty ones (`BeginningOf`, by induction
over the parts). Parts as C and Go plan them are `InOrder` for *every* number of them
(`PlannedInOrder`), which is why a wrapped part count does no worse than cut the object
short. Java and Python do not compare lengths; their invariant `Loose` says instead that
once a part was not whole, the source it was cut from (`Source`: Java's copy, or the
file itself, which only shrinks) ends before the next part begins, so that nothing more
is found there (`Gathered`); and that no late part of the upload exists while it can
still be completed, because both give up at the first failure. In Java the offset is
cast to an `int`; it is the place of the part as long as the last one's offset fits
(`OffsetsFit`, a condition of `AllStoresPrefix` itself). `Loose`, too, was first
checked by TLC on the instance of `multipart`.

### S3 calls

`S3CallProofs`, for any lists of parts, sizes of the buffer and answers, cut anywhere:

| theorem | states |
|---|---|
| `CallInvariance` | `Spec => []CallInv` |
| `CallTypes` | `Spec => []CallTypeOK` |
| `CallSignature` | `Spec => []SignatureAgrees` |
| `CallDone` | `Spec => []OkMeansDone` |
| `CallTakesAnswer` | `Spec => []TakesServersAnswer` |
| `CallClean` | `Spec => []ReturnsClean` |

`CallInv` says what may be allocated at each step (`Held`), that a successful answer
has been preceded by the work and success rests on such an answer (`Reported`), and
that the request is the one the operation builds. `SignatureAgrees` is then a statement
about the requests alone, with lemmas on the order of parameters (`SortedShort`).

`CallTypes` is about room: the body of complete fits what was allocated for it whatever
the lengths of its ETags (`Room`; the offset of the loop is bounded part by part), and
the doubling of `write_response` ends with a capacity that holds what has arrived.
`CallTakesAnswer` rests on `Taken` and `Received`: the response is a beginning of the
text the server sent, and all of it where its length was announced. What the parser
finds in a beginning is then worked out once: a block that has arrived whole gives its
part or, without a number or an ETag, none (`BlockFound`); behind the last whole block
nothing is found (`BlockCut`); so the list is that of the whole blocks, a beginning of
the server's. A value is found between its tags because no value contains a tag; it is
taken whole if it is shorter than its buffer, and its number is its own if it is made of
digits and an `int` holds it (`Countable`).

`CallClean` says nothing is left but what the caller is given, and after a failure
perhaps the beginning of a header list that `curl_slist_append` lost. That no call
succeeds in spite of that (`CallDone`, and `CallClean` for a success) rests on the order
of the list: an append that fails after the first takes the date or the signature with
it, and the server refuses the request. A bucket that takes unsigned requests is not
modelled.

### The control connection

`WsControlProofs`, for any masks, request ids, buffer sizes, responses to the upgrade,
and any cuts of the bytes into reads:

| theorem | states |
|---|---|
| `ControlTypes` | `Spec => []WsTypeOK` |
| `HearsInOrder` | `Spec => []HearsWhatIsSent` |
| `TakesFrames` | `Spec => []TakesWholeFrames` |
| `RegisteredByServer` | `Spec => [](Unsynchronised \/ RegisteredByServerOnly)` |
| `PathToServer` | `Spec => [](Unsynchronised \/ PathIsServers)` |

The inductive invariant has four parts, one for each thing that travels. `WsTypeOK`
includes that a text that was taken fits its buffer with the zero. `Heard` describes
the bytes on their way up (`OnTheWay`): frames of whole texts, and then nothing, a
close frame, the header of a text whose body is still to be written, or a part of a
frame, cut anywhere, followed by a close frame, because a write stopped short. The last
is the hard case (`Cuts`, `CutsHeard`): what is left of the frame and the close frame
together are too short for it, so that the server waits, or, where at most `CloseLen`
bytes were missing, just enough, so that it hears the text with its end garbled
(`CutTextArrives`) and, the rest being no whole frame, nothing after it (`Spent`).
`Taking` describes the other direction: until the
upgrade has been read, what was read and what is coming is a beginning of the response
(`Upgrading`); after that, a beginning of a sequence of frames, of which the client is
at the first (`Coming`), all of it as long as the connection is open; and every text
the server has sent is `Told`: it says registered only if the server has registered,
and is a piece of the server's queue pair only if it has paired. `ReadHeader` and
`ReadWhole` show that `Wanted` leads the client to the end of exactly that frame, in
whatever pieces it reads. `Known` is what follows for the client from `Told`: a text
that is accepted (`RegisterTold`, `QpInfoTold`) is the whole answer, or the answer
without its last number.

The last two theorems leave out a response to the upgrade that does not fit its buffer.
Then the client reads the rest of the response as frames, and what those look like
depends on the bytes; TLC checks the two properties for such responses as well.

### Induction over data

The library's induction theorems take an operator and cannot be used, but a set of
numbers can be instantiated: `SetInduction` (a set that contains 0, and with `n` also
`n + 1`, contains every natural number) is proved in `SequenceLemmas` from the
well-foundedness of `<`. Every induction of the project, over the blocks of a response,
the doublings of a buffer, the parts of a list or the frames of a connection, is an
induction over the set of the numbers up to which the claim holds. What is joined with
`FlattenSeq` is described by where each piece begins in the whole (`Offsets`).

### Checked by TLC only

- Liveness: `EveryClientExits` and `HandshakeEnds`. Fairness is out of the prover's
  reach.
- `RegisteredByServerOnly` and `PathIsServers` after a response to the upgrade that is
  longer than its buffer, see above.

## 5. Where the code and its documentation disagree

- **Request ids are not unique** (`collision`). `docs/rdma.md:658` says the
  program creates a *unique* request id from its pid; two hosts can have the
  same pid, and then an acknowledged put can have stored the other's bytes.
- **HEAD and GET are not atomic** (`resize`). The buffer has the size HEAD gave;
  if a shorter object replaces the old one in between, the rest of the buffer is
  saved too. The comment says "verify CRC"; the CRC is computed and printed.
- **`all -part n`** in C, Java and Python uploads one part and completes the
  upload (`onepart`); the documentation says all parts. Go ignores `-part`.
- **ETags** are made up from part numbers in C, Java and Python (`etags`); the
  documentation says they are collected. Go sends the server's.
- **The GID index** (`gidindex`). `rdmalib.h:16` says the queue pair is brought up on
  the caller's `gid_index`; all four libraries use the index in the *server's* answer
  for their own GID table. On hosts whose tables agree the two are the same.

Not disagreements with a documented promise, but worth knowing:

- A file of more than 2^31 - 1 parts is stored by C as the prefix its wrapped part
  count covers, or fails, depending on the count (`AllStoresPrefix`).
- `list` and `complete` see the first page of ListParts only, and in C an answer
  without an announced length that is cut off is used as far as it came
  (`AckedPartsSurvive`, `TakesServersAnswer`).
- The result of `fclose` is not looked at (`s3rdmaget.c:129`): if the last bytes cannot
  be written, "Download complete!" is printed over a truncated file (`"unflushed"` in
  `RdmaTransfer`).
- In Java, a part's offset is cast to an `int`. A file with offsets beyond that is
  larger than an array and cannot be read, unless it shrinks before it is; then a
  wrapped offset can upload bytes of another place (`OffsetsFit`).
- A text whose last bytes could not be written is completed by the close frame that
  follows, if there is room for it (`EndsGarbled`).
- In C an upload id of 256 characters or more is cut (`Clipped`), and a
  `curl_slist_append` that runs out of memory leaks the list it replaces and sends the
  request without those headers.
- `list-uploads` signs its parameters in the order it sends them, `uploads` first. A
  server that sorts them, as SigV4 asks, would compute another signature;
  `SignatureAgrees` therefore compares only the headers for this call.

## 6. Not modelled

- *Argument parsing, messages, the CRC that put and get print.* No state depends on
  them.
- *Hash computations* of SigV4: a signature is the record of what is signed.
- *S3 requests of Java, Python and Go*: the first two send the same requests through
  their HTTP libraries, Go through the AWS SDK; whether they succeed is a free choice.
- *Put and get of Java, Python and Go beyond the session*: their data path is the one
  of `RdmaTransfer`, and is not written down again.
- *Sizes from 2 GiB on in the Java session* (`RdmaSession.java:207`): sizes are
  abstract in `PortedSession`.
- *The server*, beyond what the clients rely on; its other services, the schema,
  the configuration and the monitoring: no source in the repository.

## 7. Plan

Written so far, in this order: `RdmaSession`, its proofs, `RdmaTransfer` with
`ObjectOps`, `PortedSession`, `Multipart`, `GoSession`; then the retries, integer
widths and pages of `Multipart`, `WsControl`, `S3Call` and `RdmaTransferProofs`; then
the proofs about `PortedSession`, `GoSession`, `S3Call`, `ObjectOps` and `Multipart`;
then `SequenceLemmas`, the proofs about `WsControl` and those of what `S3Call` takes
from an answer, and that an `all` stores a beginning of its file.
Next, most important first:

1. **`Multipart`**: `AllStoresWholeFile` of one process under a weaker condition
   than `Undisturbed`: nobody uploads to *its* upload.
2. **A composition of `Multipart` with the sessions**: one part's transfer refines
   `UploadPart`.
3. **A composition of `WsControl` with `RdmaSession`**: the messages of the latter are
   the texts of the former, which is what `HearsInOrder` and `TakesFrames` allow.
