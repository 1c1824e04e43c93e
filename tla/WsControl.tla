------------------------------ MODULE WsControl ------------------------------
(***************************************************************************)
(* The control connection of rdmalib.c below the messages of RdmaSession:  *)
(* the WebSocket upgrade, the frames, and what the JSON helpers take from  *)
(* a frame.  One client speaks to a server that may answer late, in pieces *)
(* of any size, with pings, in several frames, with a close frame, too     *)
(* much, or not at all.                                                    *)
(*                                                                         *)
(* A byte of a header is a number below Radix, so that the lengths at      *)
(* which the encoding changes are small: 126, 127 and 65536 are Short,     *)
(* Long and Radix * Radix.  A JSON text is a sequence of tokens (a key     *)
(* with its colon, a value), which stand for its bytes; they are numbers   *)
(* too, since the text is masked byte by byte.                             *)
(***************************************************************************)
EXTENDS Integers, Sequences, SequencesExt

CONSTANTS
  Radix,      \* 256 in the code
  GidLen,     \* 16 in the code
  GidIdx,     \* the index of the GID the client announces, gid_index
  ServerIdx,  \* the server's, gid_idx of its answer
  BufSize,    \* the receive buffers, char buf[1024]
  RespMax,    \* the bytes read of an upgrade response, sizeof(resp) - 1
  IdLens,     \* lengths of request ids
  Masks,      \* masking keys, sequences of four bytes
  Replies,    \* the server's responses to the upgrade request
  XorOf       \* the exclusive or of two bytes

ASSUME RadixAssumption == Radix \in Nat /\ Radix \in 16..40 /\ Radix % 2 = 0
ASSUME BufSizeAssumption == BufSize \in 1..Radix * Radix - 1 /\ RespMax \in Nat \ {0}
ASSUME GidIdxAssumption == GidIdx \in 57..63 /\ ServerIdx \in 57..63

ASSUME MasksAssumption == Masks \subseteq Seq(0..Radix - 1) /\ \A k \in Masks : Len(k) = 4
ASSUME GidLenAssumption == GidLen \in Nat /\ GidLen + 14 < Radix * Radix
ASSUME IdLensAssumption == IdLens \subseteq Nat \ 0..2   \* an id begins with "rdma-"

Byte == 0..63   \* the bytes of headers, and the tokens

ASSUME XorAssumption ==
  XorOf \in [Byte -> [Byte -> Byte]] /\ \A a, b \in Byte : XorOf[XorOf[a][b]][b] = a

Half  == Radix \div 2   \* 0x80, the FIN and the MASK bit
Short == Half - 2       \* 126, a 16-bit length follows
Long  == Half - 1       \* 127, a 64-bit length follows

\* Opcodes.
Cont == 0
Text == 1
Close == 3
Ping == 4

\* The tokens, above every byte of a header, and the numbers.
Tok == [begin |-> 40, data |-> 41, end |-> 42, register_request |-> 43,
        register_response |-> 44, qpinfo_client |-> 45, qpinfo_server |-> 46,
        token |-> 47, success |-> 48, qpn |-> 49, lid |-> 50, gid |-> 51,
        gid_idx |-> 52, mtu_enum |-> 53, bracket |-> 54, error |-> 55]
True  == 56
Digit == 57..63

VARIABLES
  pc,     \* where the client is
  up,     \* bytes on their way to the server
  down,   \* bytes on their way to the client
  got,    \* what the client has read of the response or frame it is in
  body,   \* the masked text that follows the header written last, or << >>
  sent,   \* the texts given to ws_send_text
  taken,  \* the texts ws_recv_text has filled its buffer with
  peer,   \* the qpinfo_t taken from the server's answer
  path,   \* the address the queue pair is connected to
  srv,    \* the server's side: "none", "accepted", "open", "gone"
  reply,  \* its response to the upgrade
  heard,  \* the texts it has received
  said,   \* the answers it has given: "registered", "paired"
  gave    \* the texts of the frames it has sent

clientVars == <<pc, got, body, sent, taken, peer, path>>
serverVars == <<srv, reply, heard, said, gave>>
vars == <<clientVars, serverVars, up, down>>

\* The texts in transit of one exchange.  A request id is n tokens.
RegisterRequest(n) ==
  <<Tok.begin, Tok.register_request, Tok.data>> \o [i \in 1..n |-> 57 + (i % 5)]
    \o <<Tok.end>>
QpInfoClient == <<Tok.begin, Tok.qpinfo_client, Tok.data, Tok.qpn, 57, Tok.lid, 58,
                  Tok.mtu_enum, 59, Tok.end>>
TokenMsg == <<Tok.begin, Tok.token, Tok.data, 60, 61, 62, 63, Tok.end>>

\* The server's queue pair, and the texts of its answers.
ServerQp == [qpn |-> 57, lid |-> 58, gid |-> [i \in 1..GidLen |-> 59 + (i % 3)],
             gid_idx |-> ServerIdx, mtu_enum |-> 63]
Registered(ok) ==
  <<Tok.begin, Tok.register_response, Tok.data, Tok.success, ok, Tok.end>>
QpInfoServer ==
  <<Tok.begin, Tok.qpinfo_server, Tok.data, Tok.qpn, ServerQp.qpn, Tok.lid,
    ServerQp.lid, Tok.gid, Tok.bracket>> \o ServerQp.gid
    \o <<Tok.gid_idx, ServerQp.gid_idx, Tok.mtu_enum, ServerQp.mtu_enum, Tok.end>>
ErrorText(n) == <<Tok.error>> \o [i \in 1..n - 1 |-> 57]

Init ==
  /\ pc = "dial" /\ up = << >> /\ down = << >> /\ got = << >> /\ body = << >>
  /\ sent = << >> /\ taken = << >> /\ peer = << >> /\ path = << >>
  /\ srv = "none" /\ reply = << >> /\ heard = << >> /\ said = {} /\ gave = << >>

----------------------------------------------------------------------------
(* The frame format, RFC 6455, which the server follows.                   *)

\* Masking and unmasking are the same; an empty key leaves the text alone.
Masked(p, mask) ==
  IF mask = << >> THEN p
  ELSE [i \in DOMAIN p |-> XorOf[p[i]][mask[((i - 1) % 4) + 1]]]

Header(fin, op, n, mask) ==
  LET m == IF mask = << >> THEN 0 ELSE Half
  IN  <<fin * Half + op>>
        \o (CASE n < Short -> <<m + n>>
              [] n >= Short /\ n < Radix * Radix ->
                   <<m + Short, n \div Radix, n % Radix>>
              [] OTHER -> <<m + Long, 0, 0, 0, 0, 0, n \div (Radix * Radix),
                            (n \div Radix) % Radix, n % Radix>>)
        \o mask

Frame(fin, op, p, mask) == Header(fin, op, Len(p), mask) \o Masked(p, mask)

----------------------------------------------------------------------------
(* The client.                                                             *)

\* Fault: a text of exactly 126 bytes is given the 7-bit length.
SendHeader_ShortLimit(n, mask) ==
  <<Half + Text>>
    \o (IF n <= Short THEN <<Half + n>>
        ELSE <<Half + Short, n \div Radix, n % Radix>>)
    \o mask

\* The header of ws_send_text.
SendHeader(n, mask) ==
  <<Half + Text>>
    \o (IF n < Short THEN <<Half + n>>
        ELSE <<Half + Short, n \div Radix, n % Radix>>)
    \o mask

\* Fault: the key is applied from its second byte on.
MaskText_Shifted(msg, mask) ==
  [i \in DOMAIN msg |-> XorOf[msg[i]][mask[(i % 4) + 1]]]

\* The masking loops of ws_send_text and ws_recv_text.
MaskText(msg, mask) ==
  [i \in DOMAIN msg |-> XorOf[msg[i]][mask[((i - 1) % 4) + 1]]]

\* ws_close: a close frame, which nobody checks, and close(fd).  If part of it
\* is not written the server is left with less, and nothing follows.
ws_close(next) ==
  /\ pc' = next /\ body' = << >> /\ got' = << >>
  /\ \E mask \in Masks : up' = up \o <<Half + Close, Half>> \o mask
  /\ UNCHANGED <<sent, taken, peer, path>>

\* The steps with the connection open end like this when they fail.
Fail == ws_close("failed")

\* write(fd, bytes, n) != n: some of the bytes are written, or none, and the
\* ws_close that follows puts its frame behind them.
ShortWrite(bytes) ==
  /\ pc' = "failed" /\ body' = << >> /\ got' = << >>
  /\ \E n \in 0..Len(bytes) - 1, mask \in Masks :
       up' = up \o SubSeq(bytes, 1, n) \o <<Half + Close, Half>> \o mask
  /\ UNCHANGED <<sent, taken, peer, path>>

\* ws_dial up to the write of the upgrade request.
Dial ==
  /\ pc = "dial"
  /\ \/ pc' = "failed" /\ UNCHANGED <<up, srv>>
     \/ pc' = "upgrade" /\ srv' = "accepted" /\ up' = <<0>>
  /\ UNCHANGED <<down, got, body, sent, taken, peer, path, reply, heard, said, gave>>

\* Tokens of a response: a status line with 101, another one, any header,
\* and the empty line.
Status101 == 1
StatusBad == 2
HttpField == 4
EmptyLine == 5

\* A response ends with its first empty line.
ASSUME RepliesAssumption ==
  /\ Replies \subseteq Seq({Status101, StatusBad, HttpField, EmptyLine})
  /\ \A r \in Replies : r # << >> /\ \A i \in DOMAIN r : r[i] = EmptyLine <=> i = Len(r)

\* strstr(resp, "101"): the end of the response is not asked for.
Upgraded(resp) == Contains(resp, Status101)

\* The response, read byte by byte to its empty line or to the buffer's end.
ReadUpgrade ==
  /\ pc = "upgrade"
  /\ \/ /\ down # << >>
        /\ LET resp == Append(got, Head(down))
               last == Head(down) = EmptyLine \/ Len(resp) = RespMax
           IN  /\ got' = IF last THEN << >> ELSE resp
               /\ pc' = IF ~last THEN "upgrade"
                        ELSE IF Upgraded(resp) THEN "register" ELSE "failed"
        /\ down' = Tail(down)
     \/ /\ down = << >> /\ srv = "gone"
        /\ pc' = "failed" /\ got' = << >> /\ UNCHANGED down
  /\ UNCHANGED <<up, body, sent, taken, peer, path, serverVars>>

\* ws_send_text: the header is written, then the text.
WriteHeader(at, msg) ==
  /\ pc = at /\ body = << >>
  /\ \/ /\ Len(msg) < Radix * Radix
        /\ \E mask \in Masks :
             \/ /\ up' = up \o SendHeader(Len(msg), mask)
                /\ body' = MaskText(msg, mask) /\ sent' = Append(sent, msg)
                /\ UNCHANGED <<pc, got, taken, peer, path>>
             \/ ShortWrite(SendHeader(Len(msg), mask))
     \/ Len(msg) >= Radix * Radix /\ Fail
  /\ UNCHANGED <<down, serverVars>>

\* The buffer for the masked text may be refused: then none of it is written.
WriteBody(at, next) ==
  /\ pc = at /\ body # << >>
  /\ \/ /\ up' = up \o body /\ body' = << >> /\ pc' = next
        /\ UNCHANGED <<got, sent, taken, peer, path>>
     \/ ShortWrite(body)
  /\ UNCHANGED <<down, serverVars>>

ws_send_text(at, msg, next) == WriteHeader(at, msg) \/ WriteBody(at, next)

\* The number in two or eight bytes, or Radix^2 if it is larger.
Number(bytes) ==
  LET n == Len(bytes)
  IN  IF \E i \in 1..n - 2 : bytes[i] # 0 THEN Radix * Radix
      ELSE bytes[n - 1] * Radix + bytes[n]

ExtLen(got_) ==
  CASE got_[2] % Half = Short -> 2 [] got_[2] % Half = Long -> 8 [] OTHER -> 0

MaskLen(got_) == IF got_[2] >= Half THEN 4 ELSE 0

TextLen(got_) ==
  IF ExtLen(got_) = 0 THEN got_[2] % Half
  ELSE Number(SubSeq(got_, 3, 2 + ExtLen(got_)))

\* Fault: the terminating zero is forgotten.
Refused_NoZero(n) == n > BufSize

\* Room is needed for the text and its terminating zero.
Refused(n) == n >= BufSize

\* How many bytes the calls of read_full have asked for in all, given what
\* they have returned so far.
Wanted ==
  IF Len(got) < 2 THEN 2
  ELSE LET ext  == 2 + ExtLen(got)
           head == ext + MaskLen(got)
       IN  IF Len(got) < ext THEN ext
           ELSE IF Len(got) < head THEN head ELSE head + TextLen(got)

HaveHeader == Len(got) >= 2 /\ Len(got) >= 2 + ExtLen(got) + MaskLen(got)

\* Fault: the text of a masked frame is left masked.
RecvText_Masked == SubSeq(got, Wanted - TextLen(got) + 1, Wanted)

RecvText ==
  LET start == Wanted - TextLen(got)
      text  == SubSeq(got, start + 1, Wanted)
  IN  IF MaskLen(got) = 0 THEN text ELSE MaskText(text, SubSeq(got, start - 3, start))

\* One call of read: any part of what is there and still wanted, or, when
\* nothing more will come, an error.
read_full(at) ==
  /\ pc = at /\ Len(got) < Wanted /\ ~(HaveHeader /\ Refused(TextLen(got)))
  /\ \/ \E k \in 1..(Wanted - Len(got)) :
          /\ k <= Len(down)
          /\ got' = got \o SubSeq(down, 1, k)
          /\ down' = SubSeq(down, k + 1, Len(down))
          /\ UNCHANGED <<pc, body, sent, taken, peer, path, up>>
     \/ down = << >> /\ srv = "gone" /\ Fail /\ UNCHANGED down
  /\ UNCHANGED serverVars

\* A C string ends at its first zero.
CString(buf) ==
  LET zero == SelectInSeq(buf, LAMBDA b : b = 0)
  IN  IF zero = 0 THEN buf ELSE SubSeq(buf, 1, zero - 1)

\* The position of what follows the first occurrence of the key, 0 if none.
json_find_key(json, key) ==
  LET p == SelectInSeq(json, LAMBDA b : b = key) IN IF p = 0 THEN 0 ELSE p + 1

At(json, p) == IF p \in DOMAIN json THEN json[p] ELSE 0

\* strtoull gives 0 where there is no number.
json_get_u64(json, key) ==
  LET v == At(json, json_find_key(json, key)) IN IF v \in Digit THEN v ELSE 0

json_get_bool(json, key) == At(json, json_find_key(json, key)) = True

\* Where the text ends early, the remaining bytes are 0.
json_get_bytes16(json, key) ==
  LET p == json_find_key(json, key)
  IN  [i \in 1..GidLen |-> IF \A j \in 1..i : At(json, p + j) \in Digit
                       THEN json[p + i] ELSE 0]

\* Fault: success is assumed unless the answer says otherwise.
RegisterAccepted_Default(json) ==
  Contains(json, Tok.register_response) /\ ~json_get_bool(json, Tok.error)

RegisterAccepted(json) ==
  Contains(json, Tok.register_response) /\ json_get_bool(json, Tok.success)

\* Fault: a key that is missing is left at zero.
QpInfoAccepted_MissingKeys(json) == Contains(json, Tok.qpinfo_server)

\* Every key has to be there, the gid with its bracket.
QpInfoAccepted(json) ==
  /\ Contains(json, Tok.qpinfo_server)
  /\ \A k \in {Tok.qpn, Tok.lid, Tok.gid_idx, Tok.mtu_enum} : json_find_key(json, k) # 0
  /\ At(json, json_find_key(json, Tok.gid)) = Tok.bracket

\* What the caller of ws_recv_text accepts, at each of its two places.
Accepted(at, json) ==
  IF at = "registered" THEN RegisterAccepted(json) ELSE QpInfoAccepted(json)

\* The caller goes on with any frame but a close frame, a ping or a piece of a
\* message too.
GoesOn(at, json) == got[1] % Half # Close /\ Accepted(at, json)

qpinfo_t(json) ==
  [qpn      |-> json_get_u64(json, Tok.qpn),
   lid      |-> json_get_u64(json, Tok.lid),
   gid      |-> json_get_bytes16(json, Tok.gid),
   gid_idx  |-> json_get_u64(json, Tok.gid_idx),
   mtu_enum |-> json_get_u64(json, Tok.mtu_enum)]

\* The buffer and the string in it are handed to the caller, who closes the
\* connection if it cannot use them.
TakeFrame(at, next, buf, json) ==
  /\ taken' = Append(taken, buf) /\ got' = << >>
  /\ \/ /\ GoesOn(at, json) /\ pc' = next
        /\ peer' = IF next = "rtr" THEN qpinfo_t(json) ELSE peer
        /\ UNCHANGED up
     \/ /\ ~GoesOn(at, json) /\ pc' = "failed" /\ UNCHANGED peer
        /\ \E mask \in Masks : up' = up \o <<Half + Close, Half>> \o mask
  /\ UNCHANGED <<body, sent, path>>

ws_recv_text(at, next) ==
  \/ read_full(at)
  \/ /\ pc = at /\ HaveHeader
     /\ \/ Refused(TextLen(got)) /\ Fail
        \/ /\ ~Refused(TextLen(got)) /\ Len(got) = Wanted
           /\ \E buf \in {RecvText}, json \in {CString(RecvText)} :
                TakeFrame(at, next, buf, json)
     /\ UNCHANGED <<down, serverVars>>

send_register_request ==
  \E n \in IdLens : ws_send_text("register", RegisterRequest(n), "registered")

recv_register_response == ws_recv_text("registered", "pair")

\* The verbs calls between the two exchanges, and after them.
Verbs ==
  /\ pc \in {"pair", "rtr", "token"} /\ body = << >> /\ Fail
  /\ UNCHANGED <<down, serverVars>>

send_qpinfo_client == ws_send_text("pair", QpInfoClient, "paired")

recv_qpinfo_server == ws_recv_text("paired", "rtr")

\* The path of the queue pair, all of it from the server's answer, the index
\* of the client's own GID (sgid_index) too.
v_qp_to_rtr ==
  /\ pc = "rtr" /\ pc' = "token"
  /\ path' = [dest_qp_num |-> peer.qpn, dlid |-> peer.lid, dgid |-> peer.gid,
              sgid_index |-> peer.gid_idx, path_mtu |-> peer.mtu_enum]
  /\ UNCHANGED <<up, down, got, body, sent, taken, peer, serverVars>>

send_token == ws_send_text("token", TokenMsg, "close")

\* The end of rdma_recv_setup and rdma_send_setup.
CloseWs == pc = "close" /\ ws_close("done") /\ UNCHANGED <<down, serverVars>>

Client ==
  \/ Dial \/ ReadUpgrade \/ send_register_request \/ recv_register_response
  \/ Verbs \/ send_qpinfo_client \/ recv_qpinfo_server \/ v_qp_to_rtr \/ send_token \/ CloseWs

----------------------------------------------------------------------------
(* The server, external.                                                   *)

SrvUpgrade ==
  /\ srv = "accepted" /\ up # << >>
  /\ \E r \in Replies :
       /\ reply' = r /\ down' = r
       /\ srv' = IF Contains(r, Status101) THEN "open" ELSE "gone"
  /\ up' = Tail(up)
  /\ UNCHANGED <<clientVars, heard, said, gave>>

\* The frame at the head of up, if it has a header of h bytes and a text of n,
\* has arrived, and the header is the one RFC 6455 gives it.
FrameAt(h, n) ==
  IF /\ h + n <= Len(up)
     /\ \E op \in {Text, Close} : SubSeq(up, 1, h) = Header(1, op, n, SubSeq(up, h - 3, h))
  THEN {[len |-> h + n, op |-> up[1] % Half,
         text |-> Masked(SubSeq(up, h + 1, h + n), SubSeq(up, h - 3, h))]}
  ELSE {}

Arrived == FrameAt(6, up[2] - Half) \cup FrameAt(8, up[3] * Radix + up[4])

\* The ways a text is put into frames: one, masked or not, one after a ping,
\* or two with a cut between any two tokens.
Framings(t) ==
  LET frame(fin, op, p, mask) == [text |-> p, bytes |-> Frame(fin, op, p, mask)]
  IN  {<<frame(1, Text, t, mask)>> : mask \in Masks \cup {<< >>}}
        \cup {<<frame(1, Ping, << >>, << >>), frame(1, Text, t, << >>)>>}
        \cup {<<frame(0, Text, SubSeq(t, 1, k), << >>),
                frame(1, Cont, SubSeq(t, k + 1, Len(t)), << >>)>> : k \in 1..Len(t) - 1}

Give(frames) ==
  /\ gave' = gave \o [i \in DOMAIN frames |-> frames[i].text]
  /\ down' = down \o FlattenSeq([i \in DOMAIN frames |-> frames[i].bytes])

\* An answer to a text: what was asked for, a refusal, an error as long as
\* the buffer or one token shorter, a frame whose length takes eight bytes
\* (of which only the header matters), or a close frame.
Answer(text) ==
  \/ /\ text[2] = Tok.register_request
     /\ \/ /\ said' = said \cup {"registered"}
           /\ \E fs \in Framings(Registered(True)) : Give(fs)
        \/ said' = said /\ \E fs \in Framings(Registered(57)) : Give(fs)
  \/ /\ text[2] = Tok.qpinfo_client
     /\ said' = said \cup {"paired"}
     /\ \E fs \in Framings(QpInfoServer) : Give(fs)
  \/ text[2] = Tok.token /\ UNCHANGED <<said, gave, down>>
  \/ /\ text[2] # Tok.token /\ said' = said
     /\ \E f \in {[text |-> ErrorText(n), bytes |-> Frame(1, Text, ErrorText(n), << >>)] :
                    n \in {BufSize - 1, BufSize}}
              \cup {[text |-> << >>, bytes |-> Frame(1, Close, << >>, << >>)],
                    [text |-> <<Tok.error>>,
                     bytes |-> Header(1, Text, Radix * Radix, << >>)]} : Give(<<f>>)

SrvServe ==
  /\ srv = "open" /\ Len(up) >= 6
  /\ \E f \in Arrived :
       /\ up' = SubSeq(up, f.len + 1, Len(up))
       /\ \/ /\ f.op = Text /\ heard' = Append(heard, f.text)
             /\ Answer(f.text) /\ UNCHANGED srv
          \/ f.op = Close /\ srv' = "gone" /\ UNCHANGED <<heard, said, gave, down>>
  /\ UNCHANGED <<clientVars, reply>>

\* The server fails or resets the connection; bytes in flight may be lost.
SrvHangup ==
  /\ srv \in {"accepted", "open"}
  /\ srv' = "gone"
  /\ \E k \in 0..Len(down) : down' = SubSeq(down, 1, k)
  /\ UNCHANGED <<clientVars, up, reply, heard, said, gave>>

Terminated == pc \in {"done", "failed"} /\ UNCHANGED vars

Next == Client \/ SrvUpgrade \/ SrvServe \/ SrvHangup \/ Terminated

Spec == Init /\ [][Next]_vars

\* The client runs, and the server answers what it has received.
FairSpec == Spec /\ WF_vars(Client) /\ WF_vars(SrvUpgrade) /\ WF_vars(SrvServe)

----------------------------------------------------------------------------
(* Properties.                                                             *)

\* Type correctness; a text that was taken fits its buffer with the zero.
WsTypeOK ==
  /\ pc \in {"dial", "upgrade", "register", "registered", "pair", "paired",
             "rtr", "token", "close", "done", "failed"}
  /\ up \in Seq(Byte) /\ down \in Seq(Byte) /\ got \in Seq(Byte) /\ body \in Seq(Byte)
  /\ sent \in Seq(Seq(Byte)) /\ heard \in Seq(Seq(Byte))
  /\ taken \in Seq(Seq(Byte)) /\ \A i \in DOMAIN taken : Len(taken[i]) < BufSize
  /\ gave \in Seq(Seq(Byte))
  /\ srv \in {"none", "accepted", "open", "gone"} /\ reply \in Seq(Byte)
  /\ said \subseteq {"registered", "paired"}

\* The length of a close frame of the client, its key included.
CloseLen == 6

\* A text whose last tokens are the close frame that followed a short write.
EndsGarbled(text, msg) ==
  Len(text) = Len(msg) /\ \A i \in 1..Len(msg) - CloseLen : text[i] = msg[i]

\* The server receives exactly the texts the client sends, in order, whatever
\* their lengths and masks.  Of a send that failed half way it hears nothing,
\* unless the close frame of ws_close makes up for the few bytes that were not
\* written: then that text arrives with its end garbled, is the last one, and
\* the client has failed.
HearsWhatIsSent ==
  /\ Len(heard) <= Len(sent)
  /\ \A i \in DOMAIN heard :
       heard[i] = sent[i]
         \/ (i = Len(sent) /\ pc = "failed" /\ EndsGarbled(heard[i], sent[i]))

\* The response to the upgrade does not fit resp: its rest is read as frames.
Unsynchronised == Len(reply) > RespMax

\* However the bytes are cut into reads, the texts taken from the connection
\* are those of the server's frames, in order.
TakesWholeFrames == Unsynchronised \/ IsPrefix(taken, gave)

\* The client goes on after registering only if the server has registered its
\* id: no ping, piece of a message, refusal or byte out of step with the
\* frames is taken for the answer.
RegisteredByServerOnly ==
  pc \in {"pair", "paired", "rtr", "token", "close", "done"} => "registered" \in said

\* The queue pair is connected to the server's: an answer in several frames is
\* refused, or has lost only the number of its last key, the MTU, which is
\* then 0, and no MTU.
PathIsServers ==
  path # << >> =>
    /\ "paired" \in said
    /\ path.dest_qp_num = ServerQp.qpn /\ path.dlid = ServerQp.lid
    /\ path.dgid = ServerQp.gid /\ path.path_mtu \in {ServerQp.mtu_enum, 0}

\* The queue pair is brought up on the caller's gid_index, whose GID was sent
\* to the server as the address to answer to.
PathIsFromGidIndex == path # << >> => path.sgid_index = GidIdx

\* Every handshake ends, in success or in an error: no read waits for bytes
\* that will not come, unless the response to the upgrade was too long.
HandshakeEnds == <>(pc \in {"done", "failed"} \/ Unsynchronised)

=============================================================================
