------------------------------- MODULE S3Call -------------------------------
(***************************************************************************)
(* One S3 request of the C programs, from signing to the freeing of what   *)
(* it held: s3_head_object, s3_get_object and s3_put_object of s3client.c, *)
(* and the multipart calls of s3rdmamultipart.c over its s3_request.  The  *)
(* other modules know of a call only that it succeeds or fails; here are   *)
(* the signature, the answer that arrives in pieces and may be cut off,    *)
(* its buffer, and the XML that is taken from it.                          *)
(*                                                                         *)
(* Hashes are abstract: a signature is the record of what was signed, to   *)
(* be compared with what the server finds in the request.  A text is a     *)
(* sequence of tokens: tags, and characters of values.  libcurl and the    *)
(* server are external.                                                    *)
(***************************************************************************)
EXTENDS Integers, Sequences, SequencesExt

CONSTANTS
  Cap0,          \* the first size of a response buffer, 4096 in the code
  UploadIdSize,  \* char upload_id[256] ...
  NumSize,       \* ... num[32] ...
  EtagSize,      \* ... and etag[256], which texts are cut to
  IntBits,       \* the width of an int ...
  LongBits,      \* ... and of a long
  Char,          \* the characters of values; a space or a sign is none of them
  UploadIds,     \* the upload ids the server may give out
  PartLists,     \* answers to ListParts: sequences of [num, etag], either may be << >>
  EtagLens,      \* lengths of the ETags of the parts to be completed ...
  MaxParts,      \* ... and the most there are
  NoValue        \* nothing was taken

ClientOp == {"head", "get", "put"}                      \* s3client.c
MultiOp  == {"create", "part", "list", "complete", "abort", "list-uploads"}
Op == ClientOp \cup MultiOp

ASSUME Cap0Assumption == Cap0 \in Nat \ {0}
ASSUME SizesAssumption == {UploadIdSize, NumSize, EtagSize} \subseteq Nat \ {0}
ASSUME WidthsAssumption == IntBits \in Nat \ {0} /\ LongBits \in Nat /\ LongBits >= IntBits
ASSUME EtagLensAssumption == EtagLens \subseteq 0..255   \* char etag[256]
ASSUME MaxPartsAssumption == MaxParts \in Nat

\* The tags of the answers; no value contains one.
OpenTag  == [UploadId |-> "<UploadId>", Part |-> "<Part>",
             PartNumber |-> "<PartNumber>", ETag |-> "<ETag>"]
CloseTag == [UploadId |-> "</UploadId>", Part |-> "</Part>",
             PartNumber |-> "</PartNumber>", ETag |-> "</ETag>"]
Tag == {OpenTag[t] : t \in DOMAIN OpenTag} \cup {CloseTag[t] : t \in DOMAIN CloseTag}
Token == Char \cup Tag

ASSUME CharAssumption == Char \cap Tag = {} /\ "x" \in Char
ASSUME UploadIdsAssumption == UploadIds \subseteq Seq(Char)
ASSUME PartListsAssumption == PartLists \subseteq Seq([num : Seq(Char), etag : Seq(Char)])

\* An answer: its status, whether its length is announced, the upload id and
\* the parts it gives, and whether the connection lasts to its end.
AnswerType == [http : {200, 201, 204, 307, 403, 500}, known : BOOLEAN, id : Seq(Char),
               parts : Seq([num : Seq(Char), etag : Seq(Char)]), complete : BOOLEAN]

ASSUME NoValueAssumption == NoValue \notin Seq(Token) /\ NoValue \notin AnswerType

VARIABLES
  pc,        \* where the call is
  op,        \* which call it is
  opts,      \* list-uploads: the options given
  etags,     \* complete: the ETag lengths of the parts
  request,   \* what is sent, with what was signed
  mem,       \* what is held: "body", "slist", "curl", "resp", "parts", and "lost"
             \* for the beginning of a header list that nothing points to any more
  answer,    \* the server's answer
  wire,      \* the part of its body that has not arrived
  resp,      \* response_buf_t: the data ...
  cap,       \* ... and its capacity
  rc,        \* what curl_easy_perform returned, "none" before
  out,       \* the size, upload id or parts taken from the answer
  ret,       \* 0 or -1
  executed   \* the server has done what was asked

vars == <<pc, op, opts, etags, request, mem, answer, wire, resp, cap, rc, out, ret,
          executed>>

----------------------------------------------------------------------------
(* Requests.                                                               *)

method(o) ==
  CASE o = "head" -> "HEAD" [] o \in {"get", "list", "list-uploads"} -> "GET"
    [] o \in {"put", "part"} -> "PUT" [] o \in {"create", "complete"} -> "POST"
    [] o = "abort" -> "DELETE"

\* The optional parameters of list-uploads, in the order they are put.
ListOptions == <<"delimiter", "key-marker", "max-uploads", "prefix", "upload-id-marker">>

query(o) ==
  CASE o \in ClientOp -> << >>
    [] o = "create" -> <<"uploads">>
    [] o = "part" -> <<"partNumber", "uploadId">>
    [] o \in {"list", "complete", "abort"} -> <<"uploadId">>
    [] o = "list-uploads" ->
         <<"uploads">> \o SelectSeq(ListOptions, LAMBDA p : p \in opts)

target(o) == IF o = "list-uploads" THEN "bucket" ELSE "object"

\* sign_request: s3client.c signs two headers, s3rdmamultipart.c the length
\* of a body too.
sign_request(o) ==
  [method |-> method(o), target |-> target(o), query |-> query(o),
   headers |-> {"host", "x-amz-date"}
                 \cup (IF o = "complete" THEN {"content-length"} ELSE {})]

\* Fault: the default Content-Type of a POST is not suppressed.
Suppressed_AcceptOnly(o) == <<"accept:">>

\* The items without a value, which suppress a header of libcurl's.
Suppressed(o) == IF o \in MultiOp THEN <<"accept:", "content-type:">> ELSE <<"accept:">>

\* The header list in its order: make_curl with its callers, and s3_request.
headers(o) ==
  <<"host", "x-amz-date", "authorization">> \o Suppressed(o)
    \o (IF o \in {"get", "put", "part"} THEN <<"x-rdma-request-id">> ELSE << >>)

\* What libcurl adds to the headers of a list.
CurlAdds(m, list) ==
  {"host"} \cup (IF "accept:" \in ToSet(list) THEN {} ELSE {"accept"})
           \cup (IF m # "POST" \/ "content-type:" \in ToSet(list) THEN {}
                 ELSE {"content-type"})
           \cup (IF m \in {"POST", "PUT"} THEN {"content-length"} ELSE {})

\* The headers that are sent.
Transmitted(m, list) ==
  (ToSet(list) \ {"accept:", "content-type:"}) \cup CurlAdds(m, list)

\* What the server computes the signature over: the parameters sorted by
\* name, and the headers but those that are no part of a signature; a length
\* only if there is a body.
ParamOrder == <<"delimiter", "key-marker", "max-uploads", "partNumber", "prefix",
                "upload-id-marker", "uploadId", "uploads">>

Before(p, q) ==
  \E i, j \in DOMAIN ParamOrder : i < j /\ ParamOrder[i] = p /\ ParamOrder[j] = q

Sorted(params) ==
  [i \in DOMAIN params |->
     CHOOSE p \in ToSet(params) :
       Cardinality({q \in ToSet(params) : Before(q, p)}) = i - 1]

Recomputed(r) ==
  [method |-> r.method, target |-> r.target, query |-> Sorted(r.query),
   headers |-> (r.headers \ {"authorization", "x-rdma-request-id"})
                 \ (IF r.body THEN {} ELSE {"content-length"})]

Init ==
  /\ pc = "call" /\ op \in Op
  /\ opts \in SUBSET (IF op = "list-uploads" THEN ToSet(ListOptions) ELSE {})
  /\ etags \in (IF op = "complete" THEN UNION {[1..n -> EtagLens] : n \in 0..MaxParts}
                ELSE {<< >>})
  /\ request = NoValue /\ mem = {} /\ answer = NoValue /\ wire = << >>
  /\ resp = << >> /\ cap = 0 /\ rc = "none" /\ out = NoValue /\ ret = 0
  /\ executed = FALSE

----------------------------------------------------------------------------
(* Sending.                                                                *)

\* The room for the body of CompleteMultipartUpload.
BodyCap(n) == 256 + n * 384

\* What snprintf writes for a part: tags, at most eleven digits, and the ETag
\* or a pair of quotes.
PartLen(len) == 51 + 11 + (IF len = 0 THEN 2 ELSE len)

\* The offset the loop over the parts ends with.
BodyLen(lens) ==
  LET off[i \in 0..Len(lens)] == IF i = 0 THEN 51 ELSE off[i - 1] + PartLen(lens[i])
  IN  off[Len(lens)]

\* s3_complete_multipart makes its body first, and may get no memory for it.
MakeBody ==
  /\ pc = "call" /\ op = "complete"
  /\ \/ pc' = "open" /\ mem' = mem \cup {"body"} /\ UNCHANGED ret
     \/ pc' = "returned" /\ ret' = -1 /\ UNCHANGED mem
  /\ UNCHANGED <<op, opts, etags, request, answer, wire, resp, cap, rc, out, executed>>

\* Signing, the header list and curl_easy_init.  An append that gets no memory
\* returns NULL, which replaces the list: only what is appended after the last
\* such append, the k-th, is sent, and what was in the list is lost.  Without a
\* handle s3_request gives up; s3client.c goes on, and libcurl refuses every
\* call without one.
Open ==
  /\ pc = (IF op = "complete" THEN "open" ELSE "call")
  /\ \E k \in 0..Len(headers(op)), lost \in SUBSET {"lost"} :
       LET list == SubSeq(headers(op), k + 1, Len(headers(op)))
           held == mem \cup lost \cup (IF list = << >> THEN {} ELSE {"slist"})
       IN
       /\ lost # {} => k > 1
       /\ \/ /\ mem' = held \cup {"curl"}
             /\ request' = [signed |-> sign_request(op), method |-> method(op),
                            target |-> target(op), query |-> query(op),
                            headers |-> Transmitted(method(op), list),
                            unsent |-> k, body |-> op = "complete"]
             /\ pc' = "perform" /\ UNCHANGED <<rc, ret>>
          \/ /\ op \in MultiOp /\ mem' = held \ {"slist"}
             /\ pc' = "free" /\ ret' = -1 /\ UNCHANGED <<request, rc>>
          \/ /\ op \in ClientOp /\ mem' = held
             /\ pc' = "close" /\ rc' = "error" /\ UNCHANGED <<request, ret>>
  /\ UNCHANGED <<op, opts, etags, answer, wire, resp, cap, out, executed>>

----------------------------------------------------------------------------
(* The server, and what libcurl makes of its answer; external.             *)

\* The XML of an answer.
Tagged(tag, text) == <<OpenTag[tag]>> \o text \o <<CloseTag[tag]>>

PartXml(p) ==
  Tagged("Part", (IF p.num = << >> THEN << >> ELSE Tagged("PartNumber", p.num))
                   \o (IF p.etag = << >> THEN << >> ELSE Tagged("ETag", p.etag)))

Bodies ==
  CASE op = "create" -> {[xml |-> Tagged("UploadId", u), id |-> u, parts |-> << >>] :
                           u \in UploadIds}
    [] op = "list" -> {[xml |-> FlattenSeq([i \in DOMAIN ps |-> PartXml(ps[i])]),
                        id |-> << >>, parts |-> ps] : ps \in PartLists}
    [] OTHER -> {[xml |-> xml, id |-> << >>, parts |-> << >>] :
                   xml \in {<< >>, <<"x", "x">>}}

\* The server takes no request without a signature or with other headers than
\* the signed ones, and does what is asked only if it knows the queue pair.
Authentic ==
  /\ "authorization" \in request.headers
  /\ request.signed.headers = Recomputed(request).headers

Obeyed == op \in {"get", "put", "part"} => "x-rdma-request-id" \in request.headers

\* The request arrives: it is done, and answered with a success, or refused.
\* The length of the body may be announced or not; so may, for HEAD, the
\* size of the object.
Serve ==
  /\ pc = "perform" /\ answer = NoValue
  /\ \E b \in Bodies, known \in BOOLEAN :
       \/ \E http \in {200} \cup (IF op \in {"create", "list"} THEN {} ELSE {201, 204}) :
            /\ Authentic
            /\ answer' = [http |-> http, known |-> known, id |-> b.id, parts |-> b.parts,
                          complete |-> TRUE]
            /\ wire' = IF op = "head" \/ http = 204 THEN << >> ELSE b.xml
            /\ executed' = Obeyed
       \/ \E http \in {307, 403, 500} :
            /\ answer' = [http |-> http, known |-> known, id |-> << >>, parts |-> << >>,
                          complete |-> TRUE]
            /\ wire' = <<"x", "x">> /\ UNCHANGED executed
  /\ UNCHANGED <<pc, op, opts, etags, request, mem, resp, cap, rc, out, ret>>

\* The connection fails before an answer; the server may have done its work.
Lost ==
  /\ pc = "perform" /\ answer = NoValue
  /\ pc' = "close" /\ rc' = "error" /\ executed' \in {FALSE, Authentic /\ Obeyed}
  /\ UNCHANGED <<op, opts, etags, request, mem, answer, wire, resp, cap, out, ret>>

\* The connection ends inside the body.
Cut ==
  /\ pc = "perform" /\ answer # NoValue /\ wire # << >>
  /\ wire' = << >> /\ answer' = [answer EXCEPT !.complete = FALSE]
  /\ UNCHANGED <<pc, op, opts, etags, request, mem, resp, cap, rc, out, ret, executed>>

----------------------------------------------------------------------------
(* Receiving.                                                              *)

\* Fault: the room for the terminating zero is forgotten.
Fits_NoZero(len, n) == len + n <= cap

\* The test of write_response.
Fits(len, n) == len + n + 1 <= cap

\* The capacity is doubled until it is enough.
NewCap(need) ==
  LET grown[c \in Nat] == IF c >= need THEN c ELSE grown[2 * c]
  IN  grown[IF cap = 0 THEN Cap0 ELSE 2 * cap]

\* A piece of the body: s3client.c discards it, write_response appends it to
\* the buffer, which may have to grow, and stops the transfer if it cannot.
write_response ==
  /\ pc = "perform" /\ wire # << >>
  /\ \E n \in 1..Len(wire) :
       \/ /\ op \in MultiOp
          /\ resp' = resp \o SubSeq(wire, 1, n)
          /\ cap' = IF Fits(Len(resp), n) THEN cap ELSE NewCap(Len(resp) + n + 1)
          /\ wire' = SubSeq(wire, n + 1, Len(wire))
          /\ mem' = mem \cup {"resp"} /\ UNCHANGED <<pc, rc>>
       \/ /\ op \in MultiOp /\ ~Fits(Len(resp), n)
          /\ pc' = "close" /\ rc' = "error" /\ UNCHANGED <<resp, cap, wire, mem>>
       \/ /\ op \in ClientOp /\ wire' = SubSeq(wire, n + 1, Len(wire))
          /\ UNCHANGED <<resp, cap, mem, pc, rc>>
  /\ UNCHANGED <<op, opts, etags, request, answer, out, ret, executed>>

\* curl_easy_perform returns.  A body shorter than announced is an error,
\* except for GET, which ignores the length.  header_cb has seen the size.
Performed ==
  /\ pc = "perform" /\ answer # NoValue /\ wire = << >>
  /\ rc' = IF answer.complete \/ ~answer.known \/ op = "get" THEN "ok" ELSE "error"
  /\ out' = IF op = "head" THEN (IF answer.known THEN "size" ELSE "-1") ELSE out
  /\ pc' = "close"
  /\ UNCHANGED <<op, opts, etags, request, mem, answer, wire, resp, cap, ret, executed>>

----------------------------------------------------------------------------
(* The end of a call.                                                      *)

\* Fault: only client and server errors are failures.
Accepted_NoError(o, http) == http < 400

Accepted(o, http) ==
  CASE o \in {"head", "get"} -> http = 200
    [] o = "put" -> http \in {200, 201}
    [] o \in MultiOp -> http >= 200 /\ http < 300

\* The status is looked at, and the handle and the header list are freed.
Closed ==
  /\ pc = "close"
  /\ ret' = IF rc = "ok" /\ Accepted(op, answer.http) THEN 0 ELSE -1
  /\ mem' = mem \ {"slist", "curl"}
  /\ pc' = IF op \in ClientOp THEN "returned"
           ELSE IF ret' = 0 /\ op \in {"create", "list"} THEN "parse" ELSE "free"
  /\ UNCHANGED <<op, opts, etags, request, answer, wire, resp, cap, rc, out, executed>>

\* The position of a token at or after p, or 0.
strstr(xml, p, tok) ==
  LET at == {i \in p..Len(xml) : xml[i] = tok} IN IF at = {} THEN 0 ELSE Min(at)

\* As much of a text as a buffer has room for, with the terminating zero.
Clipped(text, outlen) ==
  SubSeq(text, 1, IF Len(text) < outlen THEN Len(text) ELSE outlen - 1)

\* Fault: without its closing tag, a value is what follows the opening one.
find_tag_text_Unclosed(xml, tag, outlen) ==
  LET p == strstr(xml, 1, OpenTag[tag])
      q == strstr(xml, p + 1, CloseTag[tag])
  IN  IF p = 0 THEN NoValue
      ELSE Clipped(SubSeq(xml, p + 1, IF q = 0 THEN Len(xml) ELSE q - 1), outlen)

\* The text between the first such tag and the next closing one.
find_tag_text(xml, tag, outlen) ==
  LET p == strstr(xml, 1, OpenTag[tag])
      q == strstr(xml, p + 1, CloseTag[tag])
  IN  IF p = 0 \/ q = 0 THEN NoValue ELSE Clipped(SubSeq(xml, p + 1, q - 1), outlen)

Digits == <<"0", "1", "2", "3", "4", "5", "6", "7", "8", "9">>

\* The number that digits write.
Value(text) ==
  FoldLeft(LAMBDA n, c : 10 * n + (CHOOSE i \in DOMAIN Digits : Digits[i] = c) - 1, 0, text)

\* What a conversion to int leaves of a number.
AsInt(x) ==
  LET m == x % 2^IntBits IN IF m < 2^(IntBits - 1) THEN m ELSE m - 2^IntBits

\* The digits a text begins with, as a long that does not overflow, as an int.
atoi(text) ==
  LET n == Max({i \in 0..Len(text) : \A j \in 1..i : text[j] \in ToSet(Digits)})
      v == Value(SubSeq(text, 1, n))
  IN  AsInt(IF v < 2^(LongBits - 1) THEN v ELSE 2^(LongBits - 1) - 1)

\* The block of a part that begins at or after p, 0 if there is none.
BlockStart(xml, p) == strstr(xml, p, OpenTag["Part"])
BlockEnd(xml, p)   == strstr(xml, BlockStart(xml, p) + 1, CloseTag["Part"])

\* A block without a number or an ETag is passed over.
parse_block(block) ==
  LET num  == find_tag_text(block, "PartNumber", NumSize)
      etag == find_tag_text(block, "ETag", EtagSize)
  IN  IF num = NoValue \/ etag = NoValue THEN << >>
      ELSE <<[num |-> atoi(num), etag |-> etag]>>

\* The loop of parse_parts, from position p on; a block without an end stops it.
parse_parts(xml) ==
  LET from[p \in 1..Len(xml) + 1] ==
        IF BlockStart(xml, p) = 0 \/ BlockEnd(xml, p) = 0 THEN << >>
        ELSE parse_block(SubSeq(xml, BlockStart(xml, p), BlockEnd(xml, p)))
               \o from[BlockEnd(xml, p) + 1]
  IN  from[1]

\* s3_create_multipart and s3_list_parts; parse_parts may get no memory.
Parse ==
  /\ pc = "parse" /\ pc' = "free"
  /\ \/ /\ op = "create"
        /\ out' = find_tag_text(resp, "UploadId", UploadIdSize)
        /\ ret' = IF out' = NoValue THEN -1 ELSE 0
        /\ UNCHANGED mem
     \/ /\ op = "list"
        /\ \/ out' = parse_parts(resp) /\ mem' = mem \cup {"parts"} /\ UNCHANGED ret
           \/ ret' = -1 /\ UNCHANGED <<out, mem>>
  /\ UNCHANGED <<op, opts, etags, request, answer, wire, resp, cap, rc, executed>>

\* Fault: the body is freed only where the request was sent.
Free_BodyIfSent ==
  /\ pc = "free" /\ pc' = "returned"
  /\ mem' = mem \ (IF request = NoValue THEN {"resp"} ELSE {"resp", "body"})
  /\ UNCHANGED <<op, opts, etags, request, answer, wire, resp, cap, rc, out, ret, executed>>

\* free(resp.data), and the body of complete; the parts are the caller's.
Free ==
  /\ pc = "free" /\ pc' = "returned"
  /\ mem' = mem \ {"resp", "body"}
  /\ UNCHANGED <<op, opts, etags, request, answer, wire, resp, cap, rc, out, ret, executed>>

Terminated == pc = "returned" /\ UNCHANGED vars

Call == MakeBody \/ Open \/ write_response \/ Performed \/ Closed \/ Parse \/ Free

Next == Call \/ Serve \/ Lost \/ Cut \/ Terminated

Spec == Init /\ [][Next]_vars

----------------------------------------------------------------------------
(* Properties.                                                             *)

Step == {"call", "open", "perform", "close", "parse", "free", "returned"}

\* Type correctness; a response buffer has room for its text and a zero, and
\* the body of complete for all of its parts.
CallTypeOK ==
  /\ pc \in Step /\ op \in Op /\ ret \in {0, -1} /\ rc \in {"none", "ok", "error"}
  /\ mem \subseteq {"body", "slist", "curl", "resp", "parts", "lost"}
  /\ "resp" \in mem => Len(resp) < cap
  /\ "body" \in mem => BodyLen(etags) < BodyCap(Len(etags))

\* The server computes the signature over what was signed: no header that
\* libcurl adds by itself gets in between, and the length is signed exactly
\* where there is a body.  For list-uploads, whose parameters are signed
\* unsorted, the headers agree.  Not promised where the header list ran out of
\* memory.
SignatureAgrees ==
  request # NoValue /\ request.unsent = 0 =>
    LET s == Recomputed(request)
    IN  /\ request.signed.headers = s.headers
        /\ op # "list-uploads" => request.signed = s

\* A call that reports success has been done by the server: no redirect,
\* error status, lost or refused answer is taken for one, and a request that
\* goes out without its last headers does not succeed.
OkMeansDone == pc = "returned" /\ ret = 0 => executed

\* The parts of a list that have a number and an ETag.
WholeParts(ps) ==
  FlattenSeq([i \in DOMAIN ps |->
                IF ps[i].num # << >> /\ ps[i].etag # << >> THEN <<ps[i]>> ELSE << >>])

\* A part number that is all digits, fits its buffer and an int.
Countable(num) ==
  /\ \A j \in DOMAIN num : num[j] \in ToSet(Digits)
  /\ Len(num) < NumSize /\ Value(num) \in 0..(2^(IntBits - 1) - 1)

\* The number and the ETag of part p were taken as they are, where they fit; an
\* ETag that fills its field to the last byte is not promised, for strncpy ends
\* it with whatever was there.
TakenFrom(taken, p) ==
  /\ Countable(p.num) => taken.num = Value(p.num)
  /\ Len(p.etag) + 1 < EtagSize => taken.etag = p.etag

\* What a successful call takes from the answer is the server's: the upload id,
\* or as much of it as the buffer holds, and parts of the list in its order,
\* each with its own number and ETag.  Parts are missing only if they lack one
\* of the two, or if the connection ended early on an answer of unannounced
\* length.
TakesServersAnswer ==
  pc = "returned" /\ ret = 0 =>
    /\ op = "create" => /\ IsPrefix(out, answer.id)
                        /\ Len(answer.id) < UploadIdSize => out = answer.id
    /\ op = "list" =>
         LET whole == WholeParts(answer.parts) IN
         /\ Len(out) <= Len(whole) /\ \A i \in DOMAIN out : TakenFrom(out[i], whole[i])
         /\ Len(out) = Len(whole) \/ ~(answer.complete \/ answer.known)

\* A call that reports success returns with nothing held but the parts it hands
\* to its caller, and one that fails with nothing but a header list for which
\* the memory ran out, whichever of its steps fails.
ReturnsClean ==
  pc = "returned" =>
    mem \subseteq (IF ret = -1 THEN {"lost"} ELSE IF op = "list" THEN {"parts"} ELSE {})

=============================================================================
